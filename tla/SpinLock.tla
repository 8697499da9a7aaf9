------------------------------ MODULE SpinLock ------------------------------
(***************************************************************************)
(* spinlock_t of utils/spinlock.h: one word that is 0 when the lock is     *)
(* free and 1 when it is held.                                             *)
(***************************************************************************)

EXTENDS Naturals

CONSTANT Threads

VARIABLES
  lock,  \* spinlock_t.lock
  pc     \* where each thread is

vars == <<lock, pc>>

(* "out"   not using the lock;                                             *)
(* "trying" in spinlock_trylock, called by the client;                     *)
(* "attempt" in spinlock_lock, before the spinlock_trylock of its loop;    *)
(* "spin"  in spinlock_lock, reading the word until it is not 1;           *)
(* "in"    holding the lock.                                               *)
Locations == {"out", "trying", "attempt", "spin", "in"}

Init ==
  /\ lock = 0
  /\ pc = [t \in Threads |-> "out"]

Goto(t, l) == pc' = [pc EXCEPT ![t] = l]

Call(t) ==
  /\ pc[t] = "out"
  /\ Goto(t, "trying") \/ Goto(t, "attempt")
  /\ UNCHANGED lock

\* A mistake: the expected and the desired value are swapped.
CompareExchangeSwapped(t, failed) ==
  \/ lock = 1 /\ lock' = 0 /\ Goto(t, "in")
  \/ lock # 1 /\ UNCHANGED lock /\ Goto(t, failed)

\* The compare-and-exchange from 0 to 1.
CompareExchange(t, failed) ==
  \/ lock = 0 /\ lock' = 1 /\ Goto(t, "in")
  \/ lock # 0 /\ UNCHANGED lock /\ Goto(t, failed)

\* A mistake: the result of the exchange is ignored.
TryLockIgnored(t) ==
  /\ pc[t] = "trying"
  /\ CompareExchange(t, "in")

TryLock(t) ==
  /\ pc[t] = "trying"
  /\ CompareExchange(t, "out")

LockAttempt(t) ==
  /\ pc[t] = "attempt"
  /\ CompareExchange(t, "spin")

\* A mistake: the lock is taken for granted when it was seen to be free.
LockSpinEnters(t) ==
  /\ pc[t] = "spin"
  /\ lock # 1
  /\ Goto(t, "in")
  /\ UNCHANGED lock

LockSpin(t) ==
  /\ pc[t] = "spin"
  /\ lock # 1
  /\ Goto(t, "attempt")
  /\ UNCHANGED lock

Unlock(t) ==
  /\ pc[t] = "in"
  /\ lock' = 0
  /\ Goto(t, "out")

Step(t) == TryLock(t) \/ LockAttempt(t) \/ LockSpin(t) \/ Unlock(t)

Next == \E t \in Threads : Call(t) \/ Step(t)

Spec == Init /\ [][Next]_vars

(* A thread inside a call of the lock, or inside the critical section,     *)
(* keeps running; nobody is forced to ask for the lock.                    *)
FairSpec == Spec /\ \A t \in Threads : WF_vars(Step(t))

-----------------------------------------------------------------------------

\* The word is only ever 0 or 1, whoever writes it.
TypeOK ==
  /\ lock \in {0, 1}
  /\ pc \in [Threads -> Locations]

(* spinlock_lock and spinlock_trylock admit nobody while another thread is *)
(* between its lock and its unlock, and the word says so: it is 1 exactly  *)
(* while a thread is inside.                                               *)
OneHolder ==
  /\ \A s, t \in Threads : pc[s] = "in" /\ pc[t] = "in" => s = t
  /\ (lock = 1) <=> \E t \in Threads : pc[t] = "in"

Waiting == {t \in Threads : pc[t] \in {"trying", "attempt", "spin"}}
Inside == {t \in Threads : pc[t] = "in"}

Abstract == INSTANCE Lock WITH waiting <- Waiting, inside <- Inside

(* The spinlock is a lock: every step of it is one the abstract lock may   *)
(* take, a spin or a failed attempt being none at all.                     *)
ImplementsLock == Abstract!Spec

(* The lock never stalls as a whole: when threads wait for it, somebody is *)
(* inside sooner or later.  A given waiter may be passed over for ever.    *)
SomebodyEnters == (\E t \in Threads : pc[t] \in {"attempt", "spin"}) ~> (\E t \in Threads : pc[t] = "in")
=============================================================================
