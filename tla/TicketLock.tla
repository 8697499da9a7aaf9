----------------------------- MODULE TicketLock -----------------------------
(***************************************************************************)
(* ticket_lock_t of utils/spinlock.h: a thread draws a ticket and waits    *)
(* until its number is served.  Both counters wrap: the code compares      *)
(* their low 32 bits, here numbers below Wrap.                             *)
(***************************************************************************)

EXTENDS Integers, FiniteSets

CONSTANTS
  Threads,
  Wrap      \* the number of different tickets, 2^32 in the code

\* There is a ticket for every thread.
ASSUME WrapAssumption ==
  /\ IsFiniteSet(Threads)
  /\ Wrap \in Nat \ {0}
  /\ Cardinality(Threads) <= Wrap

VARIABLES
  ticket,   \* the next ticket to draw
  serving,  \* the ticket that may enter
  my,       \* the local of ticket_lock_lock: the ticket a thread drew last
  pc

vars == <<ticket, serving, my, pc>>

Tickets == 0 .. Wrap - 1

\* "out" not using the lock, "spin" waiting for its number, "in" holding it.
Locations == {"out", "spin", "in"}

\* The number after x: the increment of a 32-bit counter.
After(x) == IF x = Wrap - 1 THEN 0 ELSE x + 1

Init ==
  /\ ticket = 0
  /\ serving = 0
  /\ my = [t \in Threads |-> 0]
  /\ pc = [t \in Threads |-> "out"]

Draw(t) ==
  /\ pc[t] = "out"
  /\ my' = [my EXCEPT ![t] = ticket]
  /\ ticket' = After(ticket)
  /\ pc' = [pc EXCEPT ![t] = "spin"]
  /\ UNCHANGED serving

\* A mistake: the number before the waiter's own will do.
LockSpinEarly(t) ==
  /\ pc[t] = "spin"
  /\ my[t] \in {serving, After(serving)}
  /\ pc' = [pc EXCEPT ![t] = "in"]
  /\ UNCHANGED <<ticket, serving, my>>

\* A mistake: the waiter watches for the lock to be free, not for its turn.
LockSpinWhenFree(t) ==
  /\ pc[t] = "spin"
  /\ \A s \in Threads : pc[s] # "in"
  /\ pc' = [pc EXCEPT ![t] = "in"]
  /\ UNCHANGED <<ticket, serving, my>>

LockSpin(t) ==
  /\ pc[t] = "spin"
  /\ serving = my[t]
  /\ pc' = [pc EXCEPT ![t] = "in"]
  /\ UNCHANGED <<ticket, serving, my>>

Unlock(t) ==
  /\ pc[t] = "in"
  /\ serving' = After(serving)
  /\ pc' = [pc EXCEPT ![t] = "out"]
  /\ UNCHANGED <<ticket, my>>

Next == \E t \in Threads : Draw(t) \/ LockSpin(t) \/ Unlock(t)

Spec == Init /\ [][Next]_vars

(* A thread that drew a ticket keeps running: it reads the number again    *)
(* and again, and leaves when it was served.                               *)
FairSpec == Spec /\ \A t \in Threads : WF_vars(LockSpin(t) \/ Unlock(t))

-----------------------------------------------------------------------------

\* The counters and the tickets drawn stay below the wrap.
TypeOK ==
  /\ ticket \in Tickets
  /\ serving \in Tickets
  /\ my \in [Threads -> Tickets]
  /\ pc \in [Threads -> Locations]

Waiters == {t \in Threads : pc[t] = "spin"}
Inside == {t \in Threads : pc[t] = "in"}
Users == {t \in Threads : pc[t] # "out"}

\* How many numbers are served before x.
Ahead(x) == IF x >= serving THEN x - serving ELSE x - serving + Wrap

Queue == [i \in 1 .. Cardinality(Waiters) |->
           CHOOSE t \in Waiters :
             Cardinality({s \in Waiters : Ahead(my[s]) < Ahead(my[t])}) = i - 1]

Fair == INSTANCE FairLock WITH queue <- Queue, inside <- Inside

(* Threads enter one at a time and in the order in which they drew their   *)
(* tickets, across the wrap of both counters.                              *)
ImplementsFairLock == Fair!Spec

Abstract == INSTANCE Lock WITH waiting <- Waiters, inside <- Inside

(* ticket_lock_t can stand wherever a lock is asked for.                   *)
ImplementsLock == Abstract!Spec

(* Nobody who drew a ticket waits for ever, as long as those who enter     *)
(* leave again.                                                            *)
EverybodyEnters == \A t \in Threads : pc[t] = "spin" ~> pc[t] = "in"

\* The n-th number after x.
Later(x, n) == IF x + n >= Wrap THEN x + n - Wrap ELSE x + n

(* What keeps the tickets apart: the users hold the numbers from serving   *)
(* up to ticket, each of them one.                                         *)
TicketsInUse ==
  /\ \A t \in Users : Ahead(my[t]) < Cardinality(Users)
  /\ \A s, t \in Users : my[s] = my[t] => s = t
  /\ \A t \in Inside : my[t] = serving
  /\ ticket = Later(serving, Cardinality(Users))
=============================================================================
