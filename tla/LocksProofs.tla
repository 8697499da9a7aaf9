---------------------------- MODULE LocksProofs ----------------------------
(***************************************************************************)
(* The locks of utils/spinlock.h, for any set of threads.  The spinlock    *)
(* admits one thread and its word says so.  The ticket lock admits one     *)
(* thread and keeps the order of the draw, for any wrap of its counters    *)
(* that leaves a ticket for each thread.  Both implement the abstract      *)
(* lock; the ticket lock implements the fair one too.                      *)
(***************************************************************************)

EXTENDS MCLocks, FiniteSetTheorems, SequenceTheorems, TLAPS

-----------------------------------------------------------------------------
(* The spinlock: the word and the thread inside go together.               *)

SpinInv == Spin!TypeOK /\ Spin!OneHolder

\* A new lock is free and nobody is inside.
LEMMA SpinInit == Spin!Init => SpinInv
  BY DEF Spin!Init, SpinInv, Spin!TypeOK, Spin!OneHolder, Spin!Locations

(* The invariant is inductive: each step changes the word and the one      *)
(* thread that runs together.                                              *)
LEMMA SpinStep == SpinInv /\ [Spin!Next]_(Spin!vars) => SpinInv'
<1> SUFFICES ASSUME SpinInv, [Spin!Next]_(Spin!vars) PROVE SpinInv'
  OBVIOUS
<1> USE DEF SpinInv, Spin!TypeOK, Spin!OneHolder, Spin!Locations, Spin!Goto
<1>1. CASE UNCHANGED Spin!vars
  BY <1>1 DEF Spin!vars
<1>2. ASSUME NEW t \in Spinners, Spin!Call(t) PROVE SpinInv'
  BY <1>2 DEF Spin!Call
<1>3. ASSUME NEW t \in Spinners, Spin!TryLock(t) PROVE SpinInv'
  BY <1>3 DEF Spin!TryLock, Spin!CompareExchange
<1>4. ASSUME NEW t \in Spinners, Spin!LockAttempt(t) PROVE SpinInv'
  BY <1>4 DEF Spin!LockAttempt, Spin!CompareExchange
<1>5. ASSUME NEW t \in Spinners, Spin!LockSpin(t) PROVE SpinInv'
  BY <1>5 DEF Spin!LockSpin
<1>6. ASSUME NEW t \in Spinners, Spin!Unlock(t) PROVE SpinInv'
  BY <1>6 DEF Spin!Unlock
<1> QED
  BY <1>1, <1>2, <1>3, <1>4, <1>5, <1>6 DEF Spin!Next, Spin!Step

(* Never two threads between a lock and an unlock of one spinlock, and the *)
(* word tells whether there is one (spinlock_is_locked).                   *)
THEOREM SpinLockCorrect == Spin!Spec => [](Spin!TypeOK /\ OneHolder)
<1>1. SpinInv => Spin!TypeOK /\ OneHolder
  BY DEF SpinInv, OneHolder
<1> QED
  BY SpinInit, SpinStep, <1>1, PTL DEF Spin!Spec

\* A new spinlock is a new abstract lock.
LEMMA SpinInitMaps == Spin!Init => Spin!Abstract!Init
  BY DEF Spin!Init, Spin!Abstract!Init, Spin!Waiting, Spin!Inside

(* Every step of the spinlock is a step of the abstract lock, or none.     *)
LEMMA SpinStepMaps ==
  ASSUME SpinInv, [Spin!Next]_(Spin!vars)
  PROVE  [Spin!Abstract!Next]_(Spin!Abstract!vars)
<1> USE DEF Spin!Abstract!Next, Spin!Abstract!vars, Spin!Waiting, Spin!Inside
<1>0. Spin!TypeOK /\ Spin!OneHolder
  BY DEF SpinInv
<1>1. CASE UNCHANGED Spin!vars
  BY <1>1 DEF Spin!vars
<1>2. ASSUME NEW t \in Spinners, Spin!Call(t) PROVE Spin!Abstract!Ask(t)
  BY <1>0, <1>2 DEF Spin!Call, Spin!Goto, Spin!TypeOK, Spin!Abstract!Ask
<1>3. ASSUME NEW t \in Spinners, Spin!TryLock(t)
      PROVE  Spin!Abstract!Admit(t) \/ Spin!Abstract!GiveUp(t)
  <2>1. CASE word = 0
    BY <1>0, <1>3, <2>1 DEF Spin!TryLock, Spin!CompareExchange, Spin!Goto, Spin!TypeOK, Spin!OneHolder, Spin!Abstract!Admit
  <2>2. CASE word # 0
    BY <1>0, <1>3, <2>2 DEF Spin!TryLock, Spin!CompareExchange, Spin!Goto, Spin!TypeOK, Spin!Abstract!GiveUp
  <2> QED
    BY <2>1, <2>2
<1>4. ASSUME NEW t \in Spinners, Spin!LockAttempt(t)
      PROVE  Spin!Abstract!Admit(t) \/ UNCHANGED Spin!Abstract!vars
  <2>1. CASE word = 0
    BY <1>0, <1>4, <2>1 DEF Spin!LockAttempt, Spin!CompareExchange, Spin!Goto, Spin!TypeOK, Spin!OneHolder, Spin!Abstract!Admit
  <2>2. CASE word # 0
    BY <1>0, <1>4, <2>2 DEF Spin!LockAttempt, Spin!CompareExchange, Spin!Goto, Spin!TypeOK
  <2> QED
    BY <2>1, <2>2
<1>5. ASSUME NEW t \in Spinners, Spin!LockSpin(t) PROVE UNCHANGED Spin!Abstract!vars
  BY <1>0, <1>5 DEF Spin!LockSpin, Spin!Goto, Spin!TypeOK
<1>6. ASSUME NEW t \in Spinners, Spin!Unlock(t) PROVE Spin!Abstract!Leave(t)
  BY <1>0, <1>6 DEF Spin!Unlock, Spin!Goto, Spin!TypeOK, Spin!Abstract!Leave
<1> QED
  BY <1>1, <1>2, <1>3, <1>4, <1>5, <1>6 DEF Spin!Next, Spin!Step

(* spinlock_t is a lock: the rest of the library may be understood with    *)
(* the abstract lock in its place.                                         *)
THEOREM SpinLockImplementsLock == Spin!Spec => SpinImplementsLock
<1>1. SpinInv /\ [Spin!Next]_(Spin!vars) => [Spin!Abstract!Next]_(Spin!Abstract!vars)
  BY SpinStepMaps
<1> QED
  BY SpinInit, SpinStep, SpinInitMaps, <1>1, PTL DEF Spin!Spec, SpinImplementsLock, Spin!ImplementsLock, Spin!Abstract!Spec

-----------------------------------------------------------------------------
(* The ticket lock.  That a waiter's number is its own rests on the number *)
(* of users: they hold the tickets from serving up to ticket, one each     *)
(* (TicketsInUse), so the next ticket is free as long as a thread is left  *)
(* to draw it.                                                             *)

TicketInv == TypeOK /\ TicketsInUse

\* The users are finitely many, and there are no more of them than tickets.
LEMMA UsersCount ==
  /\ IsFiniteSet(Users)
  /\ Cardinality(Users) \in 0 .. Wrap
  /\ \A t \in Threads \ Users : Cardinality(Users) < Wrap
<1>1. /\ IsFiniteSet(Users)
      /\ Cardinality(Users) <= Cardinality(Threads)
  BY FS_Subset, WrapAssumption DEF Users
<1>2. Cardinality(Users) \in Nat /\ Cardinality(Threads) \in Nat
  BY <1>1, FS_CardinalityType, WrapAssumption
<1>3. ASSUME NEW t \in Threads \ Users PROVE Cardinality(Users) < Wrap
  <2>1. Users # Threads
    BY <1>3
  <2>2. Cardinality(Users) # Cardinality(Threads)
    BY <2>1, FS_Subset, WrapAssumption DEF Users
  <2> QED
    BY <1>1, <1>2, <2>2, WrapAssumption
<1> QED
  BY <1>1, <1>2, <1>3, WrapAssumption

\* A new lock has no users.
LEMMA TicketInit == Init => TicketInv
<1> SUFFICES ASSUME Init PROVE TicketInv
  OBVIOUS
<1>1. Users = {} /\ Inside = {} /\ Cardinality(Users) = 0
  BY FS_EmptySet DEF Init, Users, Inside
<1>2. TypeOK
  BY WrapAssumption DEF Init, TypeOK, Tickets, Locations
<1>3. TicketsInUse
  BY <1>1, WrapAssumption DEF Init, TicketsInUse, Later
<1> QED
  BY <1>2, <1>3 DEF TicketInv

\* A drawn ticket is the one after those in use, and none of them.
LEMMA DrawKeeps ==
  ASSUME TicketInv, NEW t \in Threads, Draw(t)
  PROVE  TicketInv'
<1> DEFINE n == Cardinality(Users)
<1>1. TypeOK /\ TicketsInUse
  BY DEF TicketInv
<1>2. t \notin Users /\ Users' = Users \union {t} /\ Inside' = Inside
  BY <1>1 DEF Draw, TypeOK, Users, Inside
<1>3. IsFiniteSet(Users) /\ n \in Nat /\ n < Wrap
  BY <1>2, UsersCount
<1>4. Cardinality(Users') = n + 1
  BY <1>2, <1>3, FS_AddElement
<1> HIDE DEF n
<1>5. TypeOK'
  BY <1>1, WrapAssumption DEF Draw, TypeOK, Tickets, Locations, After
<1>6. /\ ticket = Later(serving, n)
      /\ ticket' = Later(serving, n + 1)
      /\ serving' = serving
  BY <1>1, <1>3, WrapAssumption DEF Draw, TypeOK, Tickets, TicketsInUse, Later, After, n
<1>7. /\ my'[t] = ticket
      /\ \A s \in Users : my'[s] = my[s]
  BY <1>1, <1>2 DEF Draw, TypeOK, Users
<1>8. Ahead(ticket) = n
  BY <1>1, <1>3, <1>6, WrapAssumption DEF TypeOK, Tickets, Ahead, Later
<1>9. \A s \in Users : Ahead(my[s]) < n /\ Ahead(my[s]) \in Nat
  BY <1>1, WrapAssumption DEF TypeOK, Tickets, TicketsInUse, Users, Ahead, n
<1>10. \A s \in Users' : Ahead(my[s])' < n + 1
  BY <1>2, <1>3, <1>6, <1>7, <1>8, <1>9 DEF Ahead
<1>11. \A s \in Users : my[s] # ticket
  BY <1>3, <1>8, <1>9
<1>12. \A r, s \in Users' : my'[r] = my'[s] => r = s
  BY <1>1, <1>2, <1>7, <1>11 DEF TicketsInUse
<1>13. \A s \in Inside : my'[s] = serving
  BY <1>1, <1>7 DEF TicketsInUse, Inside, Users
<1>14. TicketsInUse'
  <2>1. \A s \in Users' : Ahead(my[s])' < Cardinality(Users)'
    BY <1>4, <1>10
  <2>2. \A s \in Inside' : my'[s] = serving'
    BY <1>2, <1>6, <1>13
  <2>3. ticket' = Later(serving', Cardinality(Users)')
    BY <1>4, <1>6
  <2> QED
    BY <1>12, <2>1, <2>2, <2>3 DEF TicketsInUse
<1> QED
  BY <1>5, <1>14 DEF TicketInv

\* Who enters is the user whose number is served.
LEMMA LockSpinKeeps ==
  ASSUME TicketInv, NEW t \in Threads, LockSpin(t)
  PROVE  TicketInv'
<1>1. TypeOK /\ TicketsInUse
  BY DEF TicketInv
<1>2. Users' = Users /\ Inside' = Inside \union {t}
  BY <1>1 DEF LockSpin, TypeOK, Users, Inside
<1>3. TypeOK'
  BY <1>1 DEF LockSpin, TypeOK, Tickets, Locations
<1> QED
  BY <1>1, <1>2, <1>3 DEF LockSpin, TicketInv, TicketsInUse, Ahead

\* Who leaves held the first of the tickets in use.
LEMMA UnlockKeeps ==
  ASSUME TicketInv, NEW t \in Threads, Unlock(t)
  PROVE  TicketInv'
<1> DEFINE n == Cardinality(Users)
<1>1. TypeOK /\ TicketsInUse
  BY DEF TicketInv
<1>2. t \in Users /\ Users' = Users \ {t} /\ Inside' = Inside \ {t}
  BY <1>1 DEF Unlock, TypeOK, Users, Inside
<1>3. /\ IsFiniteSet(Users)
      /\ n \in 0 .. Wrap
  BY UsersCount
<1>4. Cardinality(Users') = n - 1 /\ n > 0
  BY <1>2, <1>3, FS_RemoveElement, FS_EmptySet
<1> HIDE DEF n
<1>5. TypeOK'
  BY <1>1, WrapAssumption DEF Unlock, TypeOK, Tickets, Locations, After
<1>6. /\ ticket = Later(serving, n)
      /\ ticket' = Later(serving', n - 1)
      /\ serving' = After(serving)
      /\ my' = my
  BY <1>1, <1>3, <1>4, WrapAssumption DEF Unlock, TypeOK, Tickets, TicketsInUse, Later, After, n
<1>7. my[t] = serving /\ \A s \in Users' : my[s] # serving
  BY <1>1, <1>2 DEF TicketsInUse, Unlock, Inside
<1>8. \A s \in Users' : Ahead(my[s])' < n - 1
  <2> SUFFICES ASSUME NEW s \in Users' PROVE Ahead(my[s])' < n - 1
    OBVIOUS
  <2>1. my[s] \in Tickets /\ serving \in Tickets /\ my[s] # serving
    BY <1>1, <1>2, <1>7 DEF TypeOK, Users
  <2>2. Ahead(my[s]) < n
    BY <1>1, <1>2 DEF TicketsInUse, n
  <2>3. Ahead(my[s])' = Ahead(my[s]) - 1
    BY <1>6, <2>1, WrapAssumption DEF Ahead, After, Tickets
  <2> QED
    BY <1>3, <2>1, <2>2, <2>3, WrapAssumption DEF Ahead, Tickets
<1>9. Inside' = {}
  BY <1>1, <1>2 DEF TicketsInUse, Inside, Users, Unlock
<1>10. TicketsInUse'
  <2>1. \A s \in Users' : Ahead(my[s])' < Cardinality(Users)'
    BY <1>4, <1>8
  <2>2. \A r, s \in Users' : my'[r] = my'[s] => r = s
    BY <1>1, <1>2, <1>6 DEF TicketsInUse
  <2>3. ticket' = Later(serving', Cardinality(Users)')
    BY <1>4, <1>6
  <2> QED
    BY <1>9, <2>1, <2>2, <2>3 DEF TicketsInUse
<1> QED
  BY <1>5, <1>10 DEF TicketInv

\* The invariant is inductive.
LEMMA TicketStep == TicketInv /\ [Next]_vars => TicketInv'
<1> SUFFICES ASSUME TicketInv, [Next]_vars PROVE TicketInv'
  OBVIOUS
<1>1. CASE UNCHANGED vars
  BY <1>1 DEF vars, TicketInv, TypeOK, TicketsInUse, Users, Inside, Ahead
<1>2. CASE Next
  BY <1>2, DrawKeeps, LockSpinKeeps, UnlockKeeps DEF Next
<1> QED
  BY <1>1, <1>2

(* Every ticket is held once, and the thread inside is the one whose       *)
(* number is served, however often the counters wrap.                      *)
THEOREM TicketLockCorrect == Spec => [](TypeOK /\ TicketsInUse)
<1>1. TicketInv => TypeOK /\ TicketsInUse
  BY DEF TicketInv
<1> QED
  BY TicketInit, TicketStep, <1>1, PTL DEF Spec

\* A new ticket lock is a new abstract lock.
LEMMA TicketInitMaps == Init => Abstract!Init
  BY DEF Init, Abstract!Init, Waiters, Inside

\* Every step of the ticket lock is a step of the abstract lock.
LEMMA TicketStepMaps ==
  ASSUME TicketInv, [Next]_vars
  PROVE  [Abstract!Next]_(Abstract!vars)
<1> USE DEF Abstract!Next, Abstract!vars, Waiters, Inside
<1>0. TypeOK /\ TicketsInUse
  BY DEF TicketInv
<1>1. CASE UNCHANGED vars
  BY <1>1 DEF vars
<1>2. ASSUME NEW t \in Threads, Draw(t) PROVE Abstract!Ask(t)
  BY <1>0, <1>2 DEF Draw, TypeOK, Abstract!Ask
<1>3. ASSUME NEW t \in Threads, LockSpin(t) PROVE Abstract!Admit(t)
  <2>1. Inside = {}
    BY <1>0, <1>3 DEF LockSpin, TicketsInUse, Users
  <2> QED
    BY <1>0, <1>3, <2>1 DEF LockSpin, TypeOK, Abstract!Admit
<1>4. ASSUME NEW t \in Threads, Unlock(t) PROVE Abstract!Leave(t)
  BY <1>0, <1>4 DEF Unlock, TypeOK, Abstract!Leave
<1> QED
  BY <1>1, <1>2, <1>3, <1>4 DEF Next

(* ticket_lock_t admits one thread at a time, whatever the wrap.           *)
THEOREM TicketLockImplementsLock == Spec => ImplementsLock
<1>1. TicketInv /\ [Next]_vars => [Abstract!Next]_(Abstract!vars)
  BY TicketStepMaps
<1> QED
  BY TicketInit, TicketStep, TicketInitMaps, <1>1, PTL DEF Spec, ImplementsLock, Abstract!Spec

-----------------------------------------------------------------------------
(* The order of the waiters.  The users are served after 0, 1, 2, ...      *)
(* others, so the rank of a waiter among the waiters, which places it in   *)
(* the queue, is the number served before it, less the one inside.         *)

\* Different ranks below the number of elements are all the ranks there are.
LEMMA Ranks ==
  ASSUME NEW U, IsFiniteSet(U), NEW f \in [U -> 0 .. Cardinality(U) - 1],
         \A s, t \in U : f[s] = f[t] => s = t
  PROVE  /\ \A k \in 0 .. Cardinality(U) - 1 : \E u \in U : f[u] = k
         /\ \A k \in 0 .. Cardinality(U) : Cardinality({u \in U : f[u] < k}) = k
<1> DEFINE n == Cardinality(U)
<1>1. n \in Nat
  BY FS_CardinalityType
<1>2. f \in Injection(U, 0 .. n - 1)
  BY DEF Injection, IsInjective
<1> HIDE DEF n
<1>3. IsFiniteSet(0 .. n - 1) /\ Cardinality(0 .. n - 1) = n
  BY <1>1, FS_Interval
<1>4. f \in Surjection(U, 0 .. n - 1)
  BY <1>2, <1>3, FS_Injection DEF n
<1>5. ASSUME NEW k \in 0 .. n - 1 PROVE \E u \in U : f[u] = k
  BY <1>4, <1>5 DEF Surjection
<1>6. ASSUME NEW k \in 0 .. n PROVE Cardinality({u \in U : f[u] < k}) = k
  <2> DEFINE S == {u \in U : f[u] < k}
             g == [u \in S |-> f[u]]
  <2>1. IsFiniteSet(S)
    BY FS_Subset
  <2>2. f \in [U -> 0 .. n - 1]
    BY DEF n
  <2>3. \A u \in S : f[u] \in 0 .. k - 1
    BY <1>1, <2>2
  <2>4. \A j \in 0 .. k - 1 : \E u \in S : f[u] = j
    <3> SUFFICES ASSUME NEW j \in 0 .. k - 1 PROVE \E u \in S : f[u] = j
      OBVIOUS
    <3>1. PICK u \in U : f[u] = j
      BY <1>1, <1>5
    <3> QED BY <1>1, <3>1
  <2>5. g \in Bijection(S, 0 .. k - 1)
    <3> HIDE DEF S
    <3>1. g \in [S -> 0 .. k - 1]
      BY <2>3
    <3>2. \A s, t \in S : g[s] = g[t] => s = t
      BY DEF S
    <3>3. \A j \in 0 .. k - 1 : \E u \in S : g[u] = j
      BY <2>4
    <3> QED BY <3>1, <3>2, <3>3 DEF Bijection, Injection, IsInjective, Surjection
  <2> HIDE DEF g, S
  <2>6. Cardinality(0 .. k - 1) = Cardinality(S)
    BY <2>1, <2>5, FS_Bijection DEF ExistsBijection
  <2>7. Cardinality(0 .. k - 1) = k
    BY <1>1, FS_Interval
  <2> QED BY <2>6, <2>7 DEF S
<1> QED BY <1>5, <1>6 DEF n

\* Whether a user is served already, as a number.
Served == IF Inside = {} THEN 0 ELSE 1

\* A user waits, or is inside with no number served before its own.
LEMMA UsersWaitOrHold ==
  ASSUME TicketInv
  PROVE  /\ Waiters = Users \ Inside /\ Inside \subseteq Users
         /\ \A s, t \in Inside : s = t
         /\ \A t \in Users : Ahead(my[t]) \in 0 .. Cardinality(Users) - 1
         /\ \A s, t \in Users : Ahead(my[s]) = Ahead(my[t]) => s = t
         /\ \A t \in Inside : Ahead(my[t]) = 0
<1>1. TypeOK /\ TicketsInUse
  BY DEF TicketInv
<1>2. Waiters = Users \ Inside /\ Inside \subseteq Users
  BY <1>1 DEF TypeOK, Waiters, Users, Inside, Locations
<1>3. \A s, t \in Inside : s = t
  BY <1>1, <1>2 DEF TicketsInUse
<1>4. Cardinality(Users) \in Nat
  BY UsersCount
<1>5. \A x, y \in Tickets : Ahead(x) \in Nat /\ (Ahead(x) = Ahead(y) => x = y)
  BY <1>1, WrapAssumption DEF TypeOK, Tickets, Ahead
<1>6. \A t \in Users : my[t] \in Tickets
  BY <1>1 DEF TypeOK, Users
<1>7. \A t \in Users : Ahead(my[t]) \in 0 .. Cardinality(Users) - 1
  BY <1>1, <1>4, <1>5, <1>6 DEF TicketsInUse
<1>8. \A s, t \in Users : Ahead(my[s]) = Ahead(my[t]) => s = t
  BY <1>1, <1>5, <1>6 DEF TicketsInUse
<1>9. \A t \in Inside : Ahead(my[t]) = 0
  BY <1>1 DEF TicketsInUse, Ahead, TypeOK, Tickets
<1> QED BY <1>2, <1>3, <1>7, <1>8, <1>9

\* The queue holds the waiters in the order in which they are served.
InOrder ==
  /\ Queue \in Seq(Threads)
  /\ Len(Queue) = Cardinality(Users) - Served
  /\ \A i \in 1 .. Len(Queue) :
       Queue[i] \in Waiters /\ Ahead(my[Queue[i]]) = Served + i - 1

\* A waiter's rank is the count of numbers served before its own, less the thread inside.
LEMMA QueueInOrder == TicketInv => InOrder
<1> SUFFICES ASSUME TicketInv PROVE InOrder
  OBVIOUS
<1> DEFINE n == Cardinality(Users)
           w == Cardinality(Waiters)
           a == [t \in Users |-> Ahead(my[t])]
           Before(t) == {s \in Waiters : Ahead(my[s]) < Ahead(my[t])}
           Below(k) == {s \in Users : a[s] < k}
<1>1. /\ Waiters = Users \ Inside /\ Inside \subseteq Users
      /\ \A s, t \in Inside : s = t
      /\ \A t \in Users : a[t] \in 0 .. n - 1 /\ a[t] = Ahead(my[t])
      /\ \A s, t \in Users : a[s] = a[t] => s = t
      /\ \A t \in Inside : a[t] = 0
  BY UsersWaitOrHold
<1>2. IsFiniteSet(Users) /\ n \in Nat
  BY UsersCount
<1>3. /\ \A k \in 0 .. n - 1 : \E u \in Users : a[u] = k
      /\ \A k \in 0 .. n : Cardinality(Below(k)) = k
  <2>1. a \in [Users -> 0 .. n - 1]
    BY <1>1
  <2>2. \A s, t \in Users : a[s] = a[t] => s = t
    BY <1>1
  <2> HIDE DEF a
  <2> QED BY <1>2, <2>1, <2>2, Ranks
<1> HIDE DEF n, w, a
<1>4. \A t \in Waiters : t \in Users /\ Before(t) = Below(a[t]) \ Inside
  BY <1>1
<1>5. \A k \in 0 .. n : IsFiniteSet(Below(k)) /\ Cardinality(Below(k)) = k
  BY <1>2, <1>3, FS_Subset
<1> HIDE DEF Before, Below
<1>6. Served \in {0, 1} /\ w \in Nat /\ w = n - Served /\ \A t \in Waiters : a[t] \in Served .. n - 1
  <2>1. CASE Inside = {}
    BY <1>1, <1>2, <2>1 DEF Served, w, n
  <2>2. CASE Inside # {}
    <3>1. PICK x \in Users : Inside = {x} /\ a[x] = 0
      BY <1>1, <2>2
    <3>2. Waiters = Users \ {x}
      BY <1>1, <3>1
    <3>3. w = n - 1 /\ Served = 1
      BY <1>2, <2>2, <3>1, <3>2, FS_RemoveElement DEF Served, w, n
    <3>4. n - 1 \in Nat
      BY <1>1, <1>2, <3>1
    <3>5. \A t \in Waiters : a[t] # 0
      BY <1>1, <3>1, <3>2
    <3> QED BY <1>1, <1>2, <1>4, <3>3, <3>4, <3>5
  <2> QED BY <2>1, <2>2
<1>7. \A t \in Waiters : Cardinality(Before(t)) = a[t] - Served
  <2> SUFFICES ASSUME NEW t \in Waiters PROVE Cardinality(Before(t)) = a[t] - Served
    OBVIOUS
  <2>1. a[t] \in 0 .. n - 1 /\ a[t] \in 0 .. n /\ Before(t) = Below(a[t]) \ Inside
    BY <1>1, <1>2, <1>4
  <2>2. CASE Inside = {}
    BY <1>5, <2>1, <2>2 DEF Served
  <2>3. CASE Inside # {}
    <3>1. PICK x \in Users : Inside = {x} /\ a[x] = 0
      BY <1>1, <2>3
    <3>2. Served = 1 /\ 0 < a[t]
      BY <1>2, <1>6, <2>1, <2>3 DEF Served
    <3>3. x \in Below(a[t])
      BY <3>1, <3>2 DEF Below
    <3>4. Before(t) = Below(a[t]) \ {x}
      BY <2>1, <3>1
    <3> QED BY <1>5, <2>1, <3>2, <3>3, <3>4, FS_RemoveElement
  <2> QED BY <2>2, <2>3
<1>8. ASSUME NEW i \in 1 .. w
      PROVE  Queue[i] \in Waiters /\ a[Queue[i]] = Served + i - 1
  <2>1. PICK u \in Users : a[u] = Served + i - 1
    BY <1>2, <1>3, <1>6
  <2>2. u \notin Inside
    <3>1. CASE Inside = {}
      BY <3>1
    <3>2. CASE Inside # {}
      BY <1>1, <2>1, <3>2 DEF Served
    <3> QED BY <3>1, <3>2
  <2>3. u \in Waiters /\ Cardinality(Before(u)) = i - 1
    BY <1>1, <1>2, <1>6, <1>7, <2>1, <2>2
  <2>4. Queue[i] = CHOOSE t \in Waiters : Cardinality(Before(t)) = i - 1
    BY DEF Queue, w, Before
  <2>5. Queue[i] \in Waiters /\ Cardinality(Before(Queue[i])) = i - 1
    BY <2>3, <2>4, Zenon
  <2> QED BY <1>1, <1>2, <1>6, <1>7, <2>5
<1>9. \A t \in Waiters : a[t] = Ahead(my[t])
  BY <1>1
<1>10. Queue \in Seq(Threads) /\ Len(Queue) = w
  <2>1. Queue = [i \in 1 .. w |-> Queue[i]]
    BY DEF Queue, w
  <2>2. Waiters \subseteq Threads
    BY DEF Waiters
  <2> QED BY <1>6, <1>8, <2>1, <2>2
<1> QED BY <1>6, <1>8, <1>9, <1>10 DEF n, InOrder

\* Before the step and after it.
LEMMA OrderKept ==
  ASSUME TicketInv, [Next]_vars
  PROVE  InOrder /\ InOrder' /\ TicketInv'
<1>1. TicketInv'
  BY TicketStep
<1>2. InOrder
  BY QueueInOrder
<1>3. TicketInv' => InOrder'
  BY QueueInOrder, PTL
<1> QED BY <1>1, <1>2, <1>3

\* A new ticket lock has nobody waiting.
LEMMA FairInitMaps == Init => Fair!Init
<1> SUFFICES ASSUME Init PROVE Fair!Init
  OBVIOUS
<1>1. Waiters = {} /\ Inside = {}
  BY DEF Init, Waiters, Inside
<1>2. Queue \in Seq(Threads) /\ Len(Queue) = 0
  BY <1>1, FS_EmptySet DEF Queue
<1>3. Queue = <<>>
  BY <1>2, EmptySeq
<1> QED BY <1>1, <1>3 DEF Fair!Init

\* Who draws a ticket is the last of the queue.
LEMMA DrawAsks ==
  ASSUME TicketInv, NEW t \in Threads, Draw(t)
  PROVE  Fair!Ask(t)
<1> DEFINE n == Cardinality(Users)
           w == Len(Queue)
<1>0. TypeOK /\ TicketsInUse /\ [Next]_vars
  BY DEF TicketInv, Next
<1>1. InOrder /\ InOrder' /\ TicketInv'
  BY <1>0, OrderKept
<1>2. /\ t \notin Users /\ Waiters' = Waiters \cup {t} /\ Inside' = Inside
      /\ Users' = Users \cup {t} /\ serving' = serving
      /\ my'[t] = ticket /\ \A s \in Users : my'[s] = my[s]
  BY <1>0 DEF Draw, TypeOK, Waiters, Users, Inside
<1>3. IsFiniteSet(Users) /\ n \in Nat /\ n < Wrap /\ n' = n + 1
  <2>1. IsFiniteSet(Users) /\ n \in 0 .. Wrap /\ n < Wrap
    BY <1>2, UsersCount
  <2>2. Cardinality(Users \cup {t}) = n + 1
    BY <1>2, <2>1, FS_AddElement
  <2> QED BY <1>2, <2>1, <2>2, WrapAssumption
<1>4. Served' = Served /\ Served \in {0, 1} /\ w' = w + 1 /\ w \in Nat
  BY <1>1, <1>2, <1>3 DEF Served, InOrder
<1>5. Ahead(ticket) = n /\ ticket = Later(serving, n)
  BY <1>0, <1>3, WrapAssumption DEF TypeOK, Tickets, TicketsInUse, Ahead, Later
<1>6. Ahead(my[t])' = n /\ \A s \in Users : Ahead(my[s])' = Ahead(my[s])
  BY <1>2, <1>5 DEF Ahead
<1>7. Waiters \subseteq Users
  BY DEF Waiters, Users
<1>8. \A s \in Users : Ahead(my[s]) \in 0 .. n - 1
  BY UsersWaitOrHold
<1>9. \A r, s \in Users : Ahead(my[r]) = Ahead(my[s]) => r = s
  BY UsersWaitOrHold
<1>10. ASSUME NEW i \in 1 .. w PROVE Queue'[i] = Queue[i]
  <2>1. i \in 1 .. w'
    BY <1>4
  <2>2. Queue'[i] \in Waiters' /\ Ahead(my[Queue[i]])' = Served + i - 1
    BY <1>1, <1>4, <2>1 DEF InOrder
  <2>3. Served + i - 1 < n
    BY <1>1, <1>3, <1>4 DEF InOrder
  <2>4. Queue'[i] # t
    BY <1>3, <1>4, <1>6, <2>2, <2>3
  <2>5. Queue'[i] \in Users /\ Ahead(my[Queue'[i]]) = Served + i - 1
    BY <1>2, <1>6, <1>7, <2>2, <2>4 DEF Ahead
  <2>6. Queue[i] \in Users /\ Ahead(my[Queue[i]]) = Served + i - 1
    BY <1>1, <1>7 DEF InOrder
  <2> QED BY <1>9, <2>5, <2>6
<1>11. Queue'[w + 1] = t
  <2>1. PICK k \in 1 .. w' : k = w + 1
    BY <1>4
  <2>2. Queue'[k] \in Waiters' /\ Ahead(my[Queue[k]])' = n
    BY <1>1, <1>3, <1>4, <2>1 DEF InOrder
  <2>3. ASSUME NEW s \in Users PROVE Ahead(my[s])' # n
    BY <1>3, <1>6, <1>8
  <2> QED BY <1>2, <1>7, <2>1, <2>2, <2>3
<1>12. Queue' = Append(Queue, t)
  <2>1. Queue \in Seq(Threads) /\ Queue' \in Seq(Threads)
    BY <1>1 DEF InOrder
  <2>2. /\ Append(Queue, t) \in Seq(Threads) /\ Len(Append(Queue, t)) = w + 1
        /\ \A i \in 1 .. w : Append(Queue, t)[i] = Queue[i]
        /\ Append(Queue, t)[w + 1] = t
    BY <2>1, AppendProperties
  <2> HIDE DEF w
  <2>3. ASSUME NEW i \in 1 .. w + 1 PROVE Queue'[i] = Append(Queue, t)[i]
    <3>1. CASE i \in 1 .. w
      BY <1>10, <2>2, <3>1
    <3>2. CASE i \notin 1 .. w
      <4>1. i = w + 1
        BY <1>4, <3>2
      <4> QED BY <1>11, <2>2, <4>1
    <3> QED BY <3>1, <3>2
  <2>4. Len(Queue') = w + 1
    BY <1>4 DEF w
  <2> QED BY <2>1, <2>2, <2>3, <2>4, SeqEqual
<1>13. \A i \in DOMAIN Queue : Queue[i] # t
  BY <1>1, <1>2, <1>7 DEF InOrder
<1>14. t \notin Inside
  BY <1>2 DEF Inside, Users
<1> QED BY <1>2, <1>12, <1>13, <1>14 DEF Fair!Ask

\* Who finds its number served is the first of the queue.
LEMMA LockSpinAdmits ==
  ASSUME TicketInv, NEW t \in Threads, LockSpin(t)
  PROVE  Fair!Admit
<1> DEFINE n == Cardinality(Users)
           w == Len(Queue)
<1>0. TypeOK /\ TicketsInUse /\ [Next]_vars
  BY DEF TicketInv, Next
<1>1. InOrder /\ InOrder'
  BY <1>0, OrderKept
<1>2. /\ t \in Waiters /\ Waiters' = Waiters \ {t} /\ Inside' = Inside \cup {t}
      /\ Users' = Users /\ serving' = serving /\ my' = my /\ t \in Users
  BY <1>0 DEF LockSpin, TypeOK, Waiters, Users, Inside
<1>3. /\ \A s \in Users : Ahead(my[s]) \in 0 .. n - 1
      /\ \A r, s \in Users : Ahead(my[r]) = Ahead(my[s]) => r = s
      /\ \A s \in Inside : Ahead(my[s]) = 0
      /\ Waiters = Users \ Inside /\ Inside \subseteq Users
  BY UsersWaitOrHold
<1>4. Ahead(my[t]) = 0 /\ \A s \in Users : Ahead(my[s])' = Ahead(my[s])
  BY <1>0, <1>2 DEF LockSpin, Ahead, TypeOK, Tickets
<1>5. Inside = {}
  BY <1>2, <1>3, <1>4
<1>6. n \in Nat /\ n >= 1 /\ w = n /\ Len(Queue') = w - 1
  <2>1. n \in Nat /\ Served = 0 /\ Served' = 1
    BY <1>2, <1>5, UsersCount DEF Served
  <2>2. n >= 1
    BY <1>2, <1>3, <2>1
  <2> QED BY <1>1, <1>2, <2>1, <2>2 DEF InOrder
<1>7. \A i \in 1 .. w : Queue[i] \in Users /\ Ahead(my[Queue[i]]) = i - 1
  BY <1>1, <1>3, <1>5 DEF InOrder, Served
<1>8. Queue # <<>> /\ Head(Queue) = t
  <2>1. 1 \in 1 .. w
    BY <1>6
  <2>2. Queue[1] = t
    BY <1>2, <1>3, <1>4, <1>7, <2>1
  <2> QED BY <1>1, <1>6, <2>2 DEF InOrder
<1>9. Queue' = Tail(Queue)
  <2>1. Queue \in Seq(Threads) /\ Queue' \in Seq(Threads)
    BY <1>1 DEF InOrder
  <2>2. /\ Tail(Queue) \in Seq(Threads) /\ Len(Tail(Queue)) = w - 1
        /\ \A i \in 1 .. w - 1 : Tail(Queue)[i] = Queue[i + 1]
    BY <1>8, <2>1, HeadTailProperties
  <2>3. ASSUME NEW i \in 1 .. w - 1 PROVE Queue'[i] = Queue[i + 1]
    <3>1. i \in 1 .. Len(Queue')
      BY <1>6
    <3>2. Queue'[i] \in Waiters' /\ Ahead(my[Queue[i]])' = i
      BY <1>1, <1>2, <3>1 DEF InOrder, Served
    <3>3. Queue'[i] \in Users /\ Ahead(my[Queue'[i]]) = i
      BY <1>2, <1>3, <3>2 DEF Ahead
    <3>4. i + 1 \in 1 .. w
      BY <1>6
    <3>5. Queue[i + 1] \in Users /\ Ahead(my[Queue[i + 1]]) = i
      BY <1>7, <3>4
    <3> QED BY <1>3, <3>3, <3>5
  <2> QED BY <1>6, <2>1, <2>2, <2>3, SeqEqual
<1> QED BY <1>2, <1>5, <1>8, <1>9 DEF Fair!Admit

\* Who leaves moves everybody up, and nobody ahead of another.
LEMMA UnlockLeaves ==
  ASSUME TicketInv, NEW t \in Threads, Unlock(t)
  PROVE  Fair!Leave(t)
<1> DEFINE n == Cardinality(Users)
           w == Len(Queue)
<1>0. TypeOK /\ TicketsInUse /\ [Next]_vars
  BY DEF TicketInv, Next
<1>1. InOrder /\ InOrder'
  BY <1>0, OrderKept
<1>2. /\ t \in Inside /\ Waiters' = Waiters /\ Inside' = Inside \ {t}
      /\ Users' = Users \ {t} /\ serving' = After(serving) /\ my' = my /\ t \in Users
  BY <1>0 DEF Unlock, TypeOK, Waiters, Users, Inside
<1>3. /\ \A s \in Users : Ahead(my[s]) \in 0 .. n - 1
      /\ \A r, s \in Users : Ahead(my[r]) = Ahead(my[s]) => r = s
      /\ \A r, s \in Inside : r = s
      /\ Waiters = Users \ Inside
  BY UsersWaitOrHold
<1>4. Inside = {t} /\ Inside' = {}
  BY <1>2, <1>3
<1>5. \A s \in Waiters : Ahead(my[s])' = Ahead(my[s]) - 1
  <2> SUFFICES ASSUME NEW s \in Waiters PROVE Ahead(my[s])' = Ahead(my[s]) - 1
    OBVIOUS
  <2>1. my[s] # serving
    BY <1>0, <1>2, <1>3, <1>4 DEF TicketsInUse
  <2>2. my[s] \in Tickets /\ serving \in Tickets
    BY <1>0, <1>3 DEF TypeOK, Users
  <2> QED BY <1>2, <2>1, <2>2, WrapAssumption DEF Ahead, After, Tickets
<1>6. n \in Nat /\ w \in Nat /\ Len(Queue') = w /\ Served = 1 /\ Served' = 0
  <2>1. IsFiniteSet(Users) /\ n \in Nat /\ Served = 1 /\ Served' = 0
    BY <1>4, UsersCount DEF Served
  <2>2. Cardinality(Users \ {t}) = n - 1
    BY <1>2, <2>1, FS_RemoveElement
  <2> QED BY <1>1, <1>2, <2>1, <2>2 DEF InOrder
<1>7. Queue' = Queue
  <2>1. Queue \in Seq(Threads) /\ Queue' \in Seq(Threads)
    BY <1>1 DEF InOrder
  <2>2. ASSUME NEW i \in 1 .. w PROVE Queue'[i] = Queue[i]
    <3>1. i \in 1 .. Len(Queue')
      BY <1>6
    <3>2. Queue'[i] \in Waiters /\ Ahead(my[Queue[i]])' = i - 1
      BY <1>1, <1>2, <1>6, <3>1 DEF InOrder
    <3>3. Ahead(my[Queue'[i]]) - 1 = i - 1
      BY <1>2, <1>5, <3>2 DEF Ahead
    <3>4. Ahead(my[Queue'[i]]) = i
      BY <1>3, <3>2, <3>3
    <3>5. Queue[i] \in Waiters /\ Ahead(my[Queue[i]]) = i
      BY <1>1, <1>6 DEF InOrder
    <3> QED BY <1>3, <3>2, <3>4, <3>5
  <2> QED BY <1>6, <2>1, <2>2, SeqEqual
<1> QED BY <1>4, <1>7 DEF Fair!Leave

\* Every step of the ticket lock is a step of the fair lock.
LEMMA FairStepMaps ==
  ASSUME TicketInv, [Next]_vars
  PROVE  [Fair!Next]_(Fair!vars)
<1>1. CASE UNCHANGED vars
  BY <1>1 DEF vars, Fair!vars, Queue, Inside, Waiters, Ahead
<1>2. CASE Next
  BY <1>2, DrawAsks, LockSpinAdmits, UnlockLeaves DEF Next, Fair!Next
<1> QED
  BY <1>1, <1>2

(* ticket_lock_t admits threads one at a time and in the order in which    *)
(* they drew their tickets, for any number of threads and any wrap.        *)
THEOREM TicketLockIsFair == Spec => ImplementsFairLock
<1>1. TicketInv /\ [Next]_vars => [Fair!Next]_(Fair!vars)
  BY FairStepMaps
<1> QED
  BY TicketInit, TicketStep, FairInitMaps, <1>1, PTL DEF Spec, ImplementsFairLock, Fair!Spec

-----------------------------------------------------------------------------

(* Both locks keep their promises side by side, as the run checks them.    *)
THEOREM LocksCorrect ==
  LocksSpec => [](OneHolder /\ TicketsInUse) /\ SpinImplementsLock /\ ImplementsFairLock
<1>1. LocksInit => Init /\ Spin!Init
  BY DEF LocksInit
<1>2. [LocksNext]_<<vars, spinlock>> => [Next]_vars /\ [Spin!Next]_(Spin!vars)
  BY DEF LocksNext, spinlock, Spin!vars, vars
<1>3. LocksSpec => Spec /\ Spin!Spec
  BY <1>1, <1>2, PTL DEF LocksSpec, Spec, Spin!Spec
<1> QED
  BY <1>3, SpinLockCorrect, SpinLockImplementsLock, TicketLockCorrect, TicketLockIsFair, PTL

=============================================================================
