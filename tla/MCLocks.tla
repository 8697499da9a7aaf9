------------------------------ MODULE MCLocks ------------------------------
(***************************************************************************)
(* A ticket lock and a spinlock side by side.  Each has its own threads,   *)
(* the spinlock one more than the ticket lock has tickets.                 *)
(***************************************************************************)

EXTENDS TicketLock

CONSTANT Spinners  \* the threads of the spinlock

VARIABLES word, spinning  \* the spinlock and where its threads are

Spin == INSTANCE SpinLock WITH Threads <- Spinners, lock <- word, pc <- spinning

spinlock == <<word, spinning>>

LocksInit == Init /\ Spin!Init

LocksNext ==
  \/ Next /\ UNCHANGED spinlock
  \/ Spin!Next /\ UNCHANGED vars

LocksSpec ==
  /\ LocksInit /\ [][LocksNext]_<<vars, spinlock>>
  /\ \A t \in Threads : WF_vars(LockSpin(t) \/ Unlock(t))
  /\ \A t \in Spinners : WF_spinlock(Spin!Step(t))

-----------------------------------------------------------------------------
(* The properties of the spinlock, as SpinLock has them.                   *)

\* spinlock_lock and spinlock_trylock admit one thread, and the word says so.
OneHolder == Spin!OneHolder

\* The spinlock implements the abstract lock.
SpinImplementsLock == Spin!ImplementsLock

\* Threads that wait for the spinlock do not wait in vain, all of them.
SomebodyEnters == Spin!SomebodyEnters
=============================================================================
