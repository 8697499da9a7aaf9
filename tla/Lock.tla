-------------------------------- MODULE Lock --------------------------------
(***************************************************************************)
(* What every structure of nomalloc expects of the lock in front of it: a  *)
(* thread asks for the lock, is admitted when nobody else is inside, and   *)
(* leaves.  Nothing is promised about who is admitted next.  SpinLock and  *)
(* TicketLock are shown to implement this specification.                   *)
(***************************************************************************)

CONSTANT Threads

VARIABLES
  waiting,  \* the threads that asked for the lock
  inside    \* the threads that were admitted

vars == <<waiting, inside>>

Init ==
  /\ waiting = {}
  /\ inside = {}

Ask(t) ==
  /\ t \notin waiting \union inside
  /\ waiting' = waiting \union {t}
  /\ UNCHANGED inside

Admit(t) ==
  /\ t \in waiting
  /\ inside = {}
  /\ waiting' = waiting \ {t}
  /\ inside' = {t}

\* An attempt that was not granted.
GiveUp(t) ==
  /\ t \in waiting
  /\ waiting' = waiting \ {t}
  /\ UNCHANGED inside

Leave(t) ==
  /\ t \in inside
  /\ inside' = inside \ {t}
  /\ UNCHANGED waiting

Next == \E t \in Threads : Ask(t) \/ Admit(t) \/ GiveUp(t) \/ Leave(t)

Spec == Init /\ [][Next]_vars
=============================================================================
