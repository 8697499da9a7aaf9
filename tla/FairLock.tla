------------------------------ MODULE FairLock ------------------------------
(***************************************************************************)
(* A lock that admits threads one at a time, in the order in which they    *)
(* asked.  TicketLock is shown to implement it.                            *)
(***************************************************************************)

EXTENDS Sequences

CONSTANT Threads

VARIABLES
  queue,   \* the threads that wait, in the order in which they asked
  inside   \* the thread that was admitted

vars == <<queue, inside>>

Init ==
  /\ queue = <<>>
  /\ inside = {}

Ask(t) ==
  /\ \A i \in DOMAIN queue : queue[i] # t
  /\ t \notin inside
  /\ queue' = Append(queue, t)
  /\ UNCHANGED inside

Admit ==
  /\ queue # <<>>
  /\ inside = {}
  /\ inside' = {Head(queue)}
  /\ queue' = Tail(queue)

Leave(t) ==
  /\ inside = {t}
  /\ inside' = {}
  /\ UNCHANGED queue

Next == Admit \/ \E t \in Threads : Ask(t) \/ Leave(t)

Spec == Init /\ [][Next]_vars
=============================================================================
