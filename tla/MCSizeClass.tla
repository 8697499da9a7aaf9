---------------------------- MODULE MCSizeClass -----------------------------
(***************************************************************************)
(* One request after the other, and the examples that the comment above    *)
(* the table of the small classes gives (size_class.h:169-173).            *)
(***************************************************************************)

EXTENDS SizeClass, TLC

VARIABLES request, class

Init == page_size \in PageSizes /\ request = 0 /\ class = 0

Serve ==
  /\ request' \in Requests
  /\ class' = size_to_class(request')
  /\ UNCHANGED page_size

Spec == Init /\ [][Serve]_<<page_size, request, class>>

\* What is asked for, and the class and the size that the comment says are given.
Documented ==
  10 :> [class |-> 1, size |-> 16] @@ 50 :> [class |-> 4, size |-> 64] @@
  100 :> [class |-> 8, size |-> 128] @@ 500 :> [class |-> 16, size |-> 512]

\* The examples of the comment are what size_to_class and class_to_size do.
ExamplesHold ==
  request \in DOMAIN Documented =>
    [class |-> class, size |-> class_to_size(class)] = Documented[request]
=============================================================================
