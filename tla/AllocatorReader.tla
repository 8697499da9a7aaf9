-------------------------- MODULE AllocatorReader --------------------------
(***************************************************************************)
(* Allocator and one more client, which reads the active bytes with        *)
(* allocator_get_active_allocations while the others allocate and free.    *)
(* The function loads the two totals one after the other, in the order the *)
(* compiler chose, and takes no lock: what other threads add in between is *)
(* in one of the two and not in the other.                                 *)
(***************************************************************************)
EXTENDS Allocator

VARIABLE
  reader   \* at: the total it has loaded; value: what it works with; due: what
           \* the blocks, not the totals, say that it should return

\* The block's size has been added to total_allocated and not yet to
\* total_freed: what the threads in the middle of malloc, realloc and free
\* have still to count is left out, or in.
Counted(b) ==
  /\ heap[b].live /\ heap[b].hdr # NoHeader
  /\ ~\E t \in Threads : \E p \in InCall(t) :
        /\ p.blk = b
        /\ \/ p = call[t].res /\ pc[t] \in {"malloc_count", "realloc_freed", "realloc_allocated"}
           \/ p = call[t].ptr /\ pc[t] \in {"realloc_allocated", "free_block"}

\* The bytes each block holds for the program.
Bytes == [b \in Blocks |-> IF Counted(b) THEN heap[b].hdr.req ELSE 0]
AllBytes == SumFunctionOnSet(Bytes, Blocks)

\* What a step gives up of them, and what it adds.
Above(m, n) == IF m > n THEN m - n ELSE 0
GivenUp == SumFunctionOnSet([b \in Blocks |-> Above(Bytes[b], Bytes'[b])], Blocks)
Added   == SumFunctionOnSet([b \in Blocks |-> Above(Bytes'[b], Bytes[b])], Blocks)

-----------------------------------------------------------------------------
NoReader == [at |-> "none", value |-> 0, due |-> 0]
Between  == reader.at \in {"allocated", "freed"}

ReaderInit == Init /\ reader = NoReader

\* Orderly clients call it while the allocator is up.
LoadFirst ==
  /\ reader.at = "none" /\ Ready /\ pc[Main] \notin LifecycleSteps
  /\ \E first \in {"allocated", "freed"} :
       reader' = [at    |-> first,
                  value |-> IF first = "allocated" THEN total_allocated ELSE total_freed,
                  due   |-> AllBytes % CounterWord]
  /\ UNCHANGED vars

Difference == IF reader.at = "allocated" THEN reader.value - total_freed
                                         ELSE total_allocated - reader.value
LoadSecond ==
  /\ Between
  /\ reader' = [reader EXCEPT !.at = "read", !.value = Difference % CounterWord]
  /\ UNCHANGED vars

HandBack == reader.at = "read" /\ reader' = NoReader /\ UNCHANGED vars

\* The other clients, who neither start nor stop the allocator meanwhile.
Others ==
  /\ Next
  /\ Between => pc'[Main] \notin LifecycleSteps
  /\ reader' = CASE reader.at = "allocated" -> [reader EXCEPT !.due = (@ - GivenUp) % CounterWord]
                 [] reader.at = "freed"     -> [reader EXCEPT !.due = (@ + Added) % CounterWord]
                 [] OTHER                   -> reader

ReaderNext == LoadFirst \/ LoadSecond \/ HandBack \/ Others

ReaderSpec == ReaderInit /\ [][ReaderNext]_<<vars, reader>>

-----------------------------------------------------------------------------
\* What allocator_get_active_allocations returns is what the program held at its
\* first load, without what it gave up (or, when total_freed was loaded first, and
\* what it was given) until the second: each thread's additions to the two totals
\* match its blocks at every step, and when nobody allocates or frees the answer
\* is right.
ReportedIsHeld == reader.at = "read" => reader.value = reader.due

=============================================================================
