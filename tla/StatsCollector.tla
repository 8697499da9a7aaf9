--------------------------- MODULE StatsCollector ---------------------------
(***************************************************************************)
(* debug/stats_collector.c: the statistics threads record without a lock.  *)
(* Single counters are atomic, a histogram's are not; a reset holds        *)
(* global_lock and a new entry of the history holds the history's lock,    *)
(* which the recording threads take neither of, nor each the other's.      *)
(*                                                                         *)
(* Every allocation has size 1 and the same class, so bytes are counts.    *)
(* The counters of the arenas follow those of the class, and the sums,     *)
(* minima and buckets of a histogram its samples; both are left out.       *)
(***************************************************************************)

EXTENDS Integers, Sequences

CONSTANTS
  Threads,
  Capacity,   \* STATS_MAX_HISTORY_ENTRIES
  MaxAllocs,  \* bounds of the model: the allocations and the resets
  MaxResets,
  NULL

\* What the constants must satisfy.
ConstantsOK ==
  NULL \notin Threads /\ Capacity \in Nat \ {0} /\ MaxAllocs \in Nat /\ MaxResets \in Nat

VARIABLES
  initialized, enabled,
  fault,
  allocated, freed,   \* total_allocated_bytes, total_freed_bytes
  samples,            \* total_samples of the histogram of the allocations
  bucket_size_set,    \* its bucket_size and max_buckets are not 0
  class,              \* the counters of the class: [allocations, deallocations, peak]
  entries, count,     \* the history; the entries written so far
  capacity,           \* 0 until the first initialization
  history_lock, global_lock,
  pc, seen,           \* what a thread has loaded, until it has used it
  held,               \* the blocks a thread has recorded and not freed
  resets, calls       \* history: how often the collector was reset, allocations there were

locks == <<history_lock, global_lock>>
life == <<initialized, enabled, fault>>
totals == <<allocated, freed>>
histogram == <<samples, bucket_size_set>>
history == <<entries, count, capacity>>
client == <<held, resets, calls>>
vars == <<life, totals, histogram, class, history, locks, pc, seen, client>>

NoCounts == [allocations |-> 0, deallocations |-> 0, peak |-> 0]
Entry == [allocated : Nat, freed : Nat]
NoEntry == [allocated |-> 0, freed |-> 0]

Init ==
  /\ initialized = FALSE /\ enabled = FALSE /\ fault = FALSE
  /\ allocated = 0 /\ freed = 0 /\ samples = 0 /\ bucket_size_set = FALSE
  /\ class = NoCounts
  /\ entries = [i \in 1 .. Capacity |-> NoEntry] /\ count = 0 /\ capacity = 0
  /\ history_lock = NULL /\ global_lock = NULL
  /\ pc = [t \in Threads |-> "idle"] /\ seen = [t \in Threads |-> 0]
  /\ held = [t \in Threads |-> 0] /\ resets = 0 /\ calls = 0

At(t, step) == ~fault /\ pc[t] = step
Goto(t, step) == pc' = [pc EXCEPT ![t] = step]
See(t, value) == seen' = [seen EXCEPT ![t] = value]

-----------------------------------------------------------------------------
(* The collector is started while no other call runs; it may be switched   *)
(* and shut down at any time.                                              *)

stats_collector_init ==
  /\ ~fault /\ ~initialized /\ \A t \in Threads : pc[t] = "idle"
  /\ initialized' = TRUE /\ enabled' = TRUE
  /\ allocated' = 0 /\ freed' = 0 /\ samples' = 0 /\ bucket_size_set' = TRUE
  /\ class' = NoCounts
  /\ entries' = [i \in 1 .. Capacity |-> NoEntry] /\ count' = 0 /\ capacity' = Capacity
  /\ history_lock' = NULL /\ global_lock' = NULL
  /\ UNCHANGED <<fault, pc, seen, client>>

Switch(to) ==
  /\ ~fault /\ initialized /\ enabled' = to
  /\ UNCHANGED <<initialized, fault, totals, histogram, class, history, locks, pc, seen, client>>

stats_collector_enable == Switch(TRUE)
stats_collector_disable == Switch(FALSE)

stats_collector_shutdown ==
  /\ ~fault /\ initialized /\ global_lock = NULL
  /\ initialized' = FALSE /\ enabled' = FALSE
  /\ UNCHANGED <<fault, totals, histogram, class, history, locks, pc, seen, client>>

-----------------------------------------------------------------------------
(* stats_collector_record_alloc, step by step.                             *)

\* The client's allocation is done whether or not it is recorded.
RecordAlloc(t) ==
  /\ At(t, "idle") /\ calls < MaxAllocs
  /\ calls' = calls + 1 /\ held' = [held EXCEPT ![t] = @ + 1]
  /\ IF enabled THEN Goto(t, "total") ELSE UNCHANGED pc
  /\ UNCHANGED <<life, totals, histogram, class, history, locks, seen, resets>>

Total(t) ==
  /\ At(t, "total")
  /\ allocated' = allocated + 1
  /\ Goto(t, "samples")
  /\ UNCHANGED <<life, freed, histogram, class, history, locks, seen, client>>

\* latency_histogram_add divides by bucket_size, and its counters are loaded and
\* stored.
LoadSamples(t) ==
  /\ At(t, "samples")
  /\ IF bucket_size_set
     THEN See(t, samples) /\ Goto(t, "add") /\ UNCHANGED fault
     ELSE fault' = TRUE /\ UNCHANGED <<seen, pc>>
  /\ UNCHANGED <<initialized, enabled, totals, histogram, class, history, locks, client>>

latency_histogram_add(t) ==
  /\ At(t, "add")
  /\ samples' = seen[t] + 1
  /\ Goto(t, "class") /\ See(t, 0)
  /\ UNCHANGED <<life, totals, bucket_size_set, class, history, locks, client>>

CountClass(t) ==
  /\ At(t, "class")
  /\ class' = [class EXCEPT !.allocations = @ + 1]
  /\ Goto(t, "first")
  /\ UNCHANGED <<life, totals, histogram, history, locks, seen, client>>

\* The two operands are loaded in either order; seen is the difference so far.
LoadFirst(t) ==
  /\ At(t, "first")
  /\ \/ See(t, class.allocations) /\ Goto(t, "minus")
     \/ See(t, -class.deallocations) /\ Goto(t, "plus")
  /\ UNCHANGED <<life, totals, histogram, class, history, locks, client>>

LoadSecond(t) ==
  /\ \/ At(t, "minus") /\ See(t, seen[t] - class.deallocations)
     \/ At(t, "plus") /\ See(t, seen[t] + class.allocations)
  /\ Goto(t, "peak")
  /\ UNCHANGED <<life, totals, histogram, class, history, locks, client>>

\* As unsigned numbers, a negative one is above every peak.
Above(n, peak) == n < 0 \/ n > peak

LoadPeak(t) ==
  /\ At(t, "peak")
  /\ IF Above(seen[t], class.peak) THEN Goto(t, "store") /\ UNCHANGED seen
                                  ELSE Goto(t, "idle") /\ See(t, 0)
  /\ UNCHANGED <<life, totals, histogram, class, history, locks, client>>

\* The peak is tested and stored apart: a higher one stored meanwhile is lost.
StorePeak(t) ==
  /\ At(t, "store")
  /\ class' = [class EXCEPT !.peak = seen[t]]
  /\ Goto(t, "idle") /\ See(t, 0)
  /\ UNCHANGED <<life, totals, histogram, history, locks, client>>

-----------------------------------------------------------------------------
(* stats_collector_record_dealloc; its histograms are like the other.      *)

RecordDealloc(t) ==
  /\ At(t, "idle") /\ held[t] > 0
  /\ held' = [held EXCEPT ![t] = @ - 1]
  /\ IF enabled THEN Goto(t, "freed") ELSE UNCHANGED pc
  /\ UNCHANGED <<life, totals, histogram, class, history, locks, seen, resets, calls>>

TotalFreed(t) ==
  /\ At(t, "freed")
  /\ freed' = freed + 1
  /\ Goto(t, "class_freed")
  /\ UNCHANGED <<life, allocated, histogram, class, history, locks, seen, client>>

CountFreed(t) ==
  /\ At(t, "class_freed")
  /\ class' = [class EXCEPT !.deallocations = @ + 1]
  /\ Goto(t, "idle")
  /\ UNCHANGED <<life, totals, histogram, history, locks, seen, client>>

-----------------------------------------------------------------------------
(* stats_collector_update_history.  Its lock keeps out other updates; a    *)
(* reset stores 0 in count all the same.                                   *)

\* A mistake: no lock is taken.
LockNothing(t) ==
  /\ At(t, "idle") /\ Goto(t, "check")
  /\ UNCHANGED <<life, totals, histogram, class, history, locks, seen, client>>

LockHistory(t) ==
  /\ At(t, "idle") /\ history_lock = NULL
  /\ history_lock' = t /\ Goto(t, "check")
  /\ UNCHANGED <<life, totals, histogram, class, history, global_lock, seen, client>>

\* A mistake: the test is off by one.
CheckPast(t) ==
  /\ At(t, "check")
  /\ fault' = (count > capacity /\ capacity = 0)
  /\ Goto(t, IF count > capacity THEN "shift" ELSE "load_count")
  /\ UNCHANGED <<initialized, enabled, totals, histogram, class, history, locks, seen, client>>

\* Without a capacity the entries are shifted to capacity - 1, the largest number.
CheckFull(t) ==
  /\ At(t, "check")
  /\ fault' = (count >= capacity /\ capacity = 0)
  /\ Goto(t, IF count >= capacity THEN "shift" ELSE "load_count")
  /\ UNCHANGED <<initialized, enabled, totals, histogram, class, history, locks, seen, client>>

Shift(t) ==
  /\ At(t, "shift")
  /\ entries' = [i \in DOMAIN entries |-> entries[IF i < Capacity THEN i + 1 ELSE i]]
  /\ count' = capacity - 1
  /\ Goto(t, "load_count")
  /\ UNCHANGED <<life, totals, histogram, class, capacity, locks, seen, client>>

LoadCount(t) ==
  /\ At(t, "load_count")
  /\ See(t, count) /\ Goto(t, "store_count")
  /\ UNCHANGED <<life, totals, histogram, class, history, locks, client>>

StoreCount(t) ==
  /\ At(t, "store_count")
  /\ count' = seen[t] + 1 /\ Goto(t, "entry_allocated")
  /\ UNCHANGED <<life, totals, histogram, class, entries, capacity, locks, seen, client>>

\* A write past the array is a fault.
Write(t, entry) ==
  IF seen[t] < Capacity
  THEN entries' = [entries EXCEPT ![seen[t] + 1] = entry] /\ UNCHANGED fault
  ELSE fault' = TRUE /\ UNCHANGED entries

EntryAllocated(t) ==
  /\ At(t, "entry_allocated")
  /\ Write(t, [allocated |-> allocated, freed |-> entries[seen[t] + 1].freed])
  /\ Goto(t, "entry_freed")
  /\ UNCHANGED <<initialized, enabled, totals, histogram, class, count, capacity, locks, seen, client>>

\* The last of the update, with the unlock.
EntryFreed(t) ==
  /\ At(t, "entry_freed")
  /\ Write(t, [allocated |-> entries[seen[t] + 1].allocated, freed |-> freed])
  /\ history_lock' = NULL /\ Goto(t, "idle") /\ See(t, 0)
  /\ UNCHANGED <<initialized, enabled, totals, histogram, class, count, capacity, global_lock, client>>

-----------------------------------------------------------------------------
(* stats_collector_reset, under global_lock.                               *)

ResetLock(t) ==
  /\ At(t, "idle") /\ global_lock = NULL /\ resets < MaxResets
  /\ global_lock' = t /\ resets' = resets + 1 /\ Goto(t, "zero_allocated")
  /\ UNCHANGED <<life, totals, histogram, class, history, history_lock, seen, held, calls>>

ResetStep(t, from, to) ==
  /\ At(t, from) /\ Goto(t, to)
  /\ UNCHANGED <<life, entries, capacity, history_lock, seen, client>>

ResetTotals(t) ==
  /\ \/ /\ ResetStep(t, "zero_allocated", "zero_freed")
        /\ allocated' = 0 /\ UNCHANGED freed
     \/ /\ ResetStep(t, "zero_freed", "zero_histogram")
        /\ freed' = 0 /\ UNCHANGED allocated
  /\ UNCHANGED <<histogram, class, count, global_lock>>

\* latency_histogram_init sets everything to 0, then the two sizes.
latency_histogram_init(t) ==
  /\ \/ /\ ResetStep(t, "zero_histogram", "size_histogram")
        /\ samples' = 0 /\ bucket_size_set' = FALSE
     \/ /\ ResetStep(t, "size_histogram", "zero_allocations")
        /\ bucket_size_set' = TRUE /\ UNCHANGED samples
  /\ UNCHANGED <<totals, class, count, global_lock>>

size_class_stats_init(t) ==
  /\ \/ /\ ResetStep(t, "zero_allocations", "zero_deallocations")
        /\ class' = [class EXCEPT !.allocations = 0]
     \/ /\ ResetStep(t, "zero_deallocations", "zero_peak")
        /\ class' = [class EXCEPT !.deallocations = 0]
     \/ /\ ResetStep(t, "zero_peak", "zero_count")
        /\ class' = [class EXCEPT !.peak = 0]
  /\ UNCHANGED <<totals, histogram, count, global_lock>>

ResetCount(t) ==
  /\ ResetStep(t, "zero_count", "idle")
  /\ count' = 0 /\ global_lock' = NULL
  /\ UNCHANGED <<totals, histogram, class>>

-----------------------------------------------------------------------------

stats_collector_record_alloc(t) ==
  \/ RecordAlloc(t) \/ Total(t) \/ LoadSamples(t) \/ latency_histogram_add(t)
  \/ CountClass(t) \/ LoadFirst(t) \/ LoadSecond(t) \/ LoadPeak(t) \/ StorePeak(t)

stats_collector_record_dealloc(t) == RecordDealloc(t) \/ TotalFreed(t) \/ CountFreed(t)

stats_collector_update_history(t) ==
  \/ LockHistory(t) \/ CheckFull(t) \/ Shift(t) \/ LoadCount(t) \/ StoreCount(t)
  \/ EntryAllocated(t) \/ EntryFreed(t)

stats_collector_reset(t) ==
  \/ ResetLock(t) \/ ResetTotals(t) \/ latency_histogram_init(t)
  \/ size_class_stats_init(t) \/ ResetCount(t)

Next ==
  \/ stats_collector_init \/ stats_collector_enable \/ stats_collector_disable
  \/ stats_collector_shutdown
  \/ \E t \in Threads :
       \/ stats_collector_record_alloc(t) \/ stats_collector_record_dealloc(t)
       \/ stats_collector_update_history(t) \/ stats_collector_reset(t)

Spec == Init /\ [][Next]_vars

-----------------------------------------------------------------------------

\* The type invariant.
TypeOK ==
  /\ {initialized, enabled, fault, bucket_size_set} \subseteq BOOLEAN
  /\ {allocated, freed, samples, count, resets, calls} \subseteq Nat
  /\ class \in [allocations : Nat, deallocations : Nat, peak : Int]
  /\ entries \in [1 .. Capacity -> Entry] /\ capacity \in {0, Capacity}
  /\ {history_lock, global_lock} \subseteq Threads \union {NULL}
  /\ seen \in [Threads -> Int] /\ held \in [Threads -> Nat]

\* The history keeps within its array although a reset, which does not take the
\* lock of the history, sets count to 0 between the test, the two stores of count
\* and the write of stats_collector_update_history.
HistoryBounded ==
  /\ count <= Capacity
  /\ \A t \in Threads : pc[t] \in {"entry_allocated", "entry_freed"} => seen[t] < Capacity

\* Until a reset, the complete entries of the history have the order in which the
\* totals were read, the oldest having been dropped: what they show never falls.
HistoryInOrder ==
  (resets = 0 /\ history_lock = NULL) =>
    \A i, j \in 1 .. count : i <= j =>
      /\ entries[i].allocated <= entries[j].allocated
      /\ entries[i].freed <= entries[j].freed
=============================================================================
