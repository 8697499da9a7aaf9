---------------------------- MODULE LeakDetector ----------------------------
(***************************************************************************)
(* debug/leak_detector.c: the records of the allocations that were made    *)
(* while tracking was on and were not given back.                          *)
(*                                                                         *)
(* What the code does between spinlock_lock and spinlock_unlock is one     *)
(* step (SpinLock justifies that); what it reads before the lock is a step *)
(* of its own.  A bucket of the hash table holds the records of the list   *)
(* that fall into it, so it is left out: a search for a pointer meets its  *)
(* record, or the end of the bucket.                                       *)
(***************************************************************************)

EXTENDS Integers, Sequences, FiniteSets, Functions

CONSTANTS
  Threads,
  Main,         \* the thread that starts, stops and shuts down the detector
  Pointers,     \* the addresses the clients allocate
  Sizes,        \* the sizes of allocations
  MaxRecords,   \* LEAK_DETECTOR_MAX_ALLOCATIONS
  ReportSize,   \* LEAK_DETECTOR_REPORT_SIZE
  CounterWord,  \* 2^64: where the totals wrap
  Allowed       \* what may happen besides: a subset of Events

(* "disable"   tracking is stopped at any time;                            *)
(* "clear"     leak_detector_clear is called while the detector is enabled; *)
(* "shutdown"  the detector is shut down while calls are in progress;      *)
(* "early"     clients allocate whether or not tracking is on;             *)
(* "fail"      malloc fails for a new record.                              *)
Events == {"disable", "clear", "shutdown", "early", "fail"}

ASSUME LeakAssumption ==
  /\ Main \in Threads
  /\ Sizes \subseteq Nat \ {0}
  /\ MaxRecords \in Nat
  /\ ReportSize \in Nat
  /\ CounterWord \in Nat \ {0}
  /\ Allowed \subseteq Events

VARIABLES
  enabled, tracking, tracking_active,
  allocation_list,     \* the records in use: a pointer and a size each
  free_list,           \* how many records wait to be used again
  num_records,
  totals, leaked, peak,  \* the counters of struct leak_detector_stats
  held,                \* the pointers the clients have not given back
  complete,            \* history: what is held was recorded, or is about to be
  pc, arg,             \* where each thread is, with the record of its call
  fault                \* a search ran over the end of its bucket

flags == <<enabled, tracking, tracking_active>>
stats == <<totals, leaked, peak>>
records == <<allocation_list, free_list, num_records>>
clients == <<held, complete>>
vars == <<flags, records, stats, clients, pc, arg, fault>>

Record == [ptr : Pointers, size : Sizes]
NoRecord == [ptr |-> "none", size |-> 0]

ClearStats ==
  /\ totals' = [allocations |-> 0, deallocations |-> 0]
  /\ leaked' = [objects |-> 0, bytes |-> 0]
  /\ peak' = [allocations |-> 0, bytes |-> 0]

\* g_leak_detector before its first use.
Init ==
  /\ enabled = FALSE /\ tracking = FALSE /\ tracking_active = FALSE
  /\ allocation_list = <<>> /\ free_list = 0 /\ num_records = 0
  /\ totals = [allocations |-> 0, deallocations |-> 0]
  /\ leaked = [objects |-> 0, bytes |-> 0]
  /\ peak = [allocations |-> 0, bytes |-> 0]
  /\ held = {}
  /\ complete = TRUE
  /\ pc = [t \in Threads |-> "idle"]
  /\ arg = [t \in Threads |-> NoRecord]
  /\ fault = FALSE

Running(t, l) == ~fault /\ pc[t] = l
Goto(t, l) == pc' = [pc EXCEPT ![t] = l]

\* The end of a call: the pointer it was about is held, or given back.
Return(t) ==
  /\ Goto(t, "idle")
  /\ arg' = [arg EXCEPT ![t] = NoRecord]

Locked == {"alloc_lock", "dealloc_lock"}
Locations == Locked \union {"idle", "enable_active", "disable_active", "alloc", "dealloc"}

-----------------------------------------------------------------------------
(* Starting and stopping.                                                  *)

(* leak_detector_init: everything is reset before enabled is set.  Nobody  *)
(* may be about to use the lists meanwhile.                                *)
InitDetector ==
  /\ enabled' = TRUE /\ tracking' = FALSE /\ tracking_active' = FALSE
  /\ allocation_list' = <<>> /\ free_list' = 0 /\ num_records' = 0
  /\ ClearStats
  /\ complete' = (held = {})
  /\ UNCHANGED <<held, pc, arg, fault>>

EnableInit ==
  /\ Running(Main, "idle")
  /\ ~enabled
  /\ \A t \in Threads : pc[t] \notin Locked
  /\ InitDetector

EnableTracking ==
  /\ Running(Main, "idle")
  /\ enabled
  /\ tracking' = TRUE
  /\ Goto(Main, "enable_active")
  /\ UNCHANGED <<enabled, tracking_active, records, stats, clients, arg, fault>>

EnableActive ==
  /\ Running(Main, "enable_active")
  /\ tracking_active' = TRUE
  /\ Return(Main)
  /\ UNCHANGED <<enabled, tracking, records, stats, clients, fault>>

DisableTracking ==
  /\ Running(Main, "idle")
  /\ "disable" \in Allowed
  /\ enabled
  /\ tracking' = FALSE
  /\ Goto(Main, "disable_active")
  /\ UNCHANGED <<enabled, tracking_active, records, stats, clients, arg, fault>>

DisableActive ==
  /\ Running(Main, "disable_active")
  /\ tracking_active' = FALSE
  /\ Return(Main)
  /\ UNCHANGED <<enabled, tracking, records, stats, clients, fault>>

Shutdown ==
  /\ Running(Main, "idle")
  /\ enabled
  /\ "shutdown" \in Allowed \/ held = {}
  /\ enabled' = FALSE /\ tracking' = FALSE
  /\ allocation_list' = <<>> /\ free_list' = 0 /\ num_records' = 0
  /\ complete' = (complete /\ held = {})
  /\ UNCHANGED <<tracking_active, stats, held, pc, arg, fault>>

-----------------------------------------------------------------------------
(* Recording.                                                              *)

CallAlloc(t) ==
  /\ Running(t, "idle")
  /\ "early" \in Allowed \/ (enabled /\ tracking)
  /\ \E p \in Pointers \ held, s \in Sizes :
       /\ held' = held \union {p}
       /\ arg' = [arg EXCEPT ![t] = [ptr |-> p, size |-> s]]
  /\ Goto(t, "alloc")
  /\ UNCHANGED <<flags, records, stats, complete, fault>>

\* enabled and tracking are read without the lock.
AllocCheck(t) ==
  /\ Running(t, "alloc")
  /\ IF enabled /\ tracking
     THEN Goto(t, "alloc_lock") /\ UNCHANGED <<arg, complete>>
     ELSE Return(t) /\ complete' = FALSE
  /\ UNCHANGED <<flags, records, stats, held, fault>>

\* n records, the last of them of this size.
RaisePeak(n, size) ==
  peak' = IF n > peak.allocations
          THEN [allocations |-> n, bytes |-> peak.bytes + size]
          ELSE peak

\* A mistake: the limit is tested one record too late.
TakeRecordLate ==
  \/ free_list > 0 /\ free_list' = free_list - 1
  \/ free_list = 0 /\ num_records <= MaxRecords /\ UNCHANGED free_list

\* A record is used again, or a new one is made below the limit.
TakeRecord ==
  \/ free_list > 0 /\ free_list' = free_list - 1
  \/ free_list = 0 /\ num_records < MaxRecords /\ UNCHANGED free_list

AllocRecord(t) ==
  /\ Running(t, "alloc_lock")
  /\ TakeRecord
  /\ allocation_list' = Append(allocation_list, arg[t])
  /\ num_records' = num_records + 1
  /\ totals' = [totals EXCEPT !.allocations = (@ + 1) % CounterWord]
  /\ RaisePeak(num_records + 1, arg[t].size)
  /\ Return(t)
  /\ UNCHANGED <<flags, leaked, clients, fault>>

\* The limit is reached, or malloc fails for the record.
AllocDropped(t) ==
  /\ Running(t, "alloc_lock")
  /\ free_list = 0
  /\ num_records >= MaxRecords \/ "fail" \in Allowed
  /\ complete' = FALSE
  /\ Return(t)
  /\ UNCHANGED <<flags, records, stats, held, fault>>

CallDealloc(t) ==
  /\ Running(t, "idle")
  /\ \E p \in held :
       /\ \A u \in Threads : arg[u].ptr # p
       /\ arg' = [arg EXCEPT ![t] = [NoRecord EXCEPT !.ptr = p]]
  /\ Goto(t, "dealloc")
  /\ UNCHANGED <<flags, records, stats, clients, fault>>

DeallocCheck(t) ==
  /\ Running(t, "dealloc")
  /\ IF enabled /\ tracking
     THEN Goto(t, "dealloc_lock") /\ UNCHANGED <<arg, clients>>
     ELSE Return(t) /\ held' = held \ {arg[t].ptr} /\ complete' = FALSE
  /\ UNCHANGED <<flags, records, stats, fault>>

\* The places of the records of p, and of the newest, which is first in its bucket.
Places(p) == {i \in 1 .. Len(allocation_list) : allocation_list[i].ptr = p}
Newest(p) == {i \in Places(p) : \A j \in Places(p) : j <= i}

Without(i) == SubSeq(allocation_list, 1, i - 1) \o SubSeq(allocation_list, i + 1, Len(allocation_list))

\* Mistakes: the record stays in the list; the first record goes.
DeallocRecordListed(t) ==
  /\ Running(t, "dealloc_lock")
  /\ Places(arg[t].ptr) # {}
  /\ UNCHANGED allocation_list
  /\ free_list' = free_list + 1
  /\ num_records' = num_records - 1
  /\ totals' = [totals EXCEPT !.deallocations = (@ + 1) % CounterWord]
  /\ held' = held \ {arg[t].ptr}
  /\ Return(t)
  /\ UNCHANGED <<flags, leaked, peak, complete, fault>>
DeallocRecordFirst(t) ==
  /\ Running(t, "dealloc_lock")
  /\ Places(arg[t].ptr) # {}
  /\ allocation_list' = Tail(allocation_list)
  /\ free_list' = free_list + 1
  /\ num_records' = num_records - 1
  /\ totals' = [totals EXCEPT !.deallocations = (@ + 1) % CounterWord]
  /\ held' = held \ {arg[t].ptr}
  /\ Return(t)
  /\ UNCHANGED <<flags, leaked, peak, complete, fault>>
DeallocRecord(t) ==
  /\ Running(t, "dealloc_lock")
  /\ \E i \in Newest(arg[t].ptr) : allocation_list' = Without(i)
  /\ free_list' = free_list + 1
  /\ num_records' = num_records - 1
  /\ totals' = [totals EXCEPT !.deallocations = (@ + 1) % CounterWord]
  /\ held' = held \ {arg[t].ptr}
  /\ Return(t)
  /\ UNCHANGED <<flags, leaked, peak, complete, fault>>

(* The bucket has no record of the pointer: hlist_for_each_entry compares  *)
(* the container of the last, null, node with NULL, which it never is, and *)
(* the search reads through it.                                            *)
DeallocUnknown(t) ==
  /\ Running(t, "dealloc_lock")
  /\ Places(arg[t].ptr) = {}
  /\ fault' = TRUE
  /\ UNCHANGED <<flags, records, stats, clients, pc, arg>>

-----------------------------------------------------------------------------
(* Reporting.                                                              *)

\* The bytes of the records.
SizeOf == [i \in 1 .. Len(allocation_list) |-> allocation_list[i].size]
Bytes == SumFunctionOnSet(SizeOf, 1 .. Len(allocation_list))

\* Whether the detector is enabled or was shut down.
UpdateStats(t) ==
  /\ Running(t, "idle")
  /\ leaked' = [objects |-> num_records, bytes |-> Bytes]
  /\ UNCHANGED <<flags, records, totals, peak, clients, pc, arg, fault>>

Clear(t) ==
  /\ Running(t, "idle")
  /\ enabled
  /\ "clear" \in Allowed
  /\ free_list' = free_list + Len(allocation_list)
  /\ allocation_list' = <<>>
  /\ num_records' = 0
  /\ leaked' = [objects |-> 0, bytes |-> 0]
  /\ complete' = (complete /\ allocation_list = <<>>)
  /\ UNCHANGED <<flags, totals, peak, held, pc, arg, fault>>

(* generate_leak_report.  An allocation pattern, a size and a stack trace  *)
(* in the code, is a size here.                                            *)
Found(r, size) == {e \in 1 .. Len(r.entries) : r.entries[e].size = size}

\* A mistake: a record that meets its entry is not counted there.
EntryCountedMissed(r, rec) ==
  IF Found(r, rec.size) # {} THEN r.entries
  ELSE Append(r.entries, [size |-> rec.size, count |-> 1])

EntryCounted(r, rec) ==
  IF Found(r, rec.size) # {}
  THEN [e \in 1 .. Len(r.entries) |->
         IF e \in Found(r, rec.size) THEN [r.entries[e] EXCEPT !.count = @ + 1] ELSE r.entries[e]]
  ELSE Append(r.entries, [size |-> rec.size, count |-> 1])

\* What the loop has gathered after the first n records.  It ends when the
\* entries are used up, even for a record that would meet one of them.
Gathered[n \in Nat] ==
  IF n = 0 THEN [entries |-> <<>>, objects |-> 0, bytes |-> 0]
  ELSE LET r == Gathered[n - 1]
           rec == allocation_list[n]
       IN IF Len(r.entries) >= ReportSize THEN r
          ELSE [entries |-> EntryCounted(r, rec),
                objects |-> r.objects + 1,
                bytes |-> r.bytes + rec.size]

Report == Gathered[Len(allocation_list)]

-----------------------------------------------------------------------------

Next ==
  \/ EnableInit \/ EnableTracking \/ EnableActive
  \/ DisableTracking \/ DisableActive \/ Shutdown
  \/ \E t \in Threads :
       \/ CallAlloc(t) \/ AllocCheck(t) \/ AllocRecord(t) \/ AllocDropped(t)
       \/ CallDealloc(t) \/ DeallocCheck(t) \/ DeallocRecord(t) \/ DeallocUnknown(t)
       \/ UpdateStats(t) \/ Clear(t)

Spec == Init /\ [][Next]_vars

-----------------------------------------------------------------------------
(* Properties.                                                             *)

\* Every variable has its type; the totals are unsigned.
TypeOK ==
  /\ enabled \in BOOLEAN /\ tracking \in BOOLEAN /\ tracking_active \in BOOLEAN
  /\ allocation_list \in Seq(Record)
  /\ free_list \in Nat
  /\ num_records \in Nat
  /\ totals \in [allocations : Nat, deallocations : Nat]
  /\ leaked \in [objects : Nat, bytes : Nat]
  /\ peak \in [allocations : Nat, bytes : Nat]
  /\ held \subseteq Pointers
  /\ pc \in [Threads -> Locations]
  /\ fault \in BOOLEAN

(* The number of records that the limit, the peak and the statistics go by *)
(* is the length of the list, across clearing, reuse of records, shutdown  *)
(* and failed allocations; and the records that exist, in use or not,      *)
(* never exceed the limit.                                                 *)
RecordsCounted ==
  /\ num_records = Len(allocation_list)
  /\ num_records + free_list <= MaxRecords

(* The peak is never below what is recorded, whatever order the counters   *)
(* are updated in.                                                         *)
PeakCovers == num_records <= peak.allocations

\* The pointers a thread is about to record.
Unrecorded == {arg[t].ptr : t \in {u \in Threads : pc[u] \in {"alloc", "alloc_lock"}}}

(* As long as no allocation and no release went unrecorded (tracking was   *)
(* on, records were left, nobody cleared them), the records are the        *)
(* allocations that were not given back, each of them once: a report names *)
(* every leak, and nothing but leaks.  active_allocations, the difference  *)
(* of the two totals, is then the number of records.                       *)
RecordsAreHeld ==
  complete =>
    /\ {allocation_list[i].ptr : i \in 1 .. Len(allocation_list)} = held \ Unrecorded
    /\ \A i, j \in 1 .. Len(allocation_list) :
         allocation_list[i].ptr = allocation_list[j].ptr => i = j
    /\ (totals.allocations - totals.deallocations) % CounterWord = num_records % CounterWord

(* leak_detector_record_dealloc then finds the record it looks for.        *)
RecordedIsFound == complete => ~fault

(* The records that the entries of a report count.                         *)
CountOf(r) == [e \in 1 .. Len(r.entries) |-> r.entries[e].count]
Counted(r) == SumFunctionOnSet(CountOf(r), 1 .. Len(r.entries))

(* A report with an entry to spare counts every record, in its totals and  *)
(* in its entries.                                                         *)
ReportComplete ==
  Len(Report.entries) < ReportSize =>
    /\ Report.objects = Len(allocation_list)
    /\ Report.bytes = Bytes
    /\ Counted(Report) = Report.objects
=============================================================================
