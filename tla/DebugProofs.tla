---------------------------- MODULE DebugProofs -----------------------------
(***************************************************************************)
(* The leak detector and the history of the statistics.                    *)
(*                                                                         *)
(* The detector counts its records correctly, for any number of threads,   *)
(* pointers and records and whatever its callers do: tracking stopped and  *)
(* started, records cleared, allocations that fail, shutdown with calls in *)
(* progress.  Its records are what is held while nothing goes unrecorded,  *)
(* and its report, built record by record, leaves none of them out.        *)
(*                                                                         *)
(* The history is proved for every capacity: within its array whatever     *)
(* resets come, and in order until one does.                               *)
(***************************************************************************)
EXTENDS MCDebug, SequenceTheorems, SumTheorems, TLAPS

\* What the proof needs of the types.  The bytes of a report are left out: they
\* are a sum over the list.
Shape ==
  /\ allocation_list \in Seq(Record)
  /\ free_list \in Nat
  /\ num_records \in Nat
  /\ peak \in [allocations : Nat, bytes : Nat]
  /\ arg = [t \in Threads |-> arg[t]]
  /\ pc \in [Threads -> Locations]
  /\ \A t \in Threads : pc[t] \in {"alloc", "alloc_lock"} => arg[t] \in Record

LeakInv == Shape /\ RecordsCounted /\ PeakCovers

\* The list without its i-th record.
LEMMA WithoutOne ==
  ASSUME allocation_list \in Seq(Record), NEW i \in 1 .. Len(allocation_list)
  PROVE  Without(i) \in Seq(Record) /\ Len(Without(i)) = Len(allocation_list) - 1
<1> DEFINE front == SubSeq(allocation_list, 1, i - 1)
           back == SubSeq(allocation_list, i + 1, Len(allocation_list))
<1>1. front \in Seq(Record) /\ Len(front) = i - 1
  BY SubSeqProperties
<1>2. back \in Seq(Record) /\ Len(back) = Len(allocation_list) - i
  BY SubSeqProperties
<1>3. Without(i) = front \o back
  BY DEF Without
<1> HIDE DEF front, back
<1>4. front \o back \in Seq(Record) /\ Len(front \o back) = Len(front) + Len(back)
  BY <1>1, <1>2, ConcatProperties
<1>5. Len(allocation_list) \in Nat
  OBVIOUS
<1> QED
  BY <1>1, <1>2, <1>3, <1>4, <1>5

\* Nothing is recorded before the first use.
LEMMA LeakInit == Init => LeakInv
  BY LeakAssumption DEF Init, Locations, Locked, LeakInv, Shape, RecordsCounted, PeakCovers, NoRecord, Record

\* A thread that runs on: pc, and arg when it is reset.
LEMMA GotoShape ==
  ASSUME Shape, NEW t \in Threads, NEW l \in Locations, Goto(t, l), UNCHANGED arg,
         l = "alloc_lock" => pc[t] = "alloc", l # "alloc"
  PROVE  /\ pc' \in [Threads -> Locations]
         /\ \A u \in Threads : pc'[u] \in {"alloc", "alloc_lock"} => arg'[u] \in Record
  BY DEF Shape, Goto

\* The end of a call keeps the shape of the calls.
LEMMA ReturnShape ==
  ASSUME Shape, NEW t \in Threads, Return(t)
  PROVE  /\ arg' = [u \in Threads |-> arg'[u]]
         /\ pc' \in [Threads -> Locations]
         /\ \A u \in Threads : pc'[u] \in {"alloc", "alloc_lock"} => arg'[u] \in Record
  BY DEF Shape, Return, Goto, NoRecord, Locations, Locked

\* A step that leaves the records and the peak alone.
LEMMA Aside ==
  ASSUME LeakInv, UNCHANGED <<records, peak>>,
         arg' = [u \in Threads |-> arg'[u]],
         pc' \in [Threads -> Locations],
         \A u \in Threads : pc'[u] \in {"alloc", "alloc_lock"} => arg'[u] \in Record
  PROVE  LeakInv'
  BY DEF LeakInv, Shape, RecordsCounted, PeakCovers, records

\* A step that empties the lists and keeps the threads where they are.
LEMMA Emptied ==
  ASSUME LeakInv, allocation_list' = <<>>, num_records' = 0, free_list' \in 0 .. MaxRecords,
         peak' \in [allocations : Nat, bytes : Nat], UNCHANGED <<pc, arg>>
  PROVE  LeakInv'
  BY LeakAssumption DEF LeakInv, Shape, RecordsCounted, PeakCovers

\* Starting, stopping and shutting down.
LEMMA LifecycleKeeps ==
  ASSUME LeakInv,
         \/ EnableInit \/ EnableTracking \/ EnableActive
         \/ DisableTracking \/ DisableActive \/ Shutdown
  PROVE  LeakInv'
<1>0. Shape /\ Main \in Threads
  BY LeakAssumption DEF LeakInv
<1>1. CASE EnableInit
  BY <1>1, Emptied, LeakAssumption DEF EnableInit, InitDetector, ClearStats
<1>2. CASE EnableTracking
  BY <1>0, <1>2, GotoShape, Aside DEF Locations, Locked, EnableTracking, records, stats, Shape
<1>3. CASE EnableActive
  BY <1>0, <1>3, ReturnShape, Aside DEF EnableActive, records, stats
<1>4. CASE DisableTracking
  BY <1>0, <1>4, GotoShape, Aside DEF Locations, Locked, DisableTracking, records, stats, Shape
<1>5. CASE DisableActive
  BY <1>0, <1>5, ReturnShape, Aside DEF DisableActive, records, stats
<1>6. CASE Shutdown
  BY <1>0, <1>6, Emptied, LeakAssumption DEF Shutdown, stats, Shape
<1> QED
  BY <1>1, <1>2, <1>3, <1>4, <1>5, <1>6

\* leak_detector_record_alloc: a record is used again or made below the limit.
LEMMA AllocKeeps ==
  ASSUME LeakInv, NEW t \in Threads,
         CallAlloc(t) \/ AllocCheck(t) \/ AllocRecord(t) \/ AllocDropped(t)
  PROVE  LeakInv'
<1>0. Shape /\ RecordsCounted /\ PeakCovers
  BY DEF LeakInv
<1>1. CASE CallAlloc(t)
  <2>1. PICK p \in Pointers, s \in Sizes : arg' = [arg EXCEPT ![t] = [ptr |-> p, size |-> s]]
    BY <1>1 DEF CallAlloc
  <2>2. [ptr |-> p, size |-> s] \in Record
    BY DEF Record
  <2>3. \A u \in Threads : pc'[u] \in {"alloc", "alloc_lock"} => arg'[u] \in Record
    BY <1>0, <1>1, <2>1, <2>2 DEF CallAlloc, Goto, Shape
  <2>4. arg' = [u \in Threads |-> arg'[u]]
    BY <1>0, <2>1, LeakAssumption DEF Shape
  <2>5. pc' \in [Threads -> Locations]
    BY <1>0, <1>1 DEF CallAlloc, Goto, Shape, Locations, Locked
  <2> QED
    BY <1>1, <2>3, <2>4, <2>5, Aside DEF CallAlloc, records, stats
<1>2. CASE AllocCheck(t)
  <2>1. CASE Goto(t, "alloc_lock") /\ UNCHANGED arg
    BY <1>0, <1>2, <2>1, GotoShape, Aside DEF Locations, Locked, AllocCheck, Running, records, stats, Shape
  <2>2. CASE Return(t)
    BY <1>0, <1>2, <2>2, ReturnShape, Aside DEF AllocCheck, records, stats
  <2> QED
    BY <1>2, <2>1, <2>2 DEF AllocCheck
<1>3. CASE AllocRecord(t)
  <2>1. arg[t] \in Record /\ arg[t].size \in Nat
    BY <1>0, <1>3, LeakAssumption DEF AllocRecord, Running, Shape, Record
  <2>2. allocation_list' \in Seq(Record) /\ Len(allocation_list') = Len(allocation_list) + 1
    BY <1>0, <1>3, <2>1 DEF AllocRecord, Shape
  <2>3. /\ num_records' = num_records + 1
        /\ free_list' \in Nat
        /\ num_records' + free_list' <= MaxRecords
    BY <1>0, <1>3, LeakAssumption DEF AllocRecord, TakeRecord, Shape, RecordsCounted
  <2>4. /\ peak' \in [allocations : Nat, bytes : Nat]
        /\ num_records' <= peak'.allocations
    BY <1>0, <1>3, <2>1 DEF AllocRecord, RaisePeak, Shape
  <2>5. /\ arg' = [u \in Threads |-> arg'[u]]
        /\ pc' \in [Threads -> Locations]
        /\ \A u \in Threads : pc'[u] \in {"alloc", "alloc_lock"} => arg'[u] \in Record
    BY <1>0, <1>3, ReturnShape DEF AllocRecord
  <2> QED
    BY <1>0, <2>2, <2>3, <2>4, <2>5 DEF LeakInv, Shape, RecordsCounted, PeakCovers
<1>4. CASE AllocDropped(t)
  BY <1>0, <1>4, ReturnShape, Aside DEF AllocDropped, records, stats
<1> QED
  BY <1>1, <1>2, <1>3, <1>4

\* leak_detector_record_dealloc: a record goes from one list to the other.
LEMMA DeallocKeeps ==
  ASSUME LeakInv, NEW t \in Threads,
         CallDealloc(t) \/ DeallocCheck(t) \/ DeallocRecord(t) \/ DeallocUnknown(t)
  PROVE  LeakInv'
<1>0. Shape /\ RecordsCounted /\ PeakCovers
  BY DEF LeakInv
<1>1. CASE CallDealloc(t)
  <2>1. PICK p \in held : arg' = [arg EXCEPT ![t] = [NoRecord EXCEPT !.ptr = p]]
    BY <1>1 DEF CallDealloc
  <2>2. arg' = [u \in Threads |-> arg'[u]]
    BY <1>0, <2>1 DEF Shape
  <2>3. /\ pc' \in [Threads -> Locations]
        /\ \A u \in Threads : pc'[u] \in {"alloc", "alloc_lock"} => arg'[u] \in Record
    BY <1>0, <1>1, <2>1 DEF CallDealloc, Goto, Shape, Locations, Locked
  <2> QED
    BY <1>1, <2>2, <2>3, Aside DEF CallDealloc, records, stats
<1>2. CASE DeallocCheck(t)
  <2>1. CASE Goto(t, "dealloc_lock") /\ UNCHANGED arg
    BY <1>0, <1>2, <2>1, GotoShape, Aside DEF Locations, Locked, DeallocCheck, records, stats, Shape
  <2>2. CASE Return(t)
    BY <1>0, <1>2, <2>2, ReturnShape, Aside DEF DeallocCheck, records, stats
  <2> QED
    BY <1>2, <2>1, <2>2 DEF DeallocCheck
<1>3. CASE DeallocRecord(t)
  <2>1. PICK i \in 1 .. Len(allocation_list) : allocation_list' = Without(i)
    BY <1>3 DEF DeallocRecord, Newest, Places
  <2>2. allocation_list' \in Seq(Record) /\ Len(allocation_list') = Len(allocation_list) - 1
    BY <1>0, <2>1, WithoutOne DEF Shape
  <2>3. /\ num_records' = num_records - 1
        /\ free_list' = free_list + 1
        /\ peak' = peak
    BY <1>3 DEF DeallocRecord
  <2>4. /\ arg' = [u \in Threads |-> arg'[u]]
        /\ pc' \in [Threads -> Locations]
        /\ \A u \in Threads : pc'[u] \in {"alloc", "alloc_lock"} => arg'[u] \in Record
    BY <1>0, <1>3, ReturnShape DEF DeallocRecord
  <2>5. num_records' \in Nat
    BY <1>0, <2>2, <2>3 DEF RecordsCounted, Shape
  <2> QED
    BY <1>0, <2>2, <2>3, <2>4, <2>5, LeakAssumption DEF LeakInv, Shape, RecordsCounted, PeakCovers
<1>4. CASE DeallocUnknown(t)
  BY <1>0, <1>4, Aside DEF DeallocUnknown, records, stats, Shape
<1> QED
  BY <1>1, <1>2, <1>3, <1>4

\* leak_detector_update_stats and leak_detector_clear.
LEMMA ReportKeeps ==
  ASSUME LeakInv, NEW t \in Threads, UpdateStats(t) \/ Clear(t)
  PROVE  LeakInv'
<1>0. Shape /\ RecordsCounted
  BY DEF LeakInv
<1>1. CASE UpdateStats(t)
  BY <1>0, <1>1, Aside DEF UpdateStats, records, Shape
<1>2. CASE Clear(t)
  BY <1>0, <1>2, Emptied, LeakAssumption DEF Clear, Shape, RecordsCounted
<1> QED
  BY <1>1, <1>2

\* The invariant is inductive.
LEMMA LeakStep == LeakInv /\ [Next]_vars => LeakInv'
<1> SUFFICES ASSUME LeakInv, [Next]_vars PROVE LeakInv'
  OBVIOUS
<1>1. CASE UNCHANGED vars
  BY <1>1, Aside DEF vars, records, stats, LeakInv, Shape
<1>2. CASE Next
  BY <1>2, LifecycleKeeps, AllocKeeps, DeallocKeeps, ReportKeeps DEF Next
<1> QED
  BY <1>1, <1>2

(* num_records, the list and the limit agree, and the peak is never        *)
(* missed, in every reachable state of every instance.                     *)
THEOREM LeakRecordsCounted == Spec => [](RecordsCounted /\ PeakCovers)
<1>1. LeakInv => RecordsCounted /\ PeakCovers
  BY DEF LeakInv
<1> QED
  BY LeakInit, LeakStep, <1>1, PTL DEF Spec

-----------------------------------------------------------------------------
(* The records are what is held.                                           *)

\* A pointer in a call is held, and is in that call only.
Busy(t) == pc[t] \in {"alloc", "alloc_lock", "dealloc", "dealloc_lock"}
Owners ==
  /\ \A t \in Threads : Busy(t) => arg[t].ptr \in held
  /\ \A s, t \in Threads : Busy(s) /\ Busy(t) /\ arg[s].ptr = arg[t].ptr => s = t

Recorded == {allocation_list[i].ptr : i \in 1 .. Len(allocation_list)}
Distinct ==
  \A i, j \in 1 .. Len(allocation_list) : allocation_list[i].ptr = allocation_list[j].ptr => i = j
Balanced == (totals.allocations - totals.deallocations) % CounterWord = num_records % CounterWord

HeldInv ==
  /\ totals \in [allocations : Nat, deallocations : Nat]
  /\ Owners
  /\ complete => ~fault /\ Recorded = held \ Unrecorded /\ Distinct /\ Balanced

\* Numbers are equal modulo n when they differ by a multiple of n.
LEMMA ModOfMultiple ==
  ASSUME NEW n \in Nat \ {0}, NEW x \in Int, NEW k \in Int
  PROVE  (x + n * k) % n = x % n
<1> DEFINE y == x + n * k
<1>1. y \in Int
  OBVIOUS
<1>2. x = n * (x \div n) + (x % n) /\ x % n \in 0 .. n - 1 /\ x \div n \in Int
  OBVIOUS
<1>3. y = n * (y \div n) + (y % n) /\ y % n \in 0 .. n - 1 /\ y \div n \in Int
  <2> HIDE DEF y
  <2> QED BY <1>1
<1>4. PICK d \in Int, r \in 0 .. n - 1 : d = x \div n /\ r = x % n
  BY <1>2
<1>5. PICK e \in Int, s \in 0 .. n - 1 : e = y \div n /\ s = y % n
  BY <1>3
<1>6. x = n * d + r /\ x + n * k = n * e + s
  <2>1. y = n * e + s
    BY <1>3, <1>5, Zenon
  <2> QED BY <1>2, <1>4, <2>1
<1> HIDE DEF y
<1> DEFINE c == d + k - e
<1>7. c \in Int /\ n * c = s - r
  BY <1>6
<1> HIDE DEF c
<1>8. c >= 1 => n * c >= n
  BY <1>7
<1>9. c <= -1 => n * c <= -n
  BY <1>7
<1>10. c = 0
  BY <1>7, <1>8, <1>9
<1>11. n * 0 = 0
  OBVIOUS
<1>12. s = r
  BY <1>7, <1>10, <1>11
<1> QED BY <1>4, <1>5, <1>12 DEF y

\* Numbers with the same remainder differ by a multiple.
LEMMA ModEqual ==
  ASSUME NEW n \in Nat \ {0}, NEW x \in Int, NEW y \in Int, x % n = y % n
  PROVE  \E k \in Int : x = y + n * k
<1>1. x = n * (x \div n) + (x % n) /\ x \div n \in Int /\ x % n \in Int
  OBVIOUS
<1>2. y = n * (y \div n) + (y % n) /\ y \div n \in Int /\ y % n \in Int
  OBVIOUS
<1>3. PICK d \in Int, e \in Int, r \in Int : d = x \div n /\ e = y \div n /\ r = y % n
  BY <1>1, <1>2
<1>4. x = n * d + r /\ y = n * e + r
  BY <1>1, <1>2, <1>3
<1>5. x = y + n * (d - e)
  BY <1>4
<1>6. d - e \in Int
  OBVIOUS
<1> QED BY <1>5, <1>6

\* A sum whose first term is wrapped, modulo n again; and a wrapped difference.
LEMMA ModOfMod ==
  ASSUME NEW n \in Nat \ {0}, NEW x \in Int, NEW y \in Int
  PROVE  /\ ((x % n) + y) % n = (x + y) % n
         /\ (y - (x % n)) % n = (y - x) % n
<1>1. x = n * (x \div n) + (x % n) /\ x \div n \in Int /\ x % n \in Int
  OBVIOUS
<1>2. PICK d \in Int, r \in Int : d = x \div n /\ r = x % n
  BY <1>1
<1>3. x = n * d + r
  BY <1>1, <1>2
<1>4. x + y = (r + y) + n * d /\ y - x = (y - r) + n * (-d)
  BY <1>3
<1>5. ((r + y) + n * d) % n = (r + y) % n
  <2> DEFINE z == r + y
  <2>1. z \in Int
    OBVIOUS
  <2> HIDE DEF z
  <2>2. (z + n * d) % n = z % n
    BY <2>1, ModOfMultiple
  <2> QED BY <2>2 DEF z
<1>6. ((y - r) + n * (-d)) % n = (y - r) % n
  <2> DEFINE z == y - r
             k == -d
  <2>1. z \in Int /\ k \in Int
    OBVIOUS
  <2> HIDE DEF z, k
  <2>2. (z + n * k) % n = z % n
    BY <2>1, ModOfMultiple
  <2> QED BY <2>2 DEF z, k
<1> QED BY <1>2, <1>4, <1>5, <1>6

\* Equal modulo n stays equal when the same is added.
LEMMA ModAdd ==
  ASSUME NEW n \in Nat \ {0}, NEW x \in Int, NEW y \in Int, NEW z \in Int, x % n = y % n
  PROVE  (x + z) % n = (y + z) % n
<1>1. PICK k \in Int : x = y + n * k
  BY ModEqual
<1>2. x + z = (y + z) + n * k
  BY <1>1
<1> DEFINE w == y + z
<1>3. w \in Int /\ x + z = w + n * k
  BY <1>2
<1> HIDE DEF w
<1>4. (w + n * k) % n = w % n
  BY <1>3, ModOfMultiple
<1> QED BY <1>3, <1>4 DEF w

\* Where the step of one thread leaves the pointers in calls.
Others(t) == \A u \in Threads \ {t} : pc'[u] = pc[u] /\ arg'[u] = arg[u]

\* Each pointer stays in one call when one thread moves.
LEMMA OwnersKept ==
  ASSUME Owners, NEW t \in Threads, Others(t),
         \A u \in Threads \ {t} : Busy(u) => arg[u].ptr \in held',
         Busy(t)' => /\ arg'[t].ptr \in held'
                     /\ \A u \in Threads \ {t} : Busy(u) => arg[u].ptr # arg'[t].ptr
  PROVE  Owners'
  BY DEF Owners, Busy, Others

\* A step that leaves list, totals and what is held and not in malloc alone.
LEMMA AsideHeld ==
  ASSUME HeldInv, UNCHANGED <<allocation_list, num_records, totals, fault>>, Owners',
         complete' => complete /\ held' \ Unrecorded' = held \ Unrecorded
  PROVE  HeldInv'
<1>1. Recorded' = Recorded /\ (Distinct => Distinct') /\ (Balanced => Balanced')
  BY DEF Recorded, Distinct, Balanced
<1> QED BY <1>1 DEF HeldInv

\* Nothing is held and nothing is recorded.
LEMMA EmptyHeld ==
  ASSUME LeakInv, Owners, UNCHANGED <<held, pc, arg, fault>>, ~fault,
         allocation_list' = <<>>, num_records' = 0,
         totals' \in [allocations : Nat, deallocations : Nat],
         complete' => held = {} /\ Balanced'
  PROVE  HeldInv'
<1>1. Owners'
  BY DEF Owners, Busy
<1>2. Recorded' = {} /\ Distinct'
  BY DEF Recorded, Distinct
<1> QED BY <1>1, <1>2 DEF HeldInv

\* A new detector has recorded nothing, and nothing is held.
LEMMA HeldInit == Init => HeldInv
<1> SUFFICES ASSUME Init PROVE HeldInv
  OBVIOUS
<1>1. Owners
  BY DEF Init, Owners, Busy
<1>2. Recorded = {} /\ Unrecorded = {} /\ Distinct
  BY DEF Init, Recorded, Unrecorded, Distinct
<1>3. Balanced
  BY DEF Init, Balanced
<1> QED BY <1>1, <1>2, <1>3 DEF Init, HeldInv

\* Starting, stopping and shutting down.
LEMMA LifecycleHeld ==
  ASSUME LeakInv, HeldInv,
         \/ EnableInit \/ EnableTracking \/ EnableActive
         \/ DisableTracking \/ DisableActive \/ Shutdown
  PROVE  HeldInv'
<1>0. Shape /\ RecordsCounted /\ Owners /\ Main \in Threads
  BY LeakAssumption DEF LeakInv, HeldInv
<1>1. CASE EnableInit
  <2>1. Balanced'
    BY <1>1 DEF EnableInit, InitDetector, ClearStats, Balanced
  <2> QED BY <1>0, <1>1, <2>1, EmptyHeld DEF EnableInit, InitDetector, ClearStats, Running
<1>2. CASE Shutdown
  <2>1. num_records' = 0 /\ totals' = totals
    BY <1>2 DEF Shutdown, stats
  <2>2. complete' => complete /\ held = {} /\ num_records = 0
    <3>1. complete' => complete /\ held = {}
      BY <1>2 DEF Shutdown
    <3>2. ASSUME complete' PROVE Recorded = {}
      BY <3>1, <3>2 DEF HeldInv
    <3>3. Recorded = {} => Len(allocation_list) = 0
      <4>1. Len(allocation_list) \in Nat
        BY <1>0 DEF Shape
      <4>2. Len(allocation_list) # 0 => 1 \in 1 .. Len(allocation_list)
        BY <4>1
      <4>3. 1 \in 1 .. Len(allocation_list) => allocation_list[1].ptr \in Recorded
        BY DEF Recorded
      <4> QED BY <4>2, <4>3
    <3> QED BY <1>0, <3>1, <3>2, <3>3 DEF RecordsCounted
  <2>3. complete' => Balanced'
    BY <2>1, <2>2 DEF HeldInv, Balanced
  <2> QED BY <1>0, <1>2, <2>1, <2>2, <2>3, EmptyHeld DEF Shutdown, HeldInv, Running
<1>3. CASE EnableTracking \/ EnableActive \/ DisableTracking \/ DisableActive
  <2>1. /\ UNCHANGED <<allocation_list, num_records, totals, fault, held, complete>>
        /\ Others(Main)
        /\ ~Busy(Main) /\ ~Busy(Main)'
    BY <1>0, <1>3 DEF EnableTracking, EnableActive, DisableTracking, DisableActive, Running,
       Goto, Return, Others, Busy, Shape, records, stats, clients, Locations, Locked
  <2>2. Owners'
    BY <1>0, <2>1, OwnersKept DEF Owners
  <2>3. Unrecorded' = Unrecorded
    BY <2>1 DEF Unrecorded, Others, Busy
  <2> QED BY <2>1, <2>2, <2>3, AsideHeld
<1> QED BY <1>1, <1>2, <1>3

\* The pointer of a record that is appended is recorded once.
LEMMA AppendHeld ==
  ASSUME LeakInv, HeldInv, NEW t \in Threads, AllocRecord(t)
  PROVE  HeldInv'
<1> DEFINE n == Len(allocation_list)
           p == arg[t].ptr
           a == totals.allocations
           d == totals.deallocations
<1>0. /\ Shape /\ Owners /\ num_records = n /\ arg[t] \in Record /\ n \in Nat
      /\ pc[t] = "alloc_lock" /\ ~fault
  BY DEF LeakInv, HeldInv, RecordsCounted, Shape, AllocRecord, Running
<1>1. /\ Len(allocation_list') = n + 1
      /\ \A i \in 1 .. n : allocation_list'[i] = allocation_list[i]
      /\ allocation_list'[n + 1] = arg[t]
  BY <1>0, AppendProperties DEF AllocRecord, Shape
<1>2. Others(t) /\ ~Busy(t)' /\ UNCHANGED <<held, complete, fault>>
  BY <1>0 DEF AllocRecord, Return, Goto, Others, Busy, Shape, clients
<1>3. Owners'
  BY <1>0, <1>2, OwnersKept DEF Owners
<1>4. /\ totals' \in [allocations : Nat, deallocations : Nat]
      /\ totals'.allocations = (a + 1) % CounterWord /\ totals'.deallocations = d
      /\ num_records' = n + 1 /\ a \in Nat /\ d \in Nat
  <2>1. totals \in [allocations : Nat, deallocations : Nat] /\ CounterWord \in Nat \ {0}
    BY LeakAssumption DEF HeldInv
  <2>2. (a + 1) % CounterWord \in Nat
    BY <2>1
  <2> QED BY <1>0, <2>1, <2>2 DEF AllocRecord
<1>5. Unrecorded' = Unrecorded \ {p} /\ p \in Unrecorded /\ p \in held
  <2>1. \A u \in Threads \ {t} : Busy(u) => arg[u].ptr # p
    BY <1>0 DEF Owners, Busy
  <2>2. \A u \in Threads \ {t} : pc[u] \in {"alloc", "alloc_lock"} => arg[u].ptr # p
    BY <2>1 DEF Busy
  <2>3. pc'[t] \notin {"alloc", "alloc_lock"}
    BY <1>2 DEF Busy
  <2> QED BY <1>0, <1>2, <2>2, <2>3 DEF Unrecorded, Others, Owners, Busy
<1>6. Recorded' = Recorded \cup {p}
  <2> HIDE DEF n
  <2>1. ASSUME NEW i \in 1 .. n + 1
        PROVE  allocation_list'[i].ptr \in Recorded \cup {p}
    BY <1>0, <1>1, <2>1 DEF Recorded, n
  <2>2. ASSUME NEW i \in 1 .. n PROVE allocation_list[i].ptr \in Recorded'
    BY <1>0, <1>1, <2>2 DEF Recorded
  <2>3. p \in Recorded'
    BY <1>0, <1>1 DEF Recorded
  <2> QED BY <1>1, <2>1, <2>2, <2>3 DEF Recorded, n
<1> HIDE DEF p
<1>7. ASSUME complete PROVE Recorded' = held \ Unrecorded' /\ Distinct'
  <2>1. Recorded = held \ Unrecorded /\ Distinct
    BY <1>7 DEF HeldInv
  <2>2. p \notin Recorded
    BY <1>5, <2>1
  <2>3. \A i \in 1 .. n : allocation_list'[i].ptr # p
    BY <1>1, <2>2 DEF Recorded
  <2>4. Distinct'
    BY <1>0, <1>1, <2>1, <2>3 DEF Distinct, p
  <2> QED BY <1>5, <1>6, <2>1, <2>4
<1> HIDE DEF a, d
<1>8. ASSUME complete PROVE Balanced'
  <2>0. CounterWord \in Nat \ {0} /\ n \in Int
    BY <1>0, LeakAssumption
  <2>1. (a - d) % CounterWord = n % CounterWord
    BY <1>0, <1>8 DEF HeldInv, Balanced, a, d
  <2> DEFINE x == a - d
             b == a + 1
             c == -d
  <2>2. x \in Int /\ b \in Int /\ c \in Int /\ b + c = x + 1
    BY <1>4
  <2> HIDE DEF x, b, c, n
  <2>3. x % CounterWord = n % CounterWord
    BY <2>1 DEF x
  <2>4. (x + 1) % CounterWord = (n + 1) % CounterWord
    <3> DEFINE one == 1
    <3>1. one \in Int
      OBVIOUS
    <3> HIDE DEF one
    <3>2. (x + one) % CounterWord = (n + one) % CounterWord
      BY <2>0, <2>2, <2>3, <3>1, ModAdd
    <3> QED BY <3>2 DEF one
  <2>5. ((b % CounterWord) + c) % CounterWord = (b + c) % CounterWord
    BY <2>0, <2>2, ModOfMod
  <2>6. (b % CounterWord) - d = (b % CounterWord) + c
    BY <1>4, <2>0, <2>2 DEF c
  <2> QED BY <1>4, <2>2, <2>4, <2>5, <2>6 DEF Balanced, b
<1> QED BY <1>0, <1>2, <1>3, <1>4, <1>7, <1>8 DEF HeldInv

\* leak_detector_record_alloc before the list is changed, or without changing it.
LEMMA AllocHeld ==
  ASSUME LeakInv, HeldInv, NEW t \in Threads, CallAlloc(t) \/ AllocCheck(t) \/ AllocDropped(t)
  PROVE  HeldInv'
<1>0. Shape /\ Owners
  BY DEF LeakInv, HeldInv
<1>1. CASE CallAlloc(t)
  <2>1. PICK p \in Pointers \ held, s \in Sizes :
          held' = held \cup {p} /\ arg' = [arg EXCEPT ![t] = [ptr |-> p, size |-> s]]
    BY <1>1 DEF CallAlloc
  <2>2. Others(t) /\ pc[t] = "idle" /\ pc'[t] = "alloc" /\ arg'[t].ptr = p
    BY <1>0, <1>1, <2>1 DEF CallAlloc, Running, Goto, Others, Shape
  <2>3. Owners'
    BY <1>0, <2>1, <2>2, OwnersKept DEF Owners
  <2>4. Unrecorded' = Unrecorded \cup {p}
    <3>1. \A u \in Threads \ {t} : pc'[u] = pc[u] /\ arg'[u].ptr = arg[u].ptr
      BY <2>2 DEF Others
    <3> QED BY <2>2, <3>1 DEF Unrecorded
  <2>5. held' \ Unrecorded' = held \ Unrecorded
    BY <2>1, <2>4
  <2> QED BY <1>1, <2>3, <2>5, AsideHeld DEF CallAlloc, records, stats
<1>2. CASE AllocCheck(t) \/ AllocDropped(t)
  <2>1. /\ UNCHANGED <<allocation_list, num_records, totals, fault, held>>
        /\ Others(t) /\ pc[t] \in {"alloc", "alloc_lock"}
        /\ \/ complete' = FALSE /\ ~Busy(t)'
           \/ complete' = complete /\ pc'[t] = "alloc_lock" /\ arg'[t] = arg[t]
    BY <1>0, <1>2 DEF AllocCheck, AllocDropped, Running, Goto, Return, Others, Busy, Shape, records, stats
  <2>2. Owners'
    BY <1>0, <2>1, OwnersKept DEF Owners, Busy
  <2>3. complete' => Unrecorded' = Unrecorded
    BY <2>1 DEF Unrecorded, Others
  <2> QED BY <2>1, <2>2, <2>3, AsideHeld
<1> QED BY <1>1, <1>2

\* leak_detector_record_dealloc up to the search.
LEMMA DeallocHeld ==
  ASSUME LeakInv, HeldInv, NEW t \in Threads, CallDealloc(t) \/ DeallocCheck(t)
  PROVE  HeldInv'
<1>0. Shape /\ Owners
  BY DEF LeakInv, HeldInv
<1>1. CASE CallDealloc(t)
  <2>1. PICK p \in held : /\ \A u \in Threads : arg[u].ptr # p
                          /\ arg' = [arg EXCEPT ![t] = [NoRecord EXCEPT !.ptr = p]]
    BY <1>1 DEF CallDealloc
  <2>2. Others(t) /\ pc[t] = "idle" /\ pc'[t] = "dealloc" /\ arg'[t].ptr = p
    BY <1>0, <1>1, <2>1 DEF CallDealloc, Running, Goto, Others, Shape, NoRecord
  <2>3. UNCHANGED <<allocation_list, num_records, totals, fault, held, complete>>
    BY <1>1 DEF CallDealloc, records, stats, clients
  <2>4. Owners'
    BY <1>0, <2>1, <2>2, <2>3, OwnersKept DEF Owners
  <2>5. Unrecorded' = Unrecorded
    BY <2>2 DEF Unrecorded, Others
  <2> QED BY <2>3, <2>4, <2>5, AsideHeld
<1>2. CASE DeallocCheck(t)
  <2>1. /\ UNCHANGED <<allocation_list, num_records, totals, fault>>
        /\ Others(t) /\ pc[t] = "dealloc"
        /\ \/ complete' = FALSE /\ ~Busy(t)' /\ held' = held \ {arg[t].ptr}
           \/ UNCHANGED <<held, complete>> /\ pc'[t] = "dealloc_lock" /\ arg'[t] = arg[t]
    BY <1>0, <1>2 DEF DeallocCheck, Running, Goto, Return, Others, Busy, Shape, records, stats, clients
  <2>2. Owners'
    BY <1>0, <2>1, OwnersKept DEF Owners, Busy
  <2>3. complete' => Unrecorded' = Unrecorded
    BY <2>1 DEF Unrecorded, Others
  <2> QED BY <2>1, <2>2, <2>3, AsideHeld
<1> QED BY <1>1, <1>2

\* The search finds the record of a pointer that was recorded.
LEMMA UnknownHeld ==
  ASSUME LeakInv, HeldInv, NEW t \in Threads, DeallocUnknown(t)
  PROVE  HeldInv'
<1> DEFINE p == arg[t].ptr
<1>1. /\ Owners /\ pc[t] = "dealloc_lock" /\ Places(p) = {}
      /\ UNCHANGED <<allocation_list, num_records, totals, held, complete, pc, arg>>
  BY DEF HeldInv, DeallocUnknown, Running, records, stats, clients
<1>2. p \in held \ Unrecorded
  BY <1>1 DEF Owners, Unrecorded, Busy
<1>3. p \notin Recorded
  BY <1>1 DEF Recorded, Places
<1>4. ~complete
  BY <1>2, <1>3 DEF HeldInv
<1>5. Owners'
  BY <1>1 DEF Owners, Busy
<1> QED BY <1>1, <1>4, <1>5 DEF HeldInv

\* leak_detector_update_stats, and leak_detector_clear: what it clears is
\* missing from then on.
LEMMA ReportHeld ==
  ASSUME LeakInv, HeldInv, NEW t \in Threads, UpdateStats(t) \/ Clear(t)
  PROVE  HeldInv'
<1>1. UNCHANGED <<totals, held, pc, arg, fault>>
  BY DEF UpdateStats, Clear, clients
<1>2. Owners' /\ Unrecorded' = Unrecorded
  BY <1>1 DEF HeldInv, Owners, Busy, Unrecorded
<1>3. CASE UpdateStats(t)
  BY <1>1, <1>2, <1>3, AsideHeld DEF UpdateStats, records, clients
<1>4. CASE Clear(t)
  <2>1. CASE complete'
    <3>1. complete /\ UNCHANGED <<allocation_list, num_records>>
      BY <1>4, <2>1 DEF Clear, LeakInv, RecordsCounted
    <3> QED BY <1>1, <1>2, <3>1, AsideHeld
  <2>2. CASE ~complete'
    BY <1>1, <1>2, <2>2 DEF HeldInv
  <2> QED BY <2>1, <2>2
<1> QED BY <1>3, <1>4

\* What is left when the i-th record is taken out.
LEMMA WithoutRest ==
  ASSUME allocation_list \in Seq(Record), NEW i \in 1 .. Len(allocation_list)
  PROVE  \A j \in 1 .. Len(allocation_list) - 1 :
           Without(i)[j] = allocation_list[IF j < i THEN j ELSE j + 1]
<1> DEFINE n == Len(allocation_list)
           front == SubSeq(allocation_list, 1, i - 1)
           back == SubSeq(allocation_list, i + 1, n)
<1>1. /\ front \in Seq(Record) /\ Len(front) = i - 1
      /\ \A j \in 1 .. i - 1 : front[j] = allocation_list[j]
  BY SubSeqProperties
<1>2. /\ back \in Seq(Record) /\ Len(back) = n - i
      /\ \A j \in 1 .. n - i : back[j] = allocation_list[i + j]
  BY SubSeqProperties
<1>3. Without(i) = front \o back
  BY DEF Without
<1>4. n \in Nat
  OBVIOUS
<1> HIDE DEF front, back
<1>5. \A j \in 1 .. n - 1 :
        (front \o back)[j] = IF j <= i - 1 THEN front[j] ELSE back[j - (i - 1)]
  BY <1>1, <1>2, <1>4, ConcatProperties
<1> HIDE DEF n
<1> SUFFICES ASSUME NEW j \in 1 .. n - 1
             PROVE  Without(i)[j] = allocation_list[IF j < i THEN j ELSE j + 1]
  BY DEF n
<1>6. CASE j < i
  BY <1>1, <1>3, <1>4, <1>5, <1>6
<1>7. CASE ~(j < i)
  <2> DEFINE k == j - (i - 1)
  <2>1. i \in 1 .. n
    BY DEF n
  <2>2. k \in 1 .. n - i /\ i + k = j + 1
    BY <1>4, <1>7, <2>1
  <2>3. Without(i)[j] = back[k]
    <3>1. ~(j <= i - 1)
      BY <1>4, <1>7, <2>1
    <3>2. (front \o back)[j] = back[k]
      BY <1>5, <3>1, Zenon
    <3> QED BY <1>3, <3>2, Zenon
  <2> HIDE DEF k
  <2> QED BY <1>2, <1>7, <2>2, <2>3
<1> QED BY <1>6, <1>7

\* A record that is given back goes, and its pointer with it.
LEMMA RecordHeld ==
  ASSUME LeakInv, HeldInv, NEW t \in Threads, DeallocRecord(t)
  PROVE  HeldInv'
<1> DEFINE n == Len(allocation_list)
           p == arg[t].ptr
           a == totals.allocations
           d == totals.deallocations
           At(i, j) == IF j < i THEN j ELSE j + 1
<1>0. /\ Shape /\ Owners /\ num_records = n /\ n \in Nat
      /\ pc[t] = "dealloc_lock" /\ ~fault
  BY DEF LeakInv, HeldInv, RecordsCounted, Shape, DeallocRecord, Running
<1>1. PICK i \in 1 .. n : allocation_list' = Without(i) /\ allocation_list[i].ptr = p
  BY DEF DeallocRecord, Newest, Places
<1>2. Len(allocation_list') = n - 1 /\ \A j \in 1 .. n - 1 : allocation_list'[j] = allocation_list[At(i, j)]
  BY <1>0, <1>1, WithoutOne, WithoutRest DEF Shape
<1>3. Others(t) /\ ~Busy(t)' /\ UNCHANGED <<complete, fault>> /\ held' = held \ {p}
  BY <1>0 DEF DeallocRecord, Return, Goto, Others, Busy, Shape
<1>4. \A u \in Threads \ {t} : Busy(u) => arg[u].ptr # p
  BY <1>0 DEF Owners, Busy
<1>5. Owners'
  BY <1>0, <1>3, <1>4, OwnersKept DEF Owners
<1>6. Unrecorded' = Unrecorded /\ p \notin Unrecorded
  <2>1. \A u \in Threads : pc[u] \in {"alloc", "alloc_lock"} => Busy(u) /\ u # t
    BY <1>0 DEF Busy
  <2>2. pc'[t] \notin {"alloc", "alloc_lock"}
    BY <1>3 DEF Busy
  <2> QED BY <1>3, <1>4, <2>1, <2>2 DEF Unrecorded, Others
<1>7. /\ totals' \in [allocations : Nat, deallocations : Nat]
      /\ totals'.allocations = a /\ totals'.deallocations = (d + 1) % CounterWord
      /\ num_records' = n - 1 /\ a \in Nat /\ d \in Nat
  <2>1. totals \in [allocations : Nat, deallocations : Nat] /\ CounterWord \in Nat \ {0}
    BY LeakAssumption DEF HeldInv
  <2>2. (d + 1) % CounterWord \in Nat
    BY <2>1
  <2> QED BY <1>0, <2>1, <2>2 DEF DeallocRecord
<1>8. \A j \in 1 .. n - 1 : At(i, j) \in (1 .. n) \ {i}
  BY <1>0
<1>9. \A k \in (1 .. n) \ {i} : \E j \in 1 .. n - 1 : At(i, j) = k
  <2> SUFFICES ASSUME NEW k \in (1 .. n) \ {i} PROVE \E j \in 1 .. n - 1 : At(i, j) = k
    OBVIOUS
  <2>1. CASE k < i
    BY <1>0, <2>1
  <2>2. CASE k > i
    <3>1. k - 1 \in 1 .. n - 1 /\ At(i, k - 1) = k
      BY <1>0, <2>2
    <3> QED BY <3>1
  <2> QED BY <1>0, <2>1, <2>2
<1>10. \A j, k \in 1 .. n - 1 : At(i, j) = At(i, k) => j = k
  BY <1>0
<1> HIDE DEF At, n, p
<1>11. ASSUME complete PROVE Recorded' = held' \ Unrecorded' /\ Distinct'
  <2>1. Recorded = held \ Unrecorded /\ Distinct
    BY <1>11 DEF HeldInv
  <2>2. \A k \in (1 .. n) \ {i} : allocation_list[k].ptr # p
    BY <1>1, <2>1 DEF Distinct, n
  <2>3. Recorded' = Recorded \ {p}
    <3>1. ASSUME NEW j \in 1 .. n - 1 PROVE allocation_list'[j].ptr \in Recorded \ {p}
      BY <1>2, <1>8, <2>2, <3>1 DEF Recorded, n
    <3>2. ASSUME NEW k \in 1 .. n, allocation_list[k].ptr # p
          PROVE  allocation_list[k].ptr \in Recorded'
      <4>1. PICK j \in 1 .. n - 1 : At(i, j) = k
        BY <1>1, <1>9, <3>2
      <4>2. allocation_list[k].ptr = allocation_list'[j].ptr
        BY <1>2, <4>1
      <4> QED BY <1>2, <4>2 DEF Recorded
    <3> QED BY <1>2, <3>1, <3>2 DEF Recorded, n
  <2>4. Distinct'
    <3>1. SUFFICES ASSUME NEW j \in 1 .. n - 1, NEW k \in 1 .. n - 1,
                          allocation_list'[j].ptr = allocation_list'[k].ptr
                   PROVE  j = k
      BY <1>2 DEF Distinct
    <3>2. allocation_list[At(i, j)].ptr = allocation_list[At(i, k)].ptr
      BY <1>2, <3>1
    <3>3. At(i, j) \in 1 .. n /\ At(i, k) \in 1 .. n
      BY <1>8
    <3>4. At(i, j) = At(i, k)
      BY <2>1, <3>2, <3>3 DEF Distinct, n
    <3> QED BY <1>10, <3>4
  <2> QED BY <1>3, <1>6, <2>1, <2>3, <2>4
<1> HIDE DEF a, d
<1>12. ASSUME complete PROVE Balanced'
  <2>0. CounterWord \in Nat \ {0} /\ n \in Int /\ -1 \in Int
    BY <1>0, LeakAssumption
  <2>1. (a - d) % CounterWord = n % CounterWord
    BY <1>0, <1>12 DEF HeldInv, Balanced, a, d
  <2> DEFINE x == a - d
             b == d + 1
  <2>2. x \in Int /\ b \in Int /\ a \in Int /\ a - b = x + (-1) /\ n - 1 = n + (-1)
    BY <1>0, <1>7
  <2>3. x % CounterWord = n % CounterWord
    BY <2>1
  <2> HIDE DEF x, b
  <2>4. (x + (-1)) % CounterWord = (n + (-1)) % CounterWord
    BY <2>0, <2>2, <2>3, ModAdd, Zenon
  <2>5. (a - (b % CounterWord)) % CounterWord = (a - b) % CounterWord
    BY <2>0, <2>2, ModOfMod
  <2>6. (a - (b % CounterWord)) % CounterWord = (n - 1) % CounterWord
    BY <2>2, <2>4, <2>5
  <2> QED BY <1>7, <2>6 DEF Balanced, b
<1> QED BY <1>0, <1>3, <1>5, <1>7, <1>11, <1>12 DEF HeldInv

\* The invariant is inductive, with what the counters need.
LEMMA HeldStep == LeakInv /\ HeldInv /\ [Next]_vars => HeldInv'
<1> SUFFICES ASSUME LeakInv, HeldInv, [Next]_vars PROVE HeldInv'
  OBVIOUS
<1>1. CASE UNCHANGED vars
  <2>1. UNCHANGED <<allocation_list, num_records, totals, fault, held, complete, pc, arg>>
    BY <1>1 DEF vars, records, stats, clients
  <2>2. Owners' /\ Unrecorded' = Unrecorded
    BY <2>1 DEF HeldInv, Owners, Busy, Unrecorded
  <2> QED BY <2>1, <2>2, AsideHeld
<1>2. CASE Next
  BY <1>2, LifecycleHeld, AllocHeld, AppendHeld, DeallocHeld, RecordHeld, UnknownHeld, ReportHeld DEF Next
<1> QED BY <1>1, <1>2

(* As long as nothing went unrecorded, the records are the allocations     *)
(* that were not given back, each once, and the totals differ by their     *)
(* number: a report names every leak and nothing but leaks.                *)
THEOREM LeaksAreReported == Spec => []RecordsAreHeld
<1>1. HeldInv => RecordsAreHeld
  BY DEF HeldInv, RecordsAreHeld, Recorded, Distinct, Balanced
<1> QED
  BY LeakInit, LeakStep, HeldInit, HeldStep, <1>1, PTL DEF Spec

(* Nor does leak_detector_record_dealloc ever miss the record it looks     *)
(* for, which would take its search over the end of the bucket.            *)
THEOREM SearchEndsInTime == Spec => []RecordedIsFound
<1>1. HeldInv => RecordedIsFound
  BY DEF HeldInv, RecordedIsFound
<1> QED
  BY LeakInit, LeakStep, HeldInit, HeldStep, <1>1, PTL DEF Spec

-----------------------------------------------------------------------------
(* The report.  Its loop is a recursion over the list, which takes its n-th *)
(* step from what the one before has left; the first lemmas are that such  *)
(* a recursion determines a value for every n.                             *)

Starts == [entries |-> <<>>, objects |-> 0, bytes |-> 0]

GatherStep(r, n) ==
  IF Len(r.entries) >= ReportSize THEN r
  ELSE [entries |-> EntryCounted(r, allocation_list[n]),
        objects |-> r.objects + 1,
        bytes |-> r.bytes + allocation_list[n].size]

\* What g has for the steps in A follows from what it has for the steps before.
Gathers(g, A) == g = [n \in A |-> IF n = 0 THEN Starts ELSE GatherStep(g[n - 1], n)]

\* The report is such a recursion.
LEMMA GatheredIs == Gathered = CHOOSE g : Gathers(g, Nat)
  BY DEF Gathered, Gathers, Starts, GatherStep

\* The value it determines for a step.
LEMMA GathersAt ==
  ASSUME NEW A, NEW g, Gathers(g, A), NEW n \in A
  PROVE  g[n] = IF n = 0 THEN Starts ELSE GatherStep(g[n - 1], n)
  BY Zenon DEF Gathers

\* The first steps can be taken, however many.
LEMMA GathersFirst == \A n \in Nat : \E g : Gathers(g, 0 .. n)
<1> DEFINE Good(n) == \E g : Gathers(g, 0 .. n)
           Bad == {n \in Nat : ~Good(n)}
<1>1. Good(0)
  <2> DEFINE g == [n \in 0 .. 0 |-> Starts]
  <2>1. g = [n \in 0 .. 0 |-> IF n = 0 THEN Starts ELSE GatherStep(g[n - 1], n)]
    <3>1. \A n \in 0 .. 0 : n = 0
      OBVIOUS
    <3> QED BY <3>1
  <2> QED BY <2>1 DEF Gathers
<1>2. ASSUME NEW m \in Nat, Good(m)
      PROVE  Good(m + 1)
  <2>1. PICK g : Gathers(g, 0 .. m)
    BY <1>2
  <2> DEFINE h == [n \in 0 .. m + 1 |-> IF n = 0 THEN Starts ELSE GatherStep(g[n - 1], n)]
  <2>2. \A n \in 0 .. m : h[n] = g[n]
    <3>1. \A n \in 0 .. m : n \in 0 .. m + 1
      OBVIOUS
    <3>2. \A n \in 0 .. m : g[n] = IF n = 0 THEN Starts ELSE GatherStep(g[n - 1], n)
      BY <2>1, GathersAt
    <3> QED BY <3>1, <3>2
  <2>3. \A n \in 0 .. m + 1 : n # 0 => h[n - 1] = g[n - 1]
    <3>1. \A n \in 0 .. m + 1 : n # 0 => n - 1 \in 0 .. m
      OBVIOUS
    <3> HIDE DEF h
    <3> QED BY <2>2, <3>1
  <2>4. \A n \in 0 .. m + 1 : h[n] = IF n = 0 THEN Starts ELSE GatherStep(h[n - 1], n)
    <3>1. \A n \in 0 .. m + 1 : h[n] = IF n = 0 THEN Starts ELSE GatherStep(g[n - 1], n)
      OBVIOUS
    <3> HIDE DEF h
    <3> QED BY <2>3, <3>1
  <2>5. h = [n \in 0 .. m + 1 |-> h[n]]
    OBVIOUS
  <2>6. Gathers(h, 0 .. m + 1)
    <3> HIDE DEF h
    <3> QED BY <2>4, <2>5 DEF Gathers
  <2> QED BY <2>6
<1> HIDE DEF Good
<1> SUFFICES ASSUME Bad # {} PROVE FALSE
  BY Zenon DEF Good
<1>3. Bad \in SUBSET Nat
  OBVIOUS
<1>4. PICK m \in Bad : \A y \in Bad : m <= y
  BY <1>3, LeastIsIn
<1>5. m \in Nat /\ ~Good(m)
  OBVIOUS
<1>6. m # 0
  BY <1>1, <1>5
<1>7. m - 1 \in Nat /\ m - 1 \notin Bad /\ (m - 1) + 1 = m
  BY <1>4, <1>5, <1>6
<1>8. Good(m - 1)
  BY <1>7
<1>9. Good((m - 1) + 1)
  BY <1>2, <1>7, <1>8
<1> QED BY <1>5, <1>7, <1>9

\* In one way only.
LEMMA GathersOnce ==
  ASSUME NEW a \in Nat, NEW b \in Nat, NEW g, Gathers(g, 0 .. a), NEW h, Gathers(h, 0 .. b)
  PROVE  \A n \in Nat : n <= a /\ n <= b => g[n] = h[n]
<1> DEFINE Bad == {n \in Nat : n <= a /\ n <= b /\ g[n] # h[n]}
<1> SUFFICES ASSUME Bad # {} PROVE FALSE
  OBVIOUS
<1>1. Bad \in SUBSET Nat
  OBVIOUS
<1>2. PICK m \in Bad : \A y \in Bad : m <= y
  BY <1>1, LeastIsIn
<1>3. m \in Nat /\ m <= a /\ m <= b /\ g[m] # h[m]
  OBVIOUS
<1>4. m \in 0 .. a /\ m \in 0 .. b
  BY <1>3
<1>5. /\ g[m] = IF m = 0 THEN Starts ELSE GatherStep(g[m - 1], m)
      /\ h[m] = IF m = 0 THEN Starts ELSE GatherStep(h[m - 1], m)
  BY <1>4, GathersAt, ZenonT(40)
<1>6. m # 0
  BY <1>3, <1>5
<1>7. m - 1 \in Nat /\ m - 1 <= a /\ m - 1 <= b /\ ~(m <= m - 1)
  BY <1>3, <1>6
<1>8. m - 1 \notin Bad
  BY <1>2, <1>7
<1>9. g[m - 1] = h[m - 1]
  BY <1>7, <1>8
<1> QED BY <1>3, <1>5, <1>6, <1>9

\* The loop has a result for every n, and the definition says which.
LEMMA GatheredAt ==
  \A n \in Nat : Gathered[n] = IF n = 0 THEN Starts ELSE GatherStep(Gathered[n - 1], n)
<1> DEFINE First(n) == CHOOSE g : Gathers(g, 0 .. n)
           H == [n \in Nat |-> First(n)[n]]
<1>1. \A n \in Nat : Gathers(First(n), 0 .. n)
  BY GathersFirst, Zenon
<1> HIDE DEF First
<1>2. ASSUME NEW n \in Nat
      PROVE  H[n] = IF n = 0 THEN Starts ELSE GatherStep(H[n - 1], n)
  <2>1. n \in 0 .. n /\ H[n] = First(n)[n]
    OBVIOUS
  <2>2. First(n)[n] = IF n = 0 THEN Starts ELSE GatherStep(First(n)[n - 1], n)
    BY <1>1, <2>1, GathersAt
  <2>3. n # 0 => H[n - 1] = First(n)[n - 1]
    <3> SUFFICES ASSUME n # 0 PROVE H[n - 1] = First(n)[n - 1]
      OBVIOUS
    <3>1. n - 1 \in Nat /\ n - 1 <= n /\ n - 1 <= n - 1
      OBVIOUS
    <3>2. H[n - 1] = First(n - 1)[n - 1]
      BY <3>1
    <3>3. First(n)[n - 1] = First(n - 1)[n - 1]
      BY <1>1, <3>1, GathersOnce
    <3> QED BY <3>2, <3>3
  <2> HIDE DEF H
  <2> QED BY <2>1, <2>2, <2>3
<1>3. H = [n \in Nat |-> H[n]]
  OBVIOUS
<1>4. Gathers(H, Nat)
  <2> HIDE DEF H
  <2> QED BY <1>2, <1>3 DEF Gathers
<1>5. Gathers(Gathered, Nat)
  <2> HIDE DEF H
  <2> QED BY <1>4, GatheredIs, Zenon
<1> QED BY <1>5, GathersAt

\* What the loop keeps: an entry for each size, the counts adding up to the
\* records that were met.
ReportEntry == [size : Sizes, count : Nat]
Apiece(es) == \A e, d \in 1 .. Len(es) : es[e].size = es[d].size => e = d
Entries(r) == r.entries \in Seq(ReportEntry) /\ Apiece(r.entries)

\* A record of a new size makes one entry more, with a count of 1.
LEMMA NewEntry ==
  ASSUME NEW r, Entries(r), NEW rec \in Record, Found(r, rec.size) = {},
         NEW q, q.entries = EntryCounted(r, rec)
  PROVE  Entries(q) /\ Len(q.entries) > Len(r.entries) /\ Counted(q) = Counted(r) + 1
<1> DEFINE new == [size |-> rec.size, count |-> 1]
<1>1. PICK es : es = r.entries
  OBVIOUS
<1>2. PICK fs : fs = q.entries
  OBVIOUS
<1>3. es \in Seq(ReportEntry) /\ Apiece(es)
  BY <1>1 DEF Entries
<1>4. new \in ReportEntry
  BY DEF ReportEntry, Record
<1>5. fs = Append(es, new)
  BY <1>1, <1>2 DEF EntryCounted
<1>6. PICK n : n = Len(es)
  OBVIOUS
<1>7. /\ n \in Nat /\ fs \in Seq(ReportEntry) /\ Len(fs) = n + 1
      /\ fs[n + 1] = new /\ \A e \in 1 .. n : fs[e] = es[e]
  BY <1>3, <1>4, <1>5, <1>6, AppendProperties
<1>8. \A e \in 1 .. n : es[e] \in ReportEntry /\ es[e].size # rec.size
  BY <1>1, <1>3, <1>6, ElementOfSeq DEF Found
<1>9. Apiece(fs)
  <2>1. \A e \in 1 .. n + 1 : e \in 1 .. n \/ e = n + 1
    BY <1>7
  <2>2. new.size = rec.size
    OBVIOUS
  <2> HIDE DEF new
  <2>3. ASSUME NEW e \in 1 .. n + 1, NEW d \in 1 .. n + 1, fs[e].size = fs[d].size
        PROVE  e = d
    <3>1. CASE e \in 1 .. n /\ d \in 1 .. n
      BY <2>3, <3>1, <1>3, <1>6, <1>7 DEF Apiece
    <3>2. CASE e \in 1 .. n /\ d = n + 1
      BY <2>2, <2>3, <3>2, <1>7, <1>8
    <3>3. CASE e = n + 1 /\ d \in 1 .. n
      BY <2>2, <2>3, <3>3, <1>7, <1>8
    <3> QED BY <2>1, <3>1, <3>2, <3>3
  <2> QED BY <2>3, <1>7 DEF Apiece
<1>10. Counted(q) = Counted(r) + 1
  <2>1. PICK f : f = CountOf(q)
    OBVIOUS
  <2>2. PICK g : g = CountOf(r)
    OBVIOUS
  <2>3. /\ \A e \in 1 .. n : g[e] = es[e].count
        /\ \A e \in 1 .. n + 1 : f[e] = fs[e].count
    BY <1>1, <1>2, <1>6, <1>7, <2>1, <2>2 DEF CountOf
  <2>4. \A e \in 1 .. n : f[e] = g[e] /\ g[e] \in Nat
    <3>1. \A e \in 1 .. n : e \in 1 .. n + 1 /\ fs[e] = es[e] /\ es[e].count \in Nat
      BY <1>7, <1>8 DEF ReportEntry
    <3> QED BY <2>3, <3>1
  <2>5. f[n + 1] = 1
    BY <1>7, <2>3
  <2>6. IsFiniteSet(1 .. n) /\ n + 1 \notin 1 .. n /\ 1 .. n + 1 = (1 .. n) \union {n + 1}
    <3>1. IsFiniteSet(1 .. n)
      BY <1>7, FS_Interval
    <3>2. n + 1 \notin 1 .. n /\ 1 .. n + 1 = (1 .. n) \union {n + 1}
      BY <1>7
    <3> QED BY <3>1, <3>2
  <2>7. SumFunctionOnSet(f, (1 .. n) \union {n + 1}) = f[n + 1] + SumFunctionOnSet(f, 1 .. n)
    <3>1. f[n + 1] \in Nat /\ \A e \in 1 .. n : f[e] \in Nat
      BY <2>4, <2>5
    <3> QED BY <2>6, <3>1, SumWith, Zenon
  <2>8. SumFunctionOnSet(f, 1 .. n) = SumFunctionOnSet(g, 1 .. n)
    BY <2>4, <2>6, SumAgrees, Zenon
  <2>9. SumFunctionOnSet(g, 1 .. n) \in Nat
    BY <2>4, <2>6, SumTyped, Zenon
  <2>10. Counted(q) = SumFunctionOnSet(f, 1 .. n + 1) /\ Counted(r) = SumFunctionOnSet(g, 1 .. n)
    BY <1>1, <1>2, <1>6, <1>7, <2>1, <2>2, Zenon DEF Counted
  <2>11. Counted(q) = f[n + 1] + Counted(r)
    BY <2>6, <2>7, <2>8, <2>10, Zenon
  <2>12. Counted(r) \in Nat
    BY <2>9, <2>10, Zenon
  <2> QED BY <2>5, <2>11, <2>12
<1> QED BY <1>1, <1>2, <1>6, <1>7, <1>9, <1>10 DEF Entries

\* One value is greater by one: so is the sum.
LEMMA OneCounted ==
  ASSUME NEW D, IsFiniteSet(D), NEW m \in D, NEW f, NEW g,
         \A y \in D : g[y] \in Nat, \A y \in D : f[y] \in Nat,
         \A y \in D : y # m => g[y] = f[y], f[m] = g[m] + 1
  PROVE  SumFunctionOnSet(f, D) = SumFunctionOnSet(g, D) + 1
<1>1. SumFunctionOnSet(f, D) + g[m] = SumFunctionOnSet(g, D) + f[m]
  BY SumChanged
<1>2. SumFunctionOnSet(f, D) \in Nat /\ SumFunctionOnSet(g, D) \in Nat /\ g[m] \in Nat
  BY SumTyped
<1> QED BY <1>1, <1>2

\* A record of a size that was met is counted there, once.
LEMMA OldEntry ==
  ASSUME NEW r, Entries(r), NEW rec \in Record, Found(r, rec.size) # {},
         NEW q, q.entries = EntryCounted(r, rec)
  PROVE  Entries(q) /\ Len(q.entries) = Len(r.entries) /\ Counted(q) = Counted(r) + 1
<1>1. PICK es : es = r.entries
  OBVIOUS
<1>2. PICK fs : fs = q.entries
  OBVIOUS
<1>3. es \in Seq(ReportEntry) /\ Apiece(es)
  BY <1>1 DEF Entries
<1>4. PICK n : n = Len(es)
  OBVIOUS
<1>5. n \in Nat /\ \A e \in 1 .. n : es[e] \in ReportEntry
  BY <1>3, <1>4, ElementOfSeq
<1>a. PICK m : m \in Found(r, rec.size)
  OBVIOUS
<1>6. m \in 1 .. n /\ es[m].size = rec.size
  BY <1>1, <1>4, <1>a DEF Found
<1>7. \A e \in 1 .. n : e \in Found(r, rec.size) <=> e = m
  BY <1>1, <1>3, <1>4, <1>6 DEF Found, Apiece
<1>8. fs = [e \in 1 .. n |-> IF e \in Found(r, rec.size) THEN [es[e] EXCEPT !.count = @ + 1] ELSE es[e]]
  BY <1>1, <1>2, <1>4, Zenon DEF EntryCounted
<1>9. \A e \in 1 .. n : e # m => fs[e] = es[e]
  BY <1>7, <1>8
<1>10. fs[m] = [es[m] EXCEPT !.count = @ + 1]
  BY <1>6, <1>7, <1>8
<1>11. \A e \in 1 .. n : fs[e] \in ReportEntry /\ fs[e].size = es[e].size
  <2>1. fs[m] \in ReportEntry /\ fs[m].size = es[m].size
    BY <1>5, <1>6, <1>10 DEF ReportEntry
  <2> QED BY <1>5, <1>9, <2>1
<1>12. fs \in Seq(ReportEntry) /\ Len(fs) = n
  <2>1. fs \in [1 .. n -> ReportEntry]
    <3>1. fs = [e \in 1 .. n |-> fs[e]]
      BY <1>8
    <3> QED BY <1>11, <3>1
  <2> QED BY <1>5, <2>1, SeqDef, LenProperties
<1>13. Apiece(fs)
  BY <1>3, <1>4, <1>11, <1>12 DEF Apiece
<1>14. Counted(q) = Counted(r) + 1
  <2>1. PICK after : after = CountOf(q)
    OBVIOUS
  <2>2. PICK before : before = CountOf(r)
    OBVIOUS
  <2>3. \A e \in 1 .. n : before[e] = es[e].count /\ after[e] = fs[e].count
    BY <1>1, <1>2, <1>4, <1>12, <2>1, <2>2 DEF CountOf
  <2>4. \A e \in 1 .. n : es[e].count \in Nat /\ fs[e].count \in Nat
    BY <1>5, <1>11 DEF ReportEntry
  <2>5. \A e \in 1 .. n : before[e] \in Nat /\ after[e] \in Nat
    BY <2>3, <2>4
  <2>6. \A e \in 1 .. n : e # m => before[e] = after[e]
    BY <1>9, <2>3
  <2>7. after[m] = before[m] + 1
    BY <1>5, <1>6, <1>10, <2>3 DEF ReportEntry
  <2>8. IsFiniteSet(1 .. n)
    BY <1>5, FS_Interval
  <2>9. SumFunctionOnSet(after, 1 .. n) = SumFunctionOnSet(before, 1 .. n) + 1
    <3>1. PICK D : D = 1 .. n
      OBVIOUS
    <3>2. /\ IsFiniteSet(D) /\ m \in D
          /\ \A y \in D : before[y] \in Nat
          /\ \A y \in D : after[y] \in Nat
          /\ \A y \in D : y # m => before[y] = after[y]
      BY <1>6, <2>5, <2>6, <2>8, <3>1
    <3>3. SumFunctionOnSet(after, D) = SumFunctionOnSet(before, D) + 1
      BY <2>7, <3>2, OneCounted, SMT
    <3> QED BY <3>1, <3>3
  <2>11. Counted(q) = SumFunctionOnSet(after, 1 .. n) /\ Counted(r) = SumFunctionOnSet(before, 1 .. n)
    BY <1>1, <1>2, <1>4, <1>12, <2>1, <2>2, Zenon DEF Counted
  <2> QED BY <2>9, <2>11, Zenon
<1> QED BY <1>1, <1>2, <1>4, <1>12, <1>13, <1>14, <1>5 DEF Entries

\* What holds of the loop after n records.
Kept(n) ==
  LET r == Gathered[n] IN
    /\ Entries(r) /\ r.objects \in Nat /\ r.bytes \in Nat
    /\ Counted(r) = r.objects
    /\ Len(r.entries) < ReportSize =>
         r.objects = n /\ r.bytes = SumFunctionOnSet(SizeOf, 1 .. n)

\* A report that has read nothing counts nothing.
LEMMA KeptFirst == Kept(0)
<1>1. PICK r : r = Gathered[0]
  OBVIOUS
<1>2. r = Starts
  BY <1>1, GatheredAt
<1>3. Len(r.entries) = 0 /\ r.entries \in Seq(ReportEntry) /\ r.objects = 0 /\ r.bytes = 0
  BY <1>2 DEF Starts
<1>4. 1 .. 0 = {}
  OBVIOUS
<1>5. Entries(r)
  BY <1>3 DEF Entries, Apiece
<1>6. Counted(r) = 0
  BY <1>3, <1>4, SumEmpty DEF Counted
<1>7. SumFunctionOnSet(SizeOf, 1 .. 0) = 0
  BY <1>4, SumEmpty
<1> QED BY <1>1, <1>3, <1>5, <1>6, <1>7 DEF Kept

\* The records of the list.
LEMMA RecordAt ==
  ASSUME Shape, NEW i \in 1 .. Len(allocation_list)
  PROVE  allocation_list[i] \in Record /\ allocation_list[i].size \in Nat
<1>1. allocation_list[i] \in Record
  BY ElementOfSeq DEF Shape
<1>2. \A s \in Sizes : s \in Nat
  BY LeakAssumption
<1> QED BY <1>1, <1>2 DEF Record

\* The bytes of one record more.
LEMMA BytesWith ==
  ASSUME Shape, NEW m \in Nat, m + 1 <= Len(allocation_list)
  PROVE  /\ SumFunctionOnSet(SizeOf, 1 .. m) \in Nat
         /\ SumFunctionOnSet(SizeOf, 1 .. m + 1) = SumFunctionOnSet(SizeOf, 1 .. m) + allocation_list[m + 1].size
<1>1. PICK f : f = SizeOf
  OBVIOUS
<1>2. /\ \A i \in 1 .. m : f[i] \in Nat
      /\ f[m + 1] = allocation_list[m + 1].size /\ f[m + 1] \in Nat
  <2>1. \A i \in 1 .. Len(allocation_list) : f[i] = allocation_list[i].size /\ f[i] \in Nat
    BY <1>1, RecordAt DEF SizeOf
  <2>2. /\ m + 1 \in 1 .. Len(allocation_list)
        /\ \A i \in 1 .. m : i \in 1 .. Len(allocation_list)
    BY DEF Shape
  <2> QED BY <2>1, <2>2
<1>3. IsFiniteSet(1 .. m)
  BY FS_Interval
<1>4. m + 1 \notin 1 .. m /\ 1 .. m + 1 = (1 .. m) \union {m + 1}
  OBVIOUS
<1>5. SumFunctionOnSet(f, 1 .. m) \in Nat
  BY <1>2, <1>3, SumTyped, Zenon
<1>6. SumFunctionOnSet(f, (1 .. m) \union {m + 1}) = f[m + 1] + SumFunctionOnSet(f, 1 .. m)
  BY <1>2, <1>3, <1>4, SumWith, Zenon
<1>7. SumFunctionOnSet(f, 1 .. m + 1) = f[m + 1] + SumFunctionOnSet(f, 1 .. m)
  BY <1>4, <1>6, Zenon
<1> QED BY <1>1, <1>2, <1>5, <1>7

\* A report that counts all it has read still does after the next record.
LEMMA KeptNext ==
  ASSUME Shape, NEW m \in Nat, m + 1 <= Len(allocation_list), Kept(m)
  PROVE  Kept(m + 1)
<1>1. PICK r : r = Gathered[m]
  OBVIOUS
<1>2. PICK q : q = Gathered[m + 1]
  OBVIOUS
<1>3. PICK rec : rec = allocation_list[m + 1]
  OBVIOUS
<1>4. rec \in Record /\ rec.size \in Nat
  <2>1. m + 1 \in 1 .. Len(allocation_list)
    BY DEF Shape
  <2> QED BY <1>3, <2>1, RecordAt
<1>5. q = GatherStep(r, m + 1)
  <2>1. m + 1 \in Nat /\ m + 1 # 0 /\ (m + 1) - 1 = m
    OBVIOUS
  <2>2. Gathered[m + 1] = GatherStep(Gathered[(m + 1) - 1], m + 1)
    BY <2>1, GatheredAt
  <2> QED BY <1>1, <1>2, <2>1, <2>2
<1>6. /\ Entries(r) /\ r.objects \in Nat /\ r.bytes \in Nat
      /\ Counted(r) = r.objects
      /\ Len(r.entries) < ReportSize =>
           r.objects = m /\ r.bytes = SumFunctionOnSet(SizeOf, 1 .. m)
  BY <1>1 DEF Kept
<1>7. CASE Len(r.entries) >= ReportSize
  <2>1. q = r
    BY <1>5, <1>7 DEF GatherStep
  <2>2. Len(r.entries) \in Nat
    BY <1>6 DEF Entries
  <2>3. ~(Len(q.entries) < ReportSize)
    BY <1>7, <2>1, <2>2, LeakAssumption
  <2> QED BY <1>2, <1>6, <2>1, <2>3 DEF Kept
<1>8. CASE ~(Len(r.entries) >= ReportSize)
  <2>1. q = [entries |-> EntryCounted(r, rec), objects |-> r.objects + 1, bytes |-> r.bytes + rec.size]
    BY <1>3, <1>5, <1>8, Zenon DEF GatherStep
  <2>2. q.entries = EntryCounted(r, rec) /\ q.objects = r.objects + 1 /\ q.bytes = r.bytes + rec.size
    BY <2>1
  <2>3. Entries(q) /\ Counted(q) = Counted(r) + 1
    BY <1>4, <1>6, <2>2, NewEntry, OldEntry, Zenon
  <2>4. Len(r.entries) < ReportSize
    BY <1>6, <1>8, LeakAssumption DEF Entries
  <2>5. q.objects = m + 1 /\ q.objects \in Nat /\ q.bytes \in Nat
    BY <1>4, <1>6, <2>2, <2>4
  <2>6. q.bytes = SumFunctionOnSet(SizeOf, 1 .. m + 1)
    BY <1>3, <1>6, <2>2, <2>4, BytesWith
  <2>7. Counted(q) = q.objects
    BY <1>6, <2>2, <2>3, Zenon
  <2> QED BY <1>2, <2>3, <2>5, <2>6, <2>7 DEF Kept
<1> QED BY <1>7, <1>8

\* And so for every n, up to the whole list.
LEMMA KeptAlways ==
  ASSUME Shape
  PROVE  Kept(Len(allocation_list))
<1> DEFINE Bad == {n \in Nat : n <= Len(allocation_list) /\ ~Kept(n)}
<1>1. Len(allocation_list) \in Nat
  BY DEF Shape
<1> SUFFICES ASSUME Bad # {} PROVE FALSE
  BY <1>1
<1>2. Bad \in SUBSET Nat
  OBVIOUS
<1>3. PICK m \in Bad : \A y \in Bad : m <= y
  BY <1>2, LeastIsIn
<1>4. m \in Nat /\ m <= Len(allocation_list) /\ ~Kept(m)
  OBVIOUS
<1>5. m # 0
  BY <1>4, KeptFirst
<1>6. m - 1 \in Nat /\ m - 1 <= Len(allocation_list) /\ ~(m <= m - 1) /\ (m - 1) + 1 = m
  BY <1>1, <1>4, <1>5
<1>7. Kept(m - 1)
  BY <1>3, <1>6
<1>8. Kept((m - 1) + 1)
  BY <1>4, <1>6, <1>7, KeptNext
<1> QED BY <1>4, <1>6, <1>8

\* A report of generate_leak_report that did not run out of entries leaves
\* out no record: its totals are those of the list, and so is the sum of the counts
\* of its entries, for any records and any size of the report.
THEOREM ReportsAreComplete == Spec => []ReportComplete
<1>1. Shape => ReportComplete
  <2> SUFFICES ASSUME Shape PROVE ReportComplete
    OBVIOUS
  <2>1. Kept(Len(allocation_list))
    BY KeptAlways
  <2> QED BY <2>1, Zenon DEF Kept, ReportComplete, Report, Bytes
<1>2. LeakInv => Shape
  BY DEF LeakInv
<1> QED
  BY LeakInit, LeakStep, <1>1, <1>2, PTL DEF Spec

-----------------------------------------------------------------------------
(* The history of the statistics (debug/stats_collector.c), for any number *)
(* of threads, any capacity and any number of allocations and resets.  Its *)
(* lock keeps out other updates but neither the recording threads, which   *)
(* move the totals that an update reads one after the other, nor a reset.  *)

\* What is assumed of the constants.
LEMMA StatsConstants ==
  NULL \notin Clients /\ Capacity \in Nat \ {0} /\ MaxAllocs \in Nat /\ MaxResets \in Nat
  BY StatsAssumption DEF Stats!ConstantsOK

\* Where a thread is: outside the history, in its update, in a reset.
Writing == {"entry_allocated", "entry_freed"}
Checked == {"shift", "load_count", "store_count"} \union Writing
Updating == {"check"} \union Checked
Resetting == {"zero_allocated", "zero_freed", "zero_histogram", "size_histogram",
              "zero_allocations", "zero_deallocations", "zero_peak", "zero_count"}
Recording == {"total", "samples", "add", "class", "first", "minus", "plus", "peak", "store",
              "freed", "class_freed"}
StatsLocations == {"idle"} \union Recording \union Resetting \union Updating

\* The lock of the history covers its update, and what count and the index that
\* was read from it can be at each of its steps, a reset between them or not.
UpdateInv ==
  /\ count > 0 => capacity = Capacity
  /\ count <= Capacity
  /\ \A t \in Clients :
       /\ place[t] \in Updating => history_lock = t
       /\ place[t] \in Checked => stopped \/ capacity = Capacity
       /\ place[t] = "load_count" => stopped \/ count < Capacity
       /\ place[t] = "add" => seen[t] \in Nat
       /\ place[t] \in {"store_count"} \union Writing => seen[t] \in 0 .. Capacity - 1

\* The first n entries are in order, and not above the totals.
Ordered(n) ==
  /\ \A i, j \in 1 .. n : i <= j =>
       /\ entries[i].allocated <= entries[j].allocated
       /\ entries[i].freed <= entries[j].freed
  /\ \A i \in 1 .. n : entries[i].allocated <= allocated /\ entries[i].freed <= freed

\* Before the first reset the complete entries are in order: all that are counted,
\* or all but the one being written, which has its first half in its last step.
OrderInv ==
  resets = 0 =>
    /\ (\A t \in Clients : place[t] \notin Writing) => Ordered(count)
    /\ \A t \in Clients :
         /\ place[t] \notin Resetting
         /\ place[t] = "shift" => stopped \/ count = Capacity
         /\ place[t] = "store_count" => seen[t] = count
         /\ place[t] \in Writing => count = seen[t] + 1 /\ Ordered(seen[t])
         /\ place[t] = "entry_freed" =>
              /\ entries[seen[t] + 1].allocated <= allocated
              /\ \A i \in 1 .. seen[t] : entries[i].allocated <= entries[seen[t] + 1].allocated

StatsInv == Stats!TypeOK /\ place \in [Clients -> StatsLocations] /\ UpdateInv /\ OrderInv

\* Nothing is written yet.
LEMMA StatsInit == Stats!Init => StatsInv
<1> SUFFICES ASSUME Stats!Init PROVE StatsInv
  OBVIOUS
<1>1. Stats!TypeOK
  <2>1. entries \in [1 .. Capacity -> Stats!Entry] /\ class \in [allocations : Nat, deallocations : Nat, peak : Int]
    BY DEF Stats!Init, Stats!NoCounts, Stats!NoEntry, Stats!Entry
  <2>2. seen \in [Clients -> Int] /\ blocks \in [Clients -> Nat]
    BY DEF Stats!Init
  <2>3. {initialized, collecting, stopped, bucket_size_set} \subseteq BOOLEAN
    BY Zenon DEF Stats!Init
  <2>4. {history_lock, global_lock} \subseteq Clients \union {NULL}
    BY DEF Stats!Init
  <2> QED BY <2>1, <2>2, <2>3, <2>4, StatsConstants DEF Stats!Init, Stats!TypeOK
<1>2. \A t \in Clients : place[t] \in StatsLocations /\ place[t] \notin Updating /\ place[t] \notin Resetting
                        /\ place[t] # "add"
  BY DEF Stats!Init, StatsLocations, Updating, Checked, Writing, Resetting
<1>3. place \in [Clients -> StatsLocations]
  BY <1>2 DEF Stats!Init
<1>4. UpdateInv
  BY <1>2, StatsConstants DEF Stats!Init, UpdateInv, Updating, Checked, Writing
<1>5. OrderInv
  BY <1>2 DEF Stats!Init, OrderInv, Ordered, Updating, Checked, Writing
<1> QED BY <1>1, <1>3, <1>4, <1>5 DEF StatsInv

\* The sets of locations have nothing in common.
LEMMA Apart ==
  /\ \A l \in Recording \union {"idle"} : l \notin Updating /\ l \notin Resetting /\ l \in StatsLocations
  /\ \A l \in Resetting : l \notin Updating /\ l \notin Recording /\ l \in StatsLocations
  /\ \A l \in Updating : l \in StatsLocations /\ l \notin Resetting
  /\ Writing \subseteq Checked /\ Checked \subseteq Updating
  /\ {"shift", "load_count", "store_count"} \subseteq Checked /\ "entry_freed" \in Writing
  /\ "add" \in Recording /\ "add" \notin Updating /\ "load_count" \notin Writing
  BY DEF StatsLocations, Updating, Checked, Writing, Resetting, Recording

\* A step of one thread that neither starts nor ends in the history's update, and
\* before the first reset lets no total fall.
LEMMA Beside ==
  ASSUME StatsInv, Stats!TypeOK', NEW t \in Clients,
         NEW l \in StatsLocations \ Updating, place[t] \in StatsLocations \ Updating,
         place' = [place EXCEPT ![t] = l],
         \A u \in Clients : u # t => seen'[u] = seen[u],
         l = "add" => seen'[t] \in Nat,
         UNCHANGED <<entries, capacity, history_lock>>,
         count' = count \/ (count' = 0 /\ resets # 0),
         ~stopped, resets' >= resets,
         resets' = 0 => l \notin Resetting /\ allocated' >= allocated /\ freed' >= freed
  PROVE  StatsInv'
<1>0. Stats!TypeOK /\ place \in [Clients -> StatsLocations] /\ UpdateInv /\ OrderInv
  BY DEF StatsInv
<1>1. place' \in [Clients -> StatsLocations]
  BY <1>0
<1>2. \A u \in Clients : place'[u] \in Updating => u # t /\ place[u] = place'[u] /\ seen'[u] = seen[u]
  BY <1>0
<1>3. count \in Nat /\ capacity \in {0, Capacity} /\ Capacity \in Nat \ {0} /\ count' \in Nat
  BY <1>0, StatsConstants DEF Stats!TypeOK
<1>4. UpdateInv'
  <2>1. (count > 0 => capacity = Capacity)' /\ (count <= Capacity)'
    BY <1>0, <1>3 DEF UpdateInv
  <2>2. ASSUME NEW u \in Clients
        PROVE  /\ place'[u] \in Updating => history_lock' = u
               /\ place'[u] \in Checked => stopped' \/ capacity' = Capacity
               /\ place'[u] = "load_count" => stopped' \/ count' < Capacity
               /\ place'[u] \in {"store_count"} \union Writing => seen'[u] \in 0 .. Capacity - 1
    BY <1>0, <1>2, <1>3, Apart DEF UpdateInv
  <2>3. ASSUME NEW u \in Clients, place'[u] = "add" PROVE seen'[u] \in Nat
    BY <1>0, <2>3 DEF UpdateInv
  <2> QED BY <2>1, <2>2, <2>3 DEF UpdateInv
<1>5. OrderInv'
  <2> SUFFICES ASSUME resets' = 0
               PROVE  /\ (\A u \in Clients : place'[u] \notin Writing) => Ordered(count)'
                      /\ \A u \in Clients :
                           /\ place'[u] \notin Resetting
                           /\ place'[u] = "shift" => stopped' \/ count' = Capacity
                           /\ place'[u] = "store_count" => seen'[u] = count'
                           /\ place'[u] \in Writing => count' = seen'[u] + 1 /\ Ordered(seen[u])'
                           /\ place'[u] = "entry_freed" =>
                                /\ entries'[seen'[u] + 1].allocated <= allocated'
                                /\ \A i \in 1 .. seen'[u] :
                                     entries'[i].allocated <= entries'[seen'[u] + 1].allocated
    BY DEF OrderInv
  <2>0. resets \in Nat
    BY <1>0 DEF Stats!TypeOK
  <2>1. resets = 0 /\ count' = count /\ allocated' >= allocated /\ freed' >= freed
    BY <2>0
  <2>a. /\ entries' = entries
        /\ \A i \in 1 .. Capacity : entries[i].allocated \in Nat /\ entries[i].freed \in Nat
    BY <1>0 DEF Stats!TypeOK, Stats!Entry
  <2>b. {allocated, freed, allocated', freed'} \subseteq Nat
    BY <1>0 DEF Stats!TypeOK
  <2>2. ASSUME NEW n \in 0 .. Capacity, Ordered(n)
        PROVE  /\ \A i, j \in 1 .. n : i <= j =>
                    /\ entries'[i].allocated <= entries'[j].allocated
                    /\ entries'[i].freed <= entries'[j].freed
               /\ \A i \in 1 .. n : entries'[i].allocated <= allocated' /\ entries'[i].freed <= freed'
    <3>1. \A i \in 1 .. n : i \in 1 .. Capacity
      BY <1>3
    <3>2. \A i \in 1 .. n : entries[i].allocated <= allocated' /\ entries[i].freed <= freed'
      BY <2>1, <2>2, <2>a, <2>b, <3>1 DEF Ordered
    <3> QED BY <2>2, <2>a, <3>2 DEF Ordered
  <2>3. ASSUME \A u \in Clients : place'[u] \notin Writing PROVE Ordered(count)'
    <3>1. \A u \in Clients : place[u] \notin Writing
      BY <1>0, <2>3, Apart
    <3>2. Ordered(count) /\ count \in 0 .. Capacity
      BY <1>0, <1>3, <2>1, <3>1 DEF OrderInv, UpdateInv
    <3> QED BY <2>1, <2>2, <3>2 DEF Ordered
  <2>4. ASSUME NEW u \in Clients, place'[u] \in Writing
        PROVE  count' = seen'[u] + 1 /\ Ordered(seen[u])'
    <3>1. place[u] \in Writing /\ seen'[u] = seen[u]
      BY <1>2, <2>4, Apart
    <3>2. Ordered(seen[u]) /\ seen[u] \in 0 .. Capacity /\ count = seen[u] + 1
      BY <1>0, <1>3, <2>1, <3>1 DEF OrderInv, UpdateInv
    <3> QED BY <2>1, <2>2, <3>1, <3>2 DEF Ordered
  <2>5. ASSUME NEW u \in Clients, place'[u] = "entry_freed"
        PROVE  /\ entries'[seen'[u] + 1].allocated <= allocated'
               /\ \A i \in 1 .. seen'[u] : entries'[i].allocated <= entries'[seen'[u] + 1].allocated
    <3>1. place[u] = "entry_freed" /\ seen'[u] = seen[u]
      BY <1>2, <2>5, Apart
    <3>2. seen[u] \in 0 .. Capacity - 1
      BY <1>0, <3>1, Apart DEF UpdateInv
    <3>3. entries[seen[u] + 1].allocated \in Nat
      BY <1>3, <2>a, <3>2
    <3>4. /\ entries[seen[u] + 1].allocated <= allocated
          /\ \A i \in 1 .. seen[u] : entries[i].allocated <= entries[seen[u] + 1].allocated
      BY <1>0, <2>1, <3>1 DEF OrderInv
    <3>5. entries[seen[u] + 1].allocated <= allocated'
      BY <2>1, <2>b, <3>3, <3>4
    <3> QED BY <2>a, <3>1, <3>4, <3>5
  <2>6. \A u \in Clients : place'[u] \notin Resetting
    BY <1>0, <2>1 DEF OrderInv
  <2>7. ASSUME NEW u \in Clients, place'[u] = "store_count" PROVE seen'[u] = count'
    BY <1>0, <1>2, <2>1, <2>7, Apart DEF OrderInv
  <2>8. ASSUME NEW u \in Clients, place'[u] = "shift" PROVE count' = Capacity
    <3>1. "shift" \in Updating
      BY DEF Updating, Checked
    <3> QED BY <1>0, <1>2, <2>1, <2>8, <3>1 DEF OrderInv
  <2> QED BY <2>3, <2>4, <2>5, <2>6, <2>7, <2>8
<1> QED BY <1>1, <1>4, <1>5 DEF StatsInv

\* The steps of the recording threads keep the types.
LEMMA RecordTypes ==
  ASSUME StatsInv, NEW t \in Clients,
         Stats!stats_collector_record_alloc(t) \/ Stats!stats_collector_record_dealloc(t)
  PROVE  Stats!TypeOK'
<1>0. Stats!TypeOK /\ place \in [Clients -> StatsLocations] /\ UpdateInv
  BY DEF StatsInv
<1>1. /\ {allocated, freed, samples, count, resets, calls} \subseteq Nat
      /\ seen \in [Clients -> Int] /\ blocks \in [Clients -> Nat]
      /\ class \in [allocations : Nat, deallocations : Nat, peak : Int]
      /\ \A u \in Clients : place[u] = "add" => seen[u] \in Nat
  BY <1>0 DEF Stats!TypeOK, UpdateInv
<1>2. stopped' \in BOOLEAN /\ UNCHANGED <<initialized, collecting, bucket_size_set, Stats!history, Stats!locks>>
  <2>1. stopped \in BOOLEAN
    BY <1>0 DEF Stats!TypeOK
  <2> QED
    BY <2>1, Zenon
    DEF Stats!stats_collector_record_alloc, Stats!stats_collector_record_dealloc, Stats!RecordAlloc, Stats!Total, Stats!LoadSamples,
        Stats!latency_histogram_add, Stats!CountClass, Stats!LoadFirst, Stats!LoadSecond, Stats!LoadPeak, Stats!StorePeak, Stats!RecordDealloc,
        Stats!TotalFreed, Stats!CountFreed, Stats!life, Stats!locks, Stats!history, Stats!histogram, Stats!totals
<1>3. seen' \in [Clients -> Int]
  BY <1>1
  DEF Stats!stats_collector_record_alloc, Stats!stats_collector_record_dealloc, Stats!RecordAlloc, Stats!Total, Stats!LoadSamples,
      Stats!latency_histogram_add, Stats!CountClass, Stats!LoadFirst, Stats!LoadSecond, Stats!LoadPeak, Stats!StorePeak, Stats!RecordDealloc,
      Stats!TotalFreed, Stats!CountFreed, Stats!See
<1>4. class' \in [allocations : Nat, deallocations : Nat, peak : Int]
  BY <1>1
  DEF Stats!stats_collector_record_alloc, Stats!stats_collector_record_dealloc, Stats!RecordAlloc, Stats!Total, Stats!LoadSamples,
      Stats!latency_histogram_add, Stats!CountClass, Stats!LoadFirst, Stats!LoadSecond, Stats!LoadPeak, Stats!StorePeak, Stats!RecordDealloc,
      Stats!TotalFreed, Stats!CountFreed
<1>5. {allocated', freed', samples', count', resets', calls'} \subseteq Nat
  BY <1>1
  DEF Stats!stats_collector_record_alloc, Stats!stats_collector_record_dealloc, Stats!RecordAlloc, Stats!Total, Stats!LoadSamples,
      Stats!latency_histogram_add, Stats!CountClass, Stats!LoadFirst, Stats!LoadSecond, Stats!LoadPeak, Stats!StorePeak, Stats!RecordDealloc,
      Stats!TotalFreed, Stats!CountFreed, Stats!At, Stats!totals, Stats!histogram, Stats!history, Stats!client
<1>6. blocks' \in [Clients -> Nat]
  BY <1>1
  DEF Stats!stats_collector_record_alloc, Stats!stats_collector_record_dealloc, Stats!RecordAlloc, Stats!Total, Stats!LoadSamples,
      Stats!latency_histogram_add, Stats!CountClass, Stats!LoadFirst, Stats!LoadSecond, Stats!LoadPeak, Stats!StorePeak, Stats!RecordDealloc,
      Stats!TotalFreed, Stats!CountFreed, Stats!client
<1> QED BY <1>0, <1>2, <1>3, <1>4, <1>5, <1>6, Zenon DEF Stats!TypeOK, Stats!history, Stats!locks

\* The recording threads: they take no lock and only move their own values and
\* the totals, upwards.
LEMMA RecordKeeps ==
  ASSUME StatsInv, NEW t \in Clients,
         Stats!stats_collector_record_alloc(t) \/ Stats!stats_collector_record_dealloc(t)
  PROVE  StatsInv'
<1>0. Stats!TypeOK /\ place \in [Clients -> StatsLocations] /\ UpdateInv /\ Stats!TypeOK'
  BY RecordTypes DEF StatsInv
<1>1. /\ {allocated, freed, samples, count, resets, calls} \subseteq Nat
      /\ seen \in [Clients -> Int] /\ class \in [allocations : Nat, deallocations : Nat, peak : Int]
  BY <1>0 DEF Stats!TypeOK
<1>2. ~stopped /\ place[t] \in Recording \union {"idle"}
  BY Zenon DEF Stats!stats_collector_record_alloc, Stats!stats_collector_record_dealloc, Stats!RecordAlloc, Stats!Total, Stats!LoadSamples,
      Stats!latency_histogram_add, Stats!CountClass, Stats!LoadFirst, Stats!LoadSecond, Stats!LoadPeak, Stats!StorePeak, Stats!RecordDealloc,
      Stats!TotalFreed, Stats!CountFreed, Stats!At, Recording
<1>3. UNCHANGED <<entries, capacity, count, history_lock, resets>>
  BY Zenon DEF Stats!stats_collector_record_alloc, Stats!stats_collector_record_dealloc, Stats!RecordAlloc, Stats!Total, Stats!LoadSamples,
      Stats!latency_histogram_add, Stats!CountClass, Stats!LoadFirst, Stats!LoadSecond, Stats!LoadPeak, Stats!StorePeak, Stats!RecordDealloc,
      Stats!TotalFreed, Stats!CountFreed, Stats!history, Stats!locks, Stats!client
<1>4. allocated' >= allocated /\ freed' >= freed
  BY <1>1 DEF Stats!stats_collector_record_alloc, Stats!stats_collector_record_dealloc, Stats!RecordAlloc, Stats!Total, Stats!LoadSamples,
      Stats!latency_histogram_add, Stats!CountClass, Stats!LoadFirst, Stats!LoadSecond, Stats!LoadPeak, Stats!StorePeak, Stats!RecordDealloc,
      Stats!TotalFreed, Stats!CountFreed, Stats!totals
<1>5. \A u \in Clients : u # t => seen'[u] = seen[u]
  BY <1>1 DEF Stats!stats_collector_record_alloc, Stats!stats_collector_record_dealloc, Stats!RecordAlloc, Stats!Total, Stats!LoadSamples,
      Stats!latency_histogram_add, Stats!CountClass, Stats!LoadFirst, Stats!LoadSecond, Stats!LoadPeak, Stats!StorePeak, Stats!RecordDealloc,
      Stats!TotalFreed, Stats!CountFreed, Stats!See
<1>6. \E l \in Recording \union {"idle"} :
        place' = [place EXCEPT ![t] = l] /\ (l = "add" => seen'[t] \in Nat)
  <2>1. CASE Stats!LoadSamples(t) /\ bucket_size_set
    BY <1>0, <1>1, <2>1 DEF Stats!LoadSamples, Stats!Goto, Stats!See, Recording
  <2>2. CASE UNCHANGED place /\ place[t] # "add"
    BY <1>0, <1>2, <2>2
  <2>3. ASSUME NEW l \in (Recording \union {"idle"}) \ {"add"}, place' = [place EXCEPT ![t] = l]
        PROVE  \E k \in Recording \union {"idle"} :
                 place' = [place EXCEPT ![t] = k] /\ (k = "add" => seen'[t] \in Nat)
    BY <2>3
  <2>4. \/ Stats!LoadSamples(t) /\ bucket_size_set
        \/ UNCHANGED place /\ place[t] # "add"
        \/ \E l \in (Recording \union {"idle"}) \ {"add"} : place' = [place EXCEPT ![t] = l]
    BY DEF Stats!stats_collector_record_alloc, Stats!stats_collector_record_dealloc, Stats!RecordAlloc, Stats!Total, Stats!LoadSamples,
        Stats!latency_histogram_add, Stats!CountClass, Stats!LoadFirst, Stats!LoadSecond, Stats!LoadPeak, Stats!StorePeak, Stats!RecordDealloc,
        Stats!TotalFreed, Stats!CountFreed, Stats!Goto, Stats!At, Recording
  <2> QED BY <2>1, <2>2, <2>3, <2>4
<1>7. PICK l \in Recording \union {"idle"} :
        place' = [place EXCEPT ![t] = l] /\ (l = "add" => seen'[t] \in Nat)
  BY <1>6
<1>8. l \in StatsLocations \ Updating /\ place[t] \in StatsLocations \ Updating /\ l \notin Resetting
  BY <1>2, <1>7, Apart
<1>9. resets' >= resets
  BY <1>1, <1>3
<1> QED BY <1>0, <1>2, <1>3, <1>4, <1>5, <1>7, <1>8, <1>9, Beside

\* A reset: by then resets is above 0, and the history keeps its lock.
LEMMA ResetKeeps ==
  ASSUME StatsInv, NEW t \in Clients, Stats!stats_collector_reset(t)
  PROVE  StatsInv'
<1>0. Stats!TypeOK /\ place \in [Clients -> StatsLocations] /\ UpdateInv /\ OrderInv
  BY DEF StatsInv
<1>1. /\ {allocated, freed, samples, count, resets, calls} \subseteq Nat
      /\ seen \in [Clients -> Int] /\ class \in [allocations : Nat, deallocations : Nat, peak : Int]
  BY <1>0 DEF Stats!TypeOK
<1>2. ~stopped /\ place[t] \in Resetting \union {"idle"} /\ UNCHANGED <<entries, capacity, history_lock, seen, blocks, calls, Stats!life>>
  BY Zenon DEF Stats!stats_collector_reset, Stats!ResetLock, Stats!ResetTotals, Stats!latency_histogram_init, Stats!size_class_stats_init,
       Stats!ResetCount, Stats!ResetStep, Stats!At, Resetting, Stats!history, Stats!client
<1>3. resets' = resets + 1 \/ (resets' = resets /\ place[t] \in Resetting)
  BY DEF Stats!stats_collector_reset, Stats!ResetLock, Stats!ResetTotals, Stats!latency_histogram_init, Stats!size_class_stats_init,
       Stats!ResetCount, Stats!ResetStep, Stats!At, Resetting, Stats!client
<1>4. resets' # 0 /\ resets' \in Nat /\ resets' >= resets
  BY <1>0, <1>1, <1>3 DEF OrderInv
<1>5. count' = count \/ (count' = 0 /\ resets # 0)
  <2>1. count' = count \/ (count' = 0 /\ place[t] \in Resetting)
    BY Zenon DEF Stats!stats_collector_reset, Stats!ResetLock, Stats!ResetTotals, Stats!latency_histogram_init, Stats!size_class_stats_init,
         Stats!ResetCount, Stats!ResetStep, Stats!At, Resetting, Stats!history
  <2> QED BY <1>0, <2>1 DEF OrderInv
<1>6. PICK l \in Resetting \union {"idle"} : place' = [place EXCEPT ![t] = l]
  BY DEF Stats!stats_collector_reset, Stats!ResetLock, Stats!ResetTotals, Stats!latency_histogram_init, Stats!size_class_stats_init,
       Stats!ResetCount, Stats!ResetStep, Stats!Goto, Resetting
<1>7. l \in StatsLocations \ Updating /\ place[t] \in StatsLocations \ Updating /\ l # "add"
  BY <1>2, <1>6, Apart
<1>8. Stats!TypeOK'
  <2>1. {allocated', freed', samples', count', resets', calls'} \subseteq Nat
    BY <1>1, <1>2, <1>4
    DEF Stats!stats_collector_reset, Stats!ResetLock, Stats!ResetTotals, Stats!latency_histogram_init, Stats!size_class_stats_init,
        Stats!ResetCount, Stats!ResetStep, Stats!totals, Stats!histogram, Stats!history, Stats!client
  <2>2. class' \in [allocations : Nat, deallocations : Nat, peak : Int]
    BY <1>1 DEF Stats!stats_collector_reset, Stats!ResetLock, Stats!ResetTotals, Stats!latency_histogram_init, Stats!size_class_stats_init,
        Stats!ResetCount
  <2>3. global_lock' \in Clients \union {NULL}
    <3>1. global_lock' \in {global_lock, t, NULL}
      BY Zenon DEF Stats!stats_collector_reset, Stats!ResetLock, Stats!ResetTotals, Stats!latency_histogram_init, Stats!size_class_stats_init,
           Stats!ResetCount
    <3> QED BY <1>0, <3>1 DEF Stats!TypeOK
  <2>4. bucket_size_set' \in BOOLEAN
    <3>1. bucket_size_set \in BOOLEAN
      BY <1>0 DEF Stats!TypeOK
    <3> QED BY <3>1, Zenon DEF Stats!stats_collector_reset, Stats!ResetLock, Stats!ResetTotals, Stats!latency_histogram_init,
                Stats!size_class_stats_init, Stats!ResetCount, Stats!histogram
  <2> QED BY <1>0, <1>2, <2>1, <2>2, <2>3, <2>4, Zenon DEF Stats!TypeOK, Stats!life
<1> QED BY <1>0, <1>2, <1>4, <1>5, <1>6, <1>7, <1>8, Beside

\* Starting empties the history while nobody is in it; a switch and a shutdown
\* leave it alone.
LEMMA StatsLifecycleKeeps ==
  ASSUME StatsInv,
         Stats!stats_collector_init \/ Stats!stats_collector_enable \/ Stats!stats_collector_disable
           \/ Stats!stats_collector_shutdown
  PROVE  StatsInv'
<1>0. Stats!TypeOK /\ place \in [Clients -> StatsLocations] /\ UpdateInv /\ OrderInv
  BY DEF StatsInv
<1>1. CASE Stats!stats_collector_init
  <2>1. /\ entries' \in [1 .. Capacity -> Stats!Entry] /\ count' = 0 /\ capacity' = Capacity
        /\ {allocated', freed', samples', count', resets', calls'} \subseteq Nat
        /\ class' \in [allocations : Nat, deallocations : Nat, peak : Int]
    BY <1>0, <1>1 DEF Stats!stats_collector_init, Stats!TypeOK, Stats!Entry, Stats!NoEntry, Stats!NoCounts, Stats!client
  <2>2. {initialized', collecting', stopped', bucket_size_set'} \subseteq BOOLEAN
    BY <1>0, <1>1, Zenon DEF Stats!stats_collector_init, Stats!TypeOK
  <2>3. {history_lock', global_lock'} \subseteq Clients \union {NULL}
    BY <1>1 DEF Stats!stats_collector_init
  <2>4. Stats!TypeOK'
    BY <1>0, <1>1, <2>1, <2>2, <2>3, Zenon DEF Stats!stats_collector_init, Stats!TypeOK, Stats!client
  <2>5. place' = place /\ \A t \in Clients : place[t] = "idle"
    BY <1>1 DEF Stats!stats_collector_init
  <2>6. \A t \in Clients : place'[t] \notin Updating /\ place'[t] \notin Resetting /\ place'[t] # "add"
    BY <2>5 DEF Updating, Checked, Writing, Resetting
  <2>7. UpdateInv'
    BY <1>0, <2>1, <2>6, Apart, StatsConstants DEF UpdateInv
  <2>8. OrderInv'
    BY <2>1, <2>6, Apart DEF OrderInv, Ordered
  <2> QED BY <1>0, <2>4, <2>5, <2>7, <2>8 DEF StatsInv
<1>2. ASSUME UNCHANGED <<stopped, Stats!totals, Stats!histogram, class, Stats!history, history_lock, place, seen, Stats!client>>,
             {initialized', collecting'} \subseteq BOOLEAN, global_lock' = global_lock
      PROVE  StatsInv'
  <2>1. Stats!TypeOK'
    <3>1. {initialized', collecting', stopped', bucket_size_set'} \subseteq BOOLEAN
      BY <1>0, <1>2, Zenon DEF Stats!TypeOK, Stats!histogram
    <3> QED BY <1>0, <1>2, <3>1, Zenon DEF Stats!TypeOK, Stats!totals, Stats!histogram, Stats!history, Stats!client
  <2>2. UpdateInv'
    BY <1>0, <1>2 DEF UpdateInv, Stats!history
  <2>3. OrderInv'
    BY <1>0, <1>2, Zenon DEF OrderInv, Ordered, Stats!history, Stats!totals, Stats!client
  <2> QED BY <1>0, <1>2, <2>1, <2>2, <2>3 DEF StatsInv
<1>3. CASE Stats!stats_collector_enable \/ Stats!stats_collector_disable \/ Stats!stats_collector_shutdown
  <2>1. {initialized', collecting'} \subseteq BOOLEAN
    BY <1>0, <1>3, Zenon DEF Stats!stats_collector_enable, Stats!stats_collector_disable, Stats!stats_collector_shutdown,
                             Stats!Switch, Stats!TypeOK
  <2> QED BY <1>2, <1>3, <2>1, Zenon
          DEF Stats!stats_collector_enable, Stats!stats_collector_disable, Stats!stats_collector_shutdown, Stats!Switch, Stats!locks
<1> QED BY <1>1, <1>3

\* Only the holder of the history's lock is in its update.
LEMMA OneUpdate ==
  ASSUME StatsInv, NEW t \in Clients, place[t] \in Updating \/ history_lock = NULL
  PROVE  \A u \in Clients \ {t} : place[u] \notin Updating
  BY StatsConstants DEF StatsInv, UpdateInv

\* A step of the only thread that is in the update.
LEMMA Inside ==
  ASSUME StatsInv, Stats!TypeOK', NEW t \in Clients, NEW l \in Updating \union {"idle"},
         \A u \in Clients \ {t} : place[u] \notin Updating,
         place' = [place EXCEPT ![t] = l],
         \A u \in Clients \ {t} : seen'[u] = seen[u],
         UNCHANGED <<capacity, resets>>,
         count' > 0 => capacity = Capacity,
         count' <= Capacity,
         l \in Updating => history_lock' = t,
         l \in Checked => stopped' \/ capacity = Capacity,
         l = "load_count" => stopped' \/ count' < Capacity,
         l \in {"store_count"} \union Writing => seen'[t] \in 0 .. Capacity - 1,
         resets = 0 =>
           /\ l \notin Writing => Ordered(count)'
           /\ l = "shift" => stopped' \/ count' = Capacity
           /\ l = "store_count" => seen'[t] = count'
           /\ l \in Writing => count' = seen'[t] + 1 /\ Ordered(seen[t])'
           /\ l = "entry_freed" =>
                /\ entries'[seen'[t] + 1].allocated <= allocated'
                /\ \A i \in 1 .. seen'[t] : entries'[i].allocated <= entries'[seen'[t] + 1].allocated
  PROVE  StatsInv'
<1>0. Stats!TypeOK /\ place \in [Clients -> StatsLocations] /\ UpdateInv /\ OrderInv
  BY DEF StatsInv
<1>1. l \in StatsLocations /\ l \notin Resetting /\ l # "add"
  BY Apart
<1>2. place' \in [Clients -> StatsLocations]
  BY <1>0, <1>1
<1>3. place'[t] = l /\ \A u \in Clients \ {t} : place'[u] = place[u] /\ place'[u] \notin Updating
  BY <1>0
<1>4. UpdateInv'
  BY <1>0, <1>1, <1>3, Apart DEF UpdateInv
<1>5. OrderInv'
  <2>1. \A u \in Clients \ {t} : place'[u] \notin {"shift", "store_count", "entry_freed"} \union Writing
    BY <1>3 DEF Updating, Checked, Writing
  <2> QED BY <1>0, <1>1, <1>3, <2>1, Apart DEF OrderInv
<1> QED BY <1>2, <1>4, <1>5 DEF StatsInv

\* The lock is taken while nobody is in the update.
LEMMA LockHistoryKeeps ==
  ASSUME StatsInv, NEW t \in Clients, Stats!LockHistory(t)
  PROVE  StatsInv'
<1>0. Stats!TypeOK /\ place \in [Clients -> StatsLocations] /\ UpdateInv /\ OrderInv
  BY DEF StatsInv
<1>1. history_lock = NULL /\ history_lock' = t /\ place' = [place EXCEPT ![t] = "check"] /\ place[t] = "idle"
      /\ UNCHANGED <<Stats!life, Stats!totals, Stats!histogram, class, Stats!history, global_lock, seen, Stats!client>>
  BY DEF Stats!LockHistory, Stats!Goto, Stats!At
<1>2. \A u \in Clients \ {t} : place[u] \notin Updating
  BY <1>1, OneUpdate
<1>3. Stats!TypeOK'
  <2>1. {history_lock', global_lock'} \subseteq Clients \union {NULL}
    BY <1>0, <1>1 DEF Stats!TypeOK
  <2> QED BY <1>0, <1>1, <2>1, Zenon DEF Stats!TypeOK, Stats!life, Stats!totals, Stats!histogram, Stats!history, Stats!client
<1>4. "check" \in Updating /\ "check" # "shift" /\ "check" \notin Checked /\ "check" \notin Writing
  BY DEF Updating, Checked, Writing
<1>5. Ordered(count) <=> Ordered(count)'
  BY <1>1, Zenon DEF Ordered, Stats!totals, Stats!history
<1>6. resets = 0 => Ordered(count)'
  <2>1. \A u \in Clients : place[u] \notin Writing
    BY <1>1, <1>2, Apart DEF Writing
  <2> QED BY <1>0, <1>5, <2>1 DEF OrderInv
<1>7. count' <= Capacity /\ (count' > 0 => capacity = Capacity) /\ UNCHANGED <<capacity, resets>>
  BY <1>0, <1>1 DEF UpdateInv, Stats!history, Stats!client
<1> QED BY <1>1, <1>2, <1>3, <1>4, <1>6, <1>7, Inside

\* A full history is shifted, an other one is appended to; without a capacity the
\* update goes no further.
LEMMA CheckFullKeeps ==
  ASSUME StatsInv, NEW t \in Clients, Stats!CheckFull(t)
  PROVE  StatsInv'
<1>0. Stats!TypeOK /\ place \in [Clients -> StatsLocations] /\ UpdateInv /\ OrderInv
  BY DEF StatsInv
<1> DEFINE l == IF count >= capacity THEN "shift" ELSE "load_count"
<1>1. /\ place[t] = "check" /\ place' = [place EXCEPT ![t] = l]
      /\ stopped' = (count >= capacity /\ capacity = 0)
      /\ UNCHANGED <<initialized, collecting, Stats!totals, Stats!histogram, class, Stats!history, Stats!locks, seen, Stats!client>>
  BY DEF Stats!CheckFull, Stats!Goto, Stats!At
<1>2. place[t] \in Updating /\ place[t] \notin Writing
  BY <1>1 DEF Updating, Checked, Writing
<1>3. \A u \in Clients \ {t} : place[u] \notin Updating
  BY <1>2, OneUpdate
<1>4. Stats!TypeOK'
  <2>1. {initialized', collecting', stopped', bucket_size_set'} \subseteq BOOLEAN
    BY <1>0, <1>1, Zenon DEF Stats!TypeOK, Stats!histogram
  <2> QED BY <1>0, <1>1, <2>1, Zenon DEF Stats!TypeOK, Stats!totals, Stats!histogram, Stats!history, Stats!client, Stats!locks
<1>5. count \in Nat /\ capacity \in {0, Capacity} /\ Capacity \in Nat \ {0}
      /\ count' = count /\ capacity' = capacity /\ history_lock' = history_lock /\ history_lock = t
      /\ resets' = resets /\ seen' = seen
  BY <1>0, <1>1, <1>2, StatsConstants DEF Stats!TypeOK, UpdateInv, Stats!history, Stats!locks, Stats!client
<1>6. l \in Updating /\ l \notin {"store_count"} \union Writing
  BY DEF Updating, Checked, Writing
<1>7. resets = 0 => Ordered(count)'
  <2>1. \A u \in Clients : place[u] \notin Writing
    BY <1>2, <1>3, Apart
  <2>2. Ordered(count) <=> Ordered(count)'
    BY <1>1, Zenon DEF Ordered, Stats!totals, Stats!history
  <2> QED BY <1>0, <2>1, <2>2 DEF OrderInv
<1>8. count' <= Capacity /\ (count' > 0 => capacity = Capacity)
  BY <1>0, <1>5 DEF UpdateInv
<1>9. stopped' \/ capacity = Capacity
  <2>1. CASE count >= capacity /\ capacity = 0
    BY <1>1, <2>1, Zenon
  <2> QED BY <1>5, <2>1
<1>10. (l = "load_count" => count' < Capacity) /\ (l = "shift" => stopped' \/ count' = Capacity)
  <2>1. CASE count >= capacity
    BY <1>0, <1>5, <1>9, <2>1 DEF UpdateInv
  <2> QED BY <1>5, <2>1
<1> HIDE DEF l
<1>11. l # "store_count" /\ l # "entry_freed" /\ l \notin Writing
  BY <1>6 DEF Writing
<1> QED BY <1>1, <1>3, <1>4, <1>5, <1>6, <1>7, <1>8, <1>9, <1>10, <1>11, Inside

\* The oldest entry is dropped and the others move down.
LEMMA ShiftKeeps ==
  ASSUME StatsInv, NEW t \in Clients, Stats!Shift(t)
  PROVE  StatsInv'
<1>0. Stats!TypeOK /\ place \in [Clients -> StatsLocations] /\ UpdateInv /\ OrderInv
  BY DEF StatsInv
<1>1. /\ ~stopped /\ place[t] = "shift" /\ place' = [place EXCEPT ![t] = "load_count"]
      /\ entries' = [i \in DOMAIN entries |-> entries[IF i < Capacity THEN i + 1 ELSE i]]
      /\ count' = capacity - 1
      /\ UNCHANGED <<Stats!life, Stats!totals, Stats!histogram, class, capacity, Stats!locks, seen, Stats!client>>
  BY DEF Stats!Shift, Stats!Goto, Stats!At
<1>2. place[t] \in Updating /\ place[t] \in Checked /\ place[t] \notin Writing
  BY <1>1 DEF Updating, Checked, Writing
<1>3. \A u \in Clients \ {t} : place[u] \notin Updating
  BY <1>2, OneUpdate
<1>4. /\ count \in Nat /\ capacity = Capacity /\ Capacity \in Nat \ {0} /\ history_lock' = t
      /\ resets' = resets /\ seen' = seen /\ count' \in Nat /\ count' < Capacity
      /\ UNCHANGED Stats!totals
  BY <1>0, <1>1, <1>2, StatsConstants DEF Stats!TypeOK, UpdateInv, Stats!locks, Stats!client
<1>5. /\ entries \in [1 .. Capacity -> Stats!Entry]
      /\ entries' = [i \in 1 .. Capacity |-> entries[IF i < Capacity THEN i + 1 ELSE i]]
  BY <1>0, <1>1 DEF Stats!TypeOK
<1>6. entries' \in [1 .. Capacity -> Stats!Entry]
  BY <1>4, <1>5
<1>7. Stats!TypeOK'
  <2>1. {allocated', freed', samples', count', resets', calls'} \subseteq Nat
    BY <1>0, <1>1, <1>4 DEF Stats!TypeOK, Stats!totals, Stats!histogram, Stats!client
  <2>2. {initialized', collecting', stopped', bucket_size_set'} \subseteq BOOLEAN
    BY <1>0, <1>1, Zenon DEF Stats!TypeOK, Stats!life, Stats!histogram
  <2> QED BY <1>0, <1>1, <1>6, <2>1, <2>2, Zenon DEF Stats!TypeOK, Stats!locks, Stats!client
<1>8. resets = 0 => Ordered(count)'
  <2> SUFFICES ASSUME resets = 0 PROVE Ordered(count)'
    OBVIOUS
  <2>1. \A u \in Clients : place[u] \notin Writing
    BY <1>2, <1>3, Apart
  <2>2. Ordered(count) /\ count <= Capacity
    BY <1>0, <2>1 DEF OrderInv, UpdateInv
  <2>3. count = Capacity
    BY <1>0, <1>1 DEF OrderInv
  <2>4. \A i \in 1 .. count' : i + 1 \in 1 .. count /\ entries'[i] = entries[i + 1]
    BY <1>1, <1>4, <1>5, <2>3
  <2>5. UNCHANGED <<allocated, freed>>
    BY <1>4 DEF Stats!totals
  <2>6. ASSUME NEW i \in 1 .. count'
        PROVE  entries'[i].allocated <= allocated' /\ entries'[i].freed <= freed'
    BY <2>2, <2>4, <2>5 DEF Ordered
  <2>7. ASSUME NEW i \in 1 .. count', NEW j \in 1 .. count', i <= j
        PROVE  entries'[i].allocated <= entries'[j].allocated /\ entries'[i].freed <= entries'[j].freed
    <3>1. i + 1 \in 1 .. count /\ j + 1 \in 1 .. count /\ i + 1 <= j + 1
      BY <1>4, <2>4, <2>7
    <3> QED BY <2>2, <2>4, <3>1 DEF Ordered
  <2> QED BY <2>6, <2>7 DEF Ordered
<1>9. "load_count" \in Updating /\ "load_count" \notin {"shift", "store_count", "entry_freed"} \union Writing
  BY DEF Updating, Checked, Writing
<1>10. count' <= Capacity /\ \A u \in Clients \ {t} : seen'[u] = seen[u]
  BY <1>4
<1> QED BY <1>1, <1>3, <1>4, <1>7, <1>8, <1>9, <1>10, Inside

\* The index of the new entry is read from count, and count is set from it.
LEMMA LoadCountKeeps ==
  ASSUME StatsInv, NEW t \in Clients, Stats!LoadCount(t)
  PROVE  StatsInv'
<1>0. Stats!TypeOK /\ place \in [Clients -> StatsLocations] /\ UpdateInv /\ OrderInv
  BY DEF StatsInv
<1>1. /\ ~stopped /\ place[t] = "load_count" /\ place' = [place EXCEPT ![t] = "store_count"]
      /\ seen' = [seen EXCEPT ![t] = count]
      /\ UNCHANGED <<Stats!life, Stats!totals, Stats!histogram, class, Stats!history, Stats!locks, Stats!client>>
  BY DEF Stats!LoadCount, Stats!Goto, Stats!See, Stats!At
<1>2. place[t] \in Updating /\ place[t] \in Checked /\ place[t] \notin Writing
  BY <1>1 DEF Updating, Checked, Writing
<1>3. \A u \in Clients \ {t} : place[u] \notin Updating
  BY <1>2, OneUpdate
<1>4. /\ count \in Nat /\ capacity = Capacity /\ Capacity \in Nat \ {0} /\ history_lock' = t
      /\ resets' = resets /\ count' = count /\ count < Capacity /\ capacity' = capacity
  BY <1>0, <1>1, <1>2, StatsConstants DEF Stats!TypeOK, UpdateInv, Stats!locks, Stats!history, Stats!client
<1>5. seen' \in [Clients -> Int] /\ seen'[t] = count /\ \A u \in Clients \ {t} : seen'[u] = seen[u]
  BY <1>0, <1>1, <1>4 DEF Stats!TypeOK
<1>6. Stats!TypeOK'
  <2>1. {initialized', collecting', stopped', bucket_size_set'} \subseteq BOOLEAN
    BY <1>0, <1>1, Zenon DEF Stats!TypeOK, Stats!life, Stats!histogram
  <2> QED BY <1>0, <1>1, <1>5, <2>1, Zenon DEF Stats!TypeOK, Stats!totals, Stats!histogram, Stats!history, Stats!locks, Stats!client
<1>7. resets = 0 => Ordered(count)'
  <2>1. \A u \in Clients : place[u] \notin Writing
    BY <1>2, <1>3, Apart
  <2>2. Ordered(count) <=> Ordered(count)'
    BY <1>1, Zenon DEF Ordered, Stats!totals, Stats!history
  <2> QED BY <1>0, <2>1, <2>2 DEF OrderInv
<1>8. "store_count" \in Updating /\ "store_count" \notin {"shift", "load_count"} \union Writing
  BY DEF Updating, Checked, Writing
<1>9. count' <= Capacity /\ seen'[t] \in 0 .. Capacity - 1 /\ "store_count" # "entry_freed"
  BY <1>4, <1>5
<1> QED BY <1>1, <1>3, <1>4, <1>5, <1>6, <1>7, <1>8, <1>9, Inside

\* The store of the count keeps the invariant, whatever a reset has done to it.
LEMMA StoreCountKeeps ==
  ASSUME StatsInv, NEW t \in Clients, Stats!StoreCount(t)
  PROVE  StatsInv'
<1>0. Stats!TypeOK /\ place \in [Clients -> StatsLocations] /\ UpdateInv /\ OrderInv
  BY DEF StatsInv
<1>1. /\ ~stopped /\ place[t] = "store_count" /\ place' = [place EXCEPT ![t] = "entry_allocated"]
      /\ count' = seen[t] + 1
      /\ UNCHANGED <<Stats!life, Stats!totals, Stats!histogram, class, entries, capacity, Stats!locks, seen, Stats!client>>
  BY DEF Stats!StoreCount, Stats!Goto, Stats!At
<1>2. place[t] \in Updating /\ place[t] \in Checked /\ place[t] \notin Writing
  BY <1>1 DEF Updating, Checked, Writing
<1>3. \A u \in Clients \ {t} : place[u] \notin Updating
  BY <1>2, OneUpdate
<1>4. /\ capacity = Capacity /\ Capacity \in Nat \ {0} /\ history_lock' = t /\ resets' = resets
      /\ seen' = seen /\ seen[t] \in 0 .. Capacity - 1 /\ capacity' = capacity
      /\ count' \in 1 .. Capacity
  BY <1>0, <1>1, <1>2, StatsConstants DEF Stats!TypeOK, UpdateInv, Stats!locks, Stats!client
<1>5. Stats!TypeOK'
  <2>1. {initialized', collecting', stopped', bucket_size_set'} \subseteq BOOLEAN
    BY <1>0, <1>1, Zenon DEF Stats!TypeOK, Stats!life, Stats!histogram
  <2>2. {allocated', freed', samples', count', resets', calls'} \subseteq Nat
    BY <1>0, <1>1, <1>4 DEF Stats!TypeOK, Stats!totals, Stats!histogram, Stats!client
  <2> QED BY <1>0, <1>1, <2>1, <2>2, Zenon DEF Stats!TypeOK, Stats!locks, Stats!client
<1>6. resets = 0 => Ordered(seen[t])'
  <2>1. \A u \in Clients : place[u] \notin Writing
    BY <1>2, <1>3, Apart
  <2>2. Ordered(seen[t]) <=> Ordered(seen[t])'
    BY <1>1, Zenon DEF Ordered, Stats!totals
  <2> QED BY <1>0, <1>1, <2>1, <2>2 DEF OrderInv
<1>7. /\ "entry_allocated" \in Updating /\ "entry_allocated" \in Writing
      /\ "entry_allocated" \notin {"shift", "load_count", "store_count", "entry_freed"}
  BY DEF Updating, Checked, Writing
<1>8. count' <= Capacity /\ seen'[t] \in 0 .. Capacity - 1 /\ count' = seen'[t] + 1
      /\ \A u \in Clients \ {t} : seen'[u] = seen[u]
  BY <1>1, <1>4
<1> QED BY <1>1, <1>3, <1>4, <1>5, <1>6, <1>7, <1>8, Inside

\* A write of the update is within the array and leaves the other entries alone.
LEMMA WriteInside ==
  ASSUME StatsInv, NEW t \in Clients, place[t] \in Writing, NEW entry \in Stats!Entry, Stats!Write(t, entry)
  PROVE  /\ stopped' = stopped /\ entries' \in [1 .. Capacity -> Stats!Entry]
         /\ entries'[seen[t] + 1] = entry
         /\ \A i \in 1 .. seen[t] : entries'[i] = entries[i]
<1>1. seen[t] \in 0 .. Capacity - 1 /\ Capacity \in Nat \ {0} /\ entries \in [1 .. Capacity -> Stats!Entry]
  BY StatsConstants DEF StatsInv, Stats!TypeOK, UpdateInv
<1>2. seen[t] < Capacity /\ seen[t] + 1 \in 1 .. Capacity
  BY <1>1
<1>3. entries' = [entries EXCEPT ![seen[t] + 1] = entry] /\ stopped' = stopped
  BY <1>2, Zenon DEF Stats!Write
<1> QED BY <1>1, <1>2, <1>3

\* Its two halves are the totals of two moments; the history is not below either.
LEMMA EntryAllocatedKeeps ==
  ASSUME StatsInv, NEW t \in Clients, Stats!EntryAllocated(t)
  PROVE  StatsInv'
<1>0. Stats!TypeOK /\ place \in [Clients -> StatsLocations] /\ UpdateInv /\ OrderInv
  BY DEF StatsInv
<1> DEFINE e == [allocated |-> allocated, freed |-> entries[seen[t] + 1].freed]
<1>1. /\ ~stopped /\ place[t] = "entry_allocated" /\ place' = [place EXCEPT ![t] = "entry_freed"] /\ Stats!Write(t, e)
      /\ UNCHANGED <<initialized, collecting, Stats!totals, Stats!histogram, class, count, capacity, Stats!locks, seen, Stats!client>>
  BY DEF Stats!EntryAllocated, Stats!Goto, Stats!At
<1>2. place[t] \in Updating /\ place[t] \in Checked /\ place[t] \in Writing
  BY <1>1 DEF Updating, Checked, Writing
<1>3. \A u \in Clients \ {t} : place[u] \notin Updating
  BY <1>2, OneUpdate
<1>4. /\ capacity = Capacity /\ Capacity \in Nat \ {0} /\ history_lock' = t /\ resets' = resets
      /\ seen' = seen /\ seen[t] \in 0 .. Capacity - 1 /\ capacity' = capacity /\ count' = count
      /\ count <= Capacity /\ allocated \in Nat /\ UNCHANGED Stats!totals
      /\ entries \in [1 .. Capacity -> Stats!Entry]
  BY <1>0, <1>1, <1>2, StatsConstants DEF Stats!TypeOK, UpdateInv, Stats!locks, Stats!client
<1>5. entries[seen[t] + 1] \in Stats!Entry /\ e \in Stats!Entry /\ e.allocated = allocated
  BY <1>4 DEF Stats!Entry
<1>6. /\ stopped' = stopped /\ entries' \in [1 .. Capacity -> Stats!Entry] /\ entries'[seen[t] + 1] = e
      /\ \A i \in 1 .. seen[t] : entries'[i] = entries[i]
  BY <1>1, <1>2, <1>5, WriteInside
<1>7. Stats!TypeOK'
  <2>1. {initialized', collecting', stopped', bucket_size_set'} \subseteq BOOLEAN
    BY <1>0, <1>1, <1>6, Zenon DEF Stats!TypeOK, Stats!histogram
  <2> QED BY <1>0, <1>1, <1>6, <2>1, Zenon DEF Stats!TypeOK, Stats!totals, Stats!histogram, Stats!locks, Stats!client
<1>8. resets = 0 =>
        /\ count' = seen'[t] + 1 /\ Ordered(seen[t])'
        /\ entries'[seen'[t] + 1].allocated <= allocated'
        /\ \A i \in 1 .. seen'[t] : entries'[i].allocated <= entries'[seen'[t] + 1].allocated
  <2> SUFFICES ASSUME resets = 0
               PROVE  /\ count' = seen'[t] + 1 /\ Ordered(seen[t])'
                      /\ entries'[seen'[t] + 1].allocated <= allocated'
                      /\ \A i \in 1 .. seen'[t] :
                           entries'[i].allocated <= entries'[seen'[t] + 1].allocated
    OBVIOUS
  <2>1. count = seen[t] + 1 /\ Ordered(seen[t])
    BY <1>0, <1>2 DEF OrderInv
  <2>2. allocated' = allocated /\ freed' = freed
    BY <1>4 DEF Stats!totals
  <2>3. Ordered(seen[t])'
    BY <1>4, <1>6, <2>1, <2>2 DEF Ordered
  <2>4. entries'[seen'[t] + 1].allocated = allocated
    BY <1>4, <1>5, <1>6
  <2>5. \A i \in 1 .. seen'[t] : entries'[i].allocated <= allocated
    BY <1>4, <1>6, <2>1 DEF Ordered
  <2> QED BY <1>4, <2>1, <2>2, <2>3, <2>4, <2>5
<1>9. /\ "entry_freed" \in Updating /\ "entry_freed" \in Writing
      /\ "entry_freed" \notin {"shift", "load_count", "store_count"}
  BY DEF Updating, Checked, Writing
<1>10. count' <= Capacity /\ seen'[t] \in 0 .. Capacity - 1 /\ \A u \in Clients \ {t} : seen'[u] = seen[u]
  BY <1>4
<1> HIDE DEF e
<1> QED BY <1>1, <1>3, <1>4, <1>7, <1>8, <1>9, <1>10, Inside

\* The last field of an entry puts it in order with the others.
LEMMA EntryFreedKeeps ==
  ASSUME StatsInv, NEW t \in Clients, Stats!EntryFreed(t)
  PROVE  StatsInv'
<1>0. Stats!TypeOK /\ place \in [Clients -> StatsLocations] /\ UpdateInv /\ OrderInv
  BY DEF StatsInv
<1> DEFINE e == [allocated |-> entries[seen[t] + 1].allocated, freed |-> freed]
<1>1. /\ ~stopped /\ place[t] = "entry_freed" /\ place' = [place EXCEPT ![t] = "idle"] /\ Stats!Write(t, e)
      /\ history_lock' = NULL /\ seen' = [seen EXCEPT ![t] = 0]
      /\ UNCHANGED <<initialized, collecting, Stats!totals, Stats!histogram, class, count, capacity, global_lock, Stats!client>>
  BY DEF Stats!EntryFreed, Stats!Goto, Stats!See, Stats!At
<1>2. place[t] \in Updating /\ place[t] \in Checked /\ place[t] \in Writing
  BY <1>1 DEF Updating, Checked, Writing
<1>3. \A u \in Clients \ {t} : place[u] \notin Updating
  BY <1>2, OneUpdate
<1>4. /\ capacity = Capacity /\ Capacity \in Nat \ {0} /\ resets' = resets
      /\ seen' \in [Clients -> Int] /\ seen[t] \in 0 .. Capacity - 1 /\ capacity' = capacity /\ count' = count
      /\ count <= Capacity /\ freed \in Nat /\ UNCHANGED Stats!totals
      /\ entries \in [1 .. Capacity -> Stats!Entry]
  BY <1>0, <1>1, <1>2, StatsConstants DEF Stats!TypeOK, UpdateInv, Stats!locks, Stats!client
<1>5. entries[seen[t] + 1] \in Stats!Entry /\ e \in Stats!Entry
      /\ e.freed = freed /\ e.allocated = entries[seen[t] + 1].allocated
  BY <1>4 DEF Stats!Entry
<1>6. /\ stopped' = stopped /\ entries' \in [1 .. Capacity -> Stats!Entry] /\ entries'[seen[t] + 1] = e
      /\ \A i \in 1 .. seen[t] : entries'[i] = entries[i]
  BY <1>1, <1>2, <1>5, WriteInside
<1>7. Stats!TypeOK'
  <2>1. {initialized', collecting', stopped', bucket_size_set'} \subseteq BOOLEAN
    BY <1>0, <1>1, <1>6, Zenon DEF Stats!TypeOK, Stats!histogram
  <2>2. {history_lock', global_lock'} \subseteq Clients \union {NULL}
    BY <1>0, <1>1 DEF Stats!TypeOK
  <2> QED BY <1>0, <1>1, <1>4, <1>6, <2>1, <2>2, Zenon DEF Stats!TypeOK, Stats!totals, Stats!histogram, Stats!client
<1>8. resets = 0 => Ordered(count)'
  <2> SUFFICES ASSUME resets = 0 PROVE Ordered(count)'
    OBVIOUS
  <2>1. count' = seen[t] + 1 /\ Ordered(seen[t])
    BY <1>0, <1>2, <1>4 DEF OrderInv
  <2>2. /\ entries[seen[t] + 1].allocated <= allocated
        /\ \A i \in 1 .. seen[t] : entries[i].allocated <= entries[seen[t] + 1].allocated
    BY <1>0, <1>1 DEF OrderInv
  <2>3. allocated' = allocated /\ freed' = freed
    BY <1>4 DEF Stats!totals
  <2>4. \A i \in 1 .. seen[t] : entries'[i].allocated <= allocated' /\ entries'[i].freed <= freed'
    BY <1>6, <2>1, <2>3 DEF Ordered
  <2>5. entries'[count'].allocated <= allocated' /\ entries'[count'].freed <= freed'
    BY <1>4, <1>5, <1>6, <2>1, <2>2, <2>3
  <2>6. \A i \in 1 .. seen[t] : /\ entries'[i].allocated <= entries'[count'].allocated
                               /\ entries'[i].freed <= entries'[count'].freed
    <3>1. entries'[count'].allocated = entries[seen[t] + 1].allocated /\ entries'[count'].freed = freed
      BY <1>5, <1>6, <2>1
    <3> QED BY <1>6, <2>1, <2>2, <3>1 DEF Ordered
  <2>7. \A i \in 1 .. count' : i \in 1 .. seen[t] \/ i = count'
    BY <1>4, <2>1
  <2>8. ASSUME NEW i \in 1 .. count', NEW j \in 1 .. count', i <= j
        PROVE  entries'[i].allocated <= entries'[j].allocated /\ entries'[i].freed <= entries'[j].freed
    <3>1. CASE i \in 1 .. seen[t] /\ j = count'
      BY <2>6, <3>1
    <3>2. CASE i = j
      <4>1. entries'[i].allocated \in Nat /\ entries'[i].freed \in Nat
        <5>1. i \in 1 .. Capacity
          BY <1>4, <2>1
        <5>2. entries'[i] \in Stats!Entry
          BY <1>6, <5>1
        <5> QED BY <5>2 DEF Stats!Entry
      <4> QED BY <3>2, <4>1
    <3>3. CASE i \in 1 .. seen[t] /\ j \in 1 .. seen[t]
      BY <1>6, <2>1, <2>8, <3>3 DEF Ordered
    <3> QED BY <1>4, <1>5, <2>1, <2>8, <3>1, <3>2, <3>3
  <2> QED BY <2>4, <2>5, <2>7, <2>8 DEF Ordered
<1>9. "idle" \notin Updating /\ "idle" \notin Checked \union Writing
  BY DEF Updating, Checked, Writing
<1>10. count' <= Capacity /\ \A u \in Clients \ {t} : seen'[u] = seen[u]
  BY <1>0, <1>1, <1>4 DEF Stats!TypeOK
<1>11. "idle" \notin {"shift", "load_count", "store_count", "entry_freed"}
  OBVIOUS
<1> HIDE DEF e
<1> QED BY <1>1, <1>3, <1>4, <1>7, <1>8, <1>9, <1>10, <1>11, Inside

-----------------------------------------------------------------------------

\* Every step keeps the invariant.
LEMMA StatsStep == StatsInv /\ [Stats!Next]_(Stats!vars) => StatsInv'
<1> SUFFICES ASSUME StatsInv, [Stats!Next]_(Stats!vars) PROVE StatsInv'
  OBVIOUS
<1>1. CASE UNCHANGED Stats!vars
  <2>1. UNCHANGED <<Stats!life, Stats!totals, Stats!histogram, class, Stats!history, Stats!locks, place, seen, Stats!client>>
    BY <1>1 DEF Stats!vars
  <2>2. Stats!TypeOK'
    BY <2>1, Zenon DEF StatsInv, Stats!TypeOK, Stats!life, Stats!totals, Stats!histogram, Stats!history, Stats!locks, Stats!client
  <2>3. UpdateInv'
    BY <2>1 DEF StatsInv, UpdateInv, Stats!life, Stats!history, Stats!locks
  <2>4. OrderInv'
    BY <2>1, Zenon DEF StatsInv, OrderInv, Ordered, Stats!life, Stats!totals, Stats!history, Stats!client
  <2> QED BY <2>1, <2>2, <2>3, <2>4 DEF StatsInv
<1>2. CASE \/ Stats!stats_collector_init \/ Stats!stats_collector_enable \/ Stats!stats_collector_disable
           \/ Stats!stats_collector_shutdown
  BY <1>2, StatsLifecycleKeeps
<1>3. ASSUME NEW t \in Clients,
             \/ Stats!stats_collector_record_alloc(t) \/ Stats!stats_collector_record_dealloc(t)
             \/ Stats!stats_collector_update_history(t) \/ Stats!stats_collector_reset(t)
      PROVE  StatsInv'
  BY <1>3, RecordKeeps, ResetKeeps, LockHistoryKeeps, CheckFullKeeps, ShiftKeeps, LoadCountKeeps,
     StoreCountKeeps, EntryAllocatedKeeps, EntryFreedKeeps
  DEF Stats!stats_collector_update_history
<1> QED BY <1>1, <1>2, <1>3 DEF Stats!Next

\* So it holds in every reachable state.
LEMMA StatsCorrect == Stats!Spec => []StatsInv
  BY StatsInit, StatsStep, PTL DEF Stats!Spec

\* The history keeps within its array for any capacity, whatever resets come
\* between the test of count, its two stores and the writes of the entry.
THEOREM HistoryIsBounded == Stats!Spec => []HistoryBounded
<1>1. StatsInv => HistoryBounded
  BY StatsConstants DEF StatsInv, UpdateInv, HistoryBounded, Stats!HistoryBounded, Stats!TypeOK, Writing
<1> QED BY <1>1, StatsCorrect, PTL

\* Until a reset the history never shows the totals falling, although each entry
\* is made of two reads and other threads record between them.
THEOREM HistoryIsInOrder == Stats!Spec => []HistoryInOrder
<1>1. StatsInv => HistoryInOrder
  <2> SUFFICES ASSUME StatsInv, resets = 0, history_lock = NULL PROVE Ordered(count)
    BY DEF HistoryInOrder, Stats!HistoryInOrder, Ordered
  <2>1. \A t \in Clients : place[t] \notin Writing
    BY Apart, StatsConstants DEF StatsInv, UpdateInv
  <2> QED BY <2>1 DEF StatsInv, OrderInv
<1> QED BY <1>1, StatsCorrect, PTL
=============================================================================
