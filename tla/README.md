# nomalloc in TLA+

A verification development of nomalloc (`src/`), a C library that replaces
malloc. It holds TLA+ modules of the library's components, TLC configurations
that check them on small instances, and proofs, checked by TLAPS, of what holds
for every instance.

## 1. The system

All paths are below `src/src/`. What `malloc` really runs is small: the entry
points of `api/posix_api.c` call `core/allocator.c`, which takes every block
from libc (`__libc_malloc`) and puts a 32-byte header in front of it. The
layers that the documentation draws below it (thread caches, arenas, chunks,
LIRS caches, a region collector, leak detector, statistics) are libraries of
their own: `allocator_init` creates one arena, and no allocation goes to it.

| component | state | operations | who calls it | hard behaviour |
|---|---|---|---|---|
| allocator (`core/allocator.c`) | `g_allocator.initialized`, `g_allocator_initializing`, the totals, the header of every block | malloc, calloc, realloc, aligned_alloc, free, usable size, init, shutdown, configure | clients, through `api/` | no lock: flags read one after the other, init racing with every call, libc failing at any point, blocks crossing a shutdown |
| POSIX and nomalloc API (`api/`) | none | argument checks, rounding, forwarding | clients | `xallocx` reallocates and drops the pointer |
| locks (`utils/spinlock.h`, `mutex.h`, `atomic.h`) | lock word; ticket and serving numbers; queue tail | lock, trylock, unlock | every component below | mutual exclusion, fairness, wrap of the ticket numbers |
| size classes (`core/size_class.h`) | two tables | size to class, class to size, rounding | chunk, arena, tcache, LIRS | boundaries of the tables |
| chunk (`memory/chunk.c`) | runs with a bitmap each, `runs_free` and `runs_full` per class, two byte counters | small and large allocation and free | arena | addresses derived from list positions |
| arena (`memory/arena.c`) | chunk lists, `lock`, `fast_lock`, counters; the manager's table | malloc, free, realloc, create, destroy | tcache, LIRS manager, allocator_init | two locks over one set of lists |
| tcache (`cache/tcache.c`) | one bin of pointers per class | alloc, free, fill, flush | clients of the library | capacity; the class guessed from an address |
| LIRS (`cache/lirs/`) | stack S, queue Q, hash, counters, under one spinlock | get, put, remove, resize, clear | LIRS manager | block states across S, Q and hash; loops that end only if S and Q agree |
| collector (`gc/`) | state and phase, epoch, `gc_lock`; region lists and byte counts | collect (young, mixed, full), async, wait, barriers, region alloc, free, promote | clients of the library | lists changed while walked, lock order, a wait nobody ends |
| leak detector (`debug/leak_detector.c`) | records in a list, a free list and a hash | enable, disable, record, report, clear | clients of the library | limits, reuse of records, checks before the lock |
| statistics (`debug/stats_collector.c`) | atomic counters, histograms, a history | record, update, reset | clients of the library | counters updated one by one |
| huge pages (`os/hugepages.c`) | configuration, reserved pages, statistics | allocate, free, reserve, configure | clients of the library | sizes rounded again at the free; a reservation read and written apart |
| NUMA (`os/numa.c`) | topology | read, allocate, bind | clients of the library | none after the topology is read |
| containers, arithmetic, time, log (`utils/`) | none of their own | lists, bitmaps, hashing, rounding | everybody | list walks that meet the end |

Components interact by calls only: allocator to libc, arena to chunk, tcache
and LIRS manager to arena. State shared by threads is `g_allocator` (without a
lock), the arena and its chunks (mutex and two spinlocks), each LIRS cache, the
collector and the detector (one lock each). The only callback is the LIRS
eviction callback. Nothing is persisted, and no messages are exchanged.

What makes each correct:

- allocator: no block in two hands, none lost, no address given to libc that
  libc did not return; header, padding and request inside the block; contents
  kept by realloc and cleared by calloc; alignment; totals that match what is
  held; init and shutdown that leave all flags set or none.
- locks: one holder; a waiter that is eventually served where the lock promises
  it.
- chunk, arena, tcache: two live blocks never overlap; a free returns the block
  it was given; counters match the bitmaps; bins within capacity.
- LIRS: S, Q, hash and counters describe the same set of blocks; what is used
  often stays when other keys pass through.
- collector: a region is in the one list its type names and in one client's
  hands; one collection runs at a time, with its barrier on.
- leak detector: the records are the allocations not yet freed, up to the limit.
- statistics: a history within its array and in order.
- huge pages: what is mapped is what is held; a free undoes its allocation; the
  reservation never wraps.

## 2. Modules and plan

Every module states one component; `MC*` modules give it model values.

| module | component | extends | theorems in |
|---|---|---|---|
| `Allocator` | `core/allocator.c` as the API calls it | | `AllocatorProofs` |
| `AllocatorReader` | a reader of the active bytes beside these calls | `Allocator` | `AllocatorProofs` |
| `Lock`, `FairLock` | abstract: one thread inside; in the order of asking | | |
| `SpinLock`, `TicketLock` | `utils/spinlock.h`, implementing these | `INSTANCE` of `Lock`, `FairLock` | `LocksProofs` |
| `LeakDetector` | `debug/leak_detector.c` | | `DebugProofs` |
| `SizeClass` | `core/size_class.h` | | `TcacheProofs` |
| `Arena` | `memory/arena.c`, `memory/chunk.c` | | `ArenaProofs` |
| `Tcache` | `cache/tcache.c`, the caches in `core/allocator.c` | `SizeClass` | `TcacheProofs` |
| `Lirs` | `cache/lirs/lirs.c` | | `LirsProofs` |
| `LirsManager` | `cache/lirs/lirs_manager.c` on one such cache, all threads | `Lirs` | `LirsProofs` |
| `GcRegion` | `gc/gc_region.c`, steps under the manager's lock | | `GcPagesProofs` |
| `Gc` | `gc/gc.c` with the regions, all threads | `GcRegion` | `GcPagesProofs` |
| `StatsCollector` | `debug/stats_collector.c` | | `DebugProofs` |
| `HugePages` | `os/hugepages.c`, aligned mappings of `utils/memory.h` | | `GcPagesProofs` |

`SumTheorems` has what several proofs need and no component states: sums over
finite sets, counting, and remainders (section 13). Two modules for TLC hold two
components each that have no state in common: `MCDebug` the leak detector and the
statistics, `MCGcPages` the collector and the huge pages. In each behaviour one of
the two moves (`moving`), so that one run checks both without their product.
`DebugProofs` and `GcPagesProofs` are about these modules, their theorems about
the component's own specification (`Spec`, `Stats!Spec`, `Huge!Spec`).

What is left, in order of importance:

1. `Tcache` on the steps of `Arena`, which would say which addresses the arena
   gives twice.
2. `allocator_configure`; the byte counters of chunks and
   regions; the marks of the collector.

## 3. Allocator

### State and actions

| TLA+ | code |
|---|---|
| `initialized`, `initializing` | `g_allocator.initialized`, `g_allocator_initializing` |
| `subsystems` | the default arena, the lock and the tcache key made by init |
| `total_allocated`, `total_freed` | the two atomic totals |
| `heap` | libc's blocks: in use, size, the header in it, how many bytes hold what their owner expects |
| `owned` | the pointers the clients hold |
| `pc`, `call` | where each thread is, with the arguments and locals of its call |
| `fault` | libc was given an address it never returned; glibc then aborts the process, so nothing happens any more |

A pointer is a block and an offset, a header is known by the offset it ends at,
so `HasHeader` is the test of the magic number below a pointer. A pointer that
libc returned itself has offset 0 and no header: what lies below it is libc's
own size field.

A step is what a thread does between two accesses to shared state. `Enter` and
`EnterInitializing` read the two flags one after the other; `Malloc` is the
call of libc with the writing of the header, `MallocCount` the addition to the
total. `calloc` continues into `malloc`, and `realloc` into `malloc` or `free`,
as the code does (`Calloc`, `ReallocForward`). `Init*` and `Shutdown*` split
`allocator_init` and `allocator_shutdown` at each write another thread can see.
libc may fail in every allocation, and `InitSubsystems` may fail as well; the
failure paths that undo more or less of the subsystems are one action.

Clients (`Call*`) pass a pointer they hold, and give it up when they pass it to
`free` or `realloc`; `Return` gives back a pointer that a failed `realloc` left
alone. With `Orderly` the clients behave as the programs in `src/tests/`: one
thread starts the allocator while the others are idle and stops it when nothing
is held. Without it any thread may start it, by any call, and it may be stopped
at any time.

`CounterWord` is 2^64 in the code. `g_allocator.lock` is taken only by shutdown
and configure and protects nothing on these paths, so it is left out.

### Runs

Two threads and two blocks: two threads are enough for every race between a
call and another call, init or shutdown, and two blocks for a realloc that
moves, for exhaustion (the third allocation fails) and for overlap. Headers are
4 bytes with an alignment of 2, the ratio of the code's 32 to 16 rounded down;
one block starts at an address that is only a multiple of the small alignment.
`Word` is 16, which nothing reaches. The two passing runs divide the operations
so that each stays small; together they fire every action.

| run | clients | checks |
|---|---|---|
| `AllocatorOrderly` | orderly, and a reader of the active bytes; malloc, calloc, free, realloc to 0 or to the largest size; sizes 0 to 2, totals modulo 4 | `TypeOK`, `NoBadFree`, `Exclusive`, `LifecycleAgrees`, and `ReportedIsHeld`: what the reader is told is what was held |
| `AllocatorAuto` | not orderly: first use initializes, from either thread; shutdown at any time, pointers outlive it; calloc, realloc, aligned allocation (8), free | `NoLeak`, `InBounds`, `ContentsKept`, `ReturnsAligned` |
| `AllocatorRace` | two threads, init, malloc and free at any time | `NoBadFree` fails: free in a racing init hands libc the wrong address |

`AllocatorRace` shows a disagreement between the code and its header; it is
described under `findings` in `PROJECT.json`. `AllocatorAuto` and
`AllocatorRace` do not check for deadlock: after a fault the process is gone.
In the orderly run every reachable state has a successor. `Exclusive` is run
with orderly clients and proved for all. No run claims that a pointer with a
header can be freed after a shutdown: orderly clients have none left, and of
others `NoBadFree` does not hold.

`AllocatorReader` adds a client that calls `allocator_get_active_allocations`.
The function loads the two totals one after the other (`allocator.h:401-403`), in
an order the language leaves open (`LoadFirst`, `LoadSecond`), and other threads
run in between. So the answer need not be what is held at any one moment. The
history variable `due` follows what it should be from the blocks alone: what is
held at the first load, less what is given up until the second when
`total_freed` is the second, plus what is added when `total_allocated` is.
`ReportedIsHeld` is that the answer, computed from the totals, is this. The
reader starts while the allocator is up, and the others do not start or stop it
between its loads.

`ReportedIsHeld` is only true of the calls `AllocatorOrderly` makes. An aligned
allocation is never added to `total_allocated` (`allocator.c:1009`), so freeing
it drives the active count below what is held. A realloc to a smaller size
overwrites `requested_size` and touches neither total (`:890`), so the
difference stays for good. And an init that races with another erases the
totals (`:515`).

No fairness is assumed: nothing in this component waits, so every property is a
safety property.

### Proofs

`AllocatorProofs` proves `TypeCorrect`, that `TypeOK` holds in every reachable
state, for all constants that satisfy `ConstantsOK`. `TypeOK` is not inductive
alone: a `free` that reads the header of its pointer must have one. `CallShape`
says what the steps of a call take for granted (which steps have a pointer,
which have no result yet, that a malloc has one when it counts it), and `TypeOK
/\ CallShape` is inductive. The proof types the sizes, pointers, blocks and
calls the actions build, then goes action by action.

It also proves `HandsCorrect`: `Exclusive` and `NoLeak` for all constants, for
orderly clients and for any others. Each action is shown to be one of six kinds
of move of pointers between clients, calls and libc: nothing moves, a call takes
a pointer, gets a block, moves its block, gives it back to libc, or returns to
the client. Then each kind is shown to preserve the two invariants. So a change
to an action needs a new proof of its kind only. `NothingLeaks` is the half of it
that the run of any clients checks.

`ConstantsOK` is what all rests on: the header and alignment are positive, the
arguments fit in a word, and an address leaves room for a header and an
alignment below the top of memory, which libc guarantees for a block it
returned.

The rest needs one fact more of each step: it
writes no block but those in its own call and those nobody has (`LocalStep`).

- Of orderly clients (`Orderly`): `OrderlyFreesWell` (`NoBadFree`) and
  `OrderlyLifecycle` (`LifecycleAgrees`). A free hands libc the right address
  only when the header of its pointer is one the allocator wrote, which holds
  only when no pointer was made while the flags said otherwise. So the invariant
  has the life of the allocator (`LifeInv`: what the flags and the subsystems are
  at each step of the main thread's init and shutdown, that the others are idle
  and nothing is held meanwhile, and that nobody is on the fallback path) and a
  header before every pointer that leads back to the start of its block
  (`HeadersKept`). Neither is inductive without the other.
- Of any clients, sizes that do not wrap (`NoWrap`): `RequestsFit` (`InBounds`)
  and `ContentsSurvive` (`ContentsKept`). `SpaceInv` carries both, for the
  pointers in a call as for those a client holds: request and header lie in the
  block, the block holds as many good bytes as its owner asked for, and what a
  step still has to copy or clear is known from where its call is. That a size
  near `SIZE_MAX` wraps in `align_up` and in the additions is the hazard at
  `allocator.c:811`, so the hypothesis is needed.
- Of any clients, alignments that fit (`Even`): `PointersAligned`
  (`ReturnsAligned`). `GridInv` has every pointer at a multiple of `HeaderAlign`.
  The hypothesis leaves out what the code accepts and does not align for: an
  alignment that is not a multiple of `HeaderAlign` (`posix_memalign` with 8),
  whose pointer a realloc may return as it is, for an owner who now expects 16.

- Of orderly clients whose calls count in full (`CountsInFull`): `ActiveReported`
  (`ReportedIsHeld`). The hypothesis, a property of the states a behavior goes
  through, leaves out the two calls said above: no call is an aligned allocation,
  and no realloc is to a size above 0 and below what the header says. The
  property is a sum over the blocks, so the proof gives each block a weight: what
  its header asks for, or 0 while nobody has it or its call has still to count
  it.
  `TotalsInv` says that the sum of the weights is the active count modulo the
  word, and that what a call is about to add to a total is what the header says.
  A step then changes the weight of one block at most and a total by as much, or
  neither; of the threads that run between two additions of another, each changes
  weights of blocks of its own. A sum needs finitely many blocks
  (`FiniteMemory`). `ReaderInv` carries this over the time between the two loads:
  what is `due` is the first total loaded and the other one as it is now, because
  a step moves a total by exactly what it gives up or adds (`TalliesMove`).

The constants of the two passing runs satisfy these hypotheses (`AllocatorOrderly`
those of orderly clients and of calls that count in full, `AllocatorAuto` the two
others). So every property of these runs is proved.

## 4. Locks

`SpinLock` and `TicketLock` model `utils/spinlock.h`. Every atomic instruction
is a step: the compare-and-exchange of an attempt, the load of a spin, the
store of an unlock. `spinlock_trylock` is the attempt without the spin. A
ticket lock draws with a fetch-and-add on `next` and spins until `serving`
reaches the ticket drawn; both numbers wrap, modulo `Wrap`, which is 2^32 in
the code. `Lock` is what the callers expect (one thread inside), and `FairLock`
what a ticket lock adds (in the order they asked).

One run, `Locks`, has both side by side (`MCLocks`), each with threads of its
own: four for the spinlock, so that three can wait behind a holder, and three
with three tickets for the ticket lock, the tightest case, in which both numbers
wrap with every ticket in use.

- `OneHolder`, `SpinImplementsLock`, and `SomebodyEnters`: threads wait for the
  spinlock, then one of them enters.
- `TicketsInUse`, `ImplementsFairLock`, and `EverybodyEnters` for the ticket
  lock.

Fairness is weak, and only for a thread inside a call or between lock and
unlock: a thread the system schedules takes its next instruction, and a holder
unlocks. No thread is made to ask for the lock. A spinlock promises no more
than that somebody enters; under weak fairness one thread can lose every race.

`LocksProofs` proves all but the liveness, for every number of threads.
`SpinLockCorrect`: `OneHolder`, that there is one holder when the word is set and
none when it is not, is inductive with the types. `SpinLockImplementsLock`: each
step of the spinlock is one of `Lock`, or none. `TicketLockCorrect` and
`TicketLockImplementsLock` need the assumption that there are at most as many
threads as tickets (`WrapAssumption`, 2^32 in the code). `TicketInv` says that the
tickets in use are the numbers from `serving` up to `next`, each with one thread;
that two threads with one ticket are impossible across a wrap is the argument of
`UsersCount` and `DrawKeeps`.

`TicketLockIsFair` is the refinement of `FairLock`. The queue of the refinement
mapping is chosen by rank: the i-th waiter is the one with i - 1 waiters before
it. Since the users hold different numbers below their own count, the numbers
held are all of those (`Ranks`, a counting argument), so a waiter's rank is the
count of numbers served before its own, less the thread inside (`QueueInOrder`).
A draw then appends to the queue, an entry takes its head, and an exit, which
lowers every such count by one, leaves it as it is. `LocksCorrect` puts the
theorems together for `LocksSpec`, which the run checks.

## 5. Leak detector

| TLA+ | code |
|---|---|
| `enabled`, `tracking`, `tracking_active` | the flag, the plain field and the atomic of `g_leak_detector` |
| `allocation_list`, `free_list`, `num_records` | records in use, how many wait for reuse, their count |
| `totals`, `leaked`, `peak` | the counters of `leak_detector_stats` |
| `held`, `complete` | history: what the clients hold; whether every allocation and release so far was recorded |
| `fault` | the search in a hash bucket ran past its end |

What runs under the detector's spinlock is one step, which `SpinLock`
justifies; what is read before the lock is taken (`tracking_active`, the count
of records) is a step of its own, so tracking may stop and records may be
cleared in between. A hash bucket is the records of the list that fall into it.
A report groups the records by size (`Report`), and the totals it prints are
compared with the list. The detector is not started again while a thread is in
a locked section, and clear and update are called only while it is enabled, as
in the tests.

The run `Debug` lets everything happen (stop and start, clear, shutdown
in a call, a limit of two records met with three pointers, failing malloc,
counters that wrap at 3, a report of two entries) and checks that records and
counts agree (`RecordsCounted`) and, as long as nothing went unrecorded, that
the records are exactly what is held and the active count is their number
(`RecordsAreHeld`), and that a release finds its record (`RecordedIsFound`); and
that a report with an entry to spare is complete (`ReportComplete`). Threads
other than the main one and the pointers are interchangeable, so the run uses
symmetry. A pointer without a record is meant to be ignored; the search for it
runs past the end of the bucket, which is the model's `fault`.

`DebugProofs` proves `LeakRecordsCounted`, `RecordsCounted` and
`PeakCovers` for every number of threads, pointers and records. The inductive
invariant `LeakInv` adds the shape of the data: that the list is a sequence of
records, and that a thread about to record something has a record to add.

On top of it `HeldInv` gives `LeaksAreReported` (`RecordsAreHeld`) and
`SearchEndsInTime` (`RecordedIsFound`). It adds that a pointer in a call is held
and is in that call only: a record that is appended is then of a pointer that has
none, and a release that finds no record is of a pointer that was never recorded.
The totals wrap, so their difference is compared modulo the word, which needs the
lemmas about `%` at the beginning of that part. `ReportsAreComplete`
(`ReportComplete`) is about the loop of the report, for lists of any length: its
steps are a function of the number of records read, and what holds after each
of them (with an entry to spare, the entries and the totals count all records
read) holds after the last, since no step is the first after which it fails.

Two further disagreements have no run. `generate_leak_report` stops as soon as
its entries are used up, so its totals miss the records after that, which is
why `ReportComplete` asks for a spare entry. And the first
`leak_detector_enable` only initializes the detector, although
`docs/user_manual/quick_start.md:90` starts tracking with it.

## 6. Size classes

`SizeClass` translates the tables and functions of `core/size_class.h`.
`TightestFit` compares the class chosen with the set of all block sizes, for
requests one byte below, at and above every class boundary, some sizes between
and some above 1 MB; nothing happens between two boundaries, so these are
enough. The only state is the page size, for two systems; `Tcache` uses these
operators, and its run checks the property. `RequestsFitTightly`, in
`TcacheProofs`, proves it on any page size and for any sizes besides those around
the boundaries, from the order of the two tables: the first entry that holds a
request is the smallest that does.

The table of small classes has 29 entries for its 30 classes
(`size_class.h:167`), so class 29 has blocks of size 0; no request reaches it.

The comment above the table gives four examples (`size_class.h:169-173`).
`SizeClassDoc` asks for their sizes, and others, in any order, and `ExamplesHold`
fails: 100 bytes are given a block of 112 (class 7), not of 128 (class 8). The
finding quotes the line.

## 7. Arena and chunks

`Arena` models the calls of one arena and the chunks and runs they use.

| TLA+ | code |
|---|---|
| `chunks` | the chunks created: their class, the runs in `runs_free` and `runs_full` of that class with bitmap and free count, `num_runs`, the size of a large block |
| `num_chunks` | `arena->num_chunks` |
| `links` | the `next` and `prev` fields of the list nodes: `arena->list`, `chunks_free`, and the one node of each chunk |
| `in_use` | how many clients hold each pointer |
| `pc`, `call` | where each thread is, with the locals of its call |
| `overlaid` (in a chunk) | history: a run was made while the chunk had another |

A malloc searches under `fast_lock` (`MallocFind`), makes a chunk under the
mutex (`Grow`) and uses it under `fast_lock` again (`MallocUse`); each section
is one step, and other threads run in between. `chunks_free` is written under
one lock and read under the other; the reader looks at a single word, the head's
`next`, so the write of it is the step. `realloc` is malloc followed by free
(`ReallocRelease`). A chunk is only ever found through the list of the class it
was made for, so the lists of its other classes stay empty and are left out.
`chunks_partial` and `chunks_full` are never written.

The code adds the one list node of a chunk to `arena->list` and then to
`chunks_free`, so the lists run into each other. `links` keeps what is really
written: a search looks at the first entry only, which is a chunk of its class
all the same. A walk of the whole list, as in `arena_destroy`, leaves the list.

Two facts of the code shape the rest. A run with room is always the first in
its list, so every run of a chunk gets the addresses of the first one: once a
run has filled up, the next hands out blocks that are in use. And class 0
divides every offset, so `arena_free` looks for every block in the runs of class
0: blocks of other classes are never freed, and `arena_realloc` takes every
block for the smallest.

What does hold is in the run `Arena`:

- `OneChunkEach`: lists lead to the right chunks, and threads that race to grow
  make at most one chunk each for a class.
- `RunsCounted`: counts agree with bitmaps and lists through every fill, free
  and give-back.
- `BitsCoverHolders`: a chunk's bitmaps never show fewer blocks than are held.
- `OneHolderUntilFull`: until a second run is made in a chunk, no block has two
  holders and every held block has its bit.

Bounds: two threads, which is enough for a race to grow and for a free between
the steps of another call; three classes, one of which has blocks larger than a
run, as those above 4 KB in the code; runs of two blocks of the smallest class,
so that three pointers in use fill one and start the next; two runs to a chunk
(`MaxRuns`, met as a failing malloc of the code); three chunks. The threads are
interchangeable, so the run uses symmetry.

The run `ArenaShutdown` has the same instance and the walk of `arena_destroy`
over what the calls have made (`DestroyMeets`, by the `next` fields).
`AllChunksDestroyed` is what `allocator.c:538` says of the shutdown: the walk
meets every chunk once and then the head it began at. It fails with the first
small chunk. The walk goes on from it to the head in `chunks_free`, takes that
for a chunk, and never meets its own head. `Tcache`, which has the end of an
arena, takes it from there.

`ArenaProofs` proves `OneChunkEach`, `RunsCounted`, `OneHolderUntilFull` and
`BitsCoverHolders` for
any numbers of threads, chunks, runs and classes and any sizes that
`ArenaAssumption` allows: finitely many threads, sizes of blocks that are not 0,
a run that fits into the chunk. The invariant, `ArenaInv`, has six parts.

- `TypeOK`, and `ChunksInOrder`: every chunk is a `LargeChunk` or a
  `CountedChunk`, whose runs are all counted and not empty, and which has one
  run at most until it is `overlaid`. What an operation does to one chunk
  (`SmallAllocated`, `SmallFreed`) is proved apart from threads and clients: a
  block taken has a bit that was clear in every list of the chunk, and a free
  clears the bit of its own block or none, whatever class `arena_free` guesses.
- `CallsInOrder`: what each location of a call implies about its locals. A
  chunk a thread is about to use is there and is of the class it needs.
- `Placed`, in two halves. `Sited`: what is held is a block of a chunk there is,
  and, in a chunk that is
  not overlaid, it has one holder and its bit is set. The number of holders is a
  sum over the client and the calls; `HoldersMoved` says how a step of one call
  changes it. `BlocksApart` is what keeps a free from taking another's bit: in
  one chunk, different pointers are different blocks. `Covered`: the pointers of a
  chunk have no more holders together than its bitmaps have bits, overlaid or
  not. A malloc adds a bit and a holder; a free takes a holder and one bit or
  none (`BitsCoverWhatIsHeld`).
- `Listed`: the head of a class points to itself or to chunks of the class, in
  both directions. This is what survives although `arena->list` and
  `chunks_free` run into each other: an addition writes the head, the new node
  and the node that was last, and no head of another class is ever last.
- `ChunksBounded`: the chunks of a class and the threads that are about to make
  one are together never more than the threads. `OneChunkEach` alone is not
  inductive: a thread goes to make a chunk only when the class has none, and
  `Listed` is why an empty list says so.

## 8. Thread caches

`Tcache` keeps, for each thread, a stack of blocks per class (`bins`), the array
in which the allocator finds the caches (`tcaches`, `counter`), and the blocks
the clients hold with the size they asked for. `tcache_create` runs in
`allocator_get_tcache`; a cache belongs to its thread, so `tcache_alloc`,
`tcache_free`, `tcache_fill` and `tcache_flush` are one step each. Every class is
in the model, through `SizeClass`.

Of the arena the module takes little. `arena_malloc` gives a block of the class it
is asked for, or fails, as it always does for a class whose blocks do not fit into
a run. It may give an address that somebody has, which it does once a run has
filled up (`chunk.c:136-145`, section 7). So a block of the model is one time an
address is given, until it is given back, and two blocks may have one address.
`arena_free` may not find the run of its block; the block is the arena's again all
the same.

The last thread shuts the allocator down (with another one running, its cache is
freed under it). `allocator_shutdown` destroys the arena before it comes to the
caches (`allocator.c:566-573`), and with a small chunk in the arena it does not
come to them: the walk of section 7 leaves its list. A chunk is made by the first
`arena_malloc` that gives anything (`chunked`); a shutdown after that is the end
of the behaviour (`ended`). One before it frees the caches, all of them empty, and
the allocator may be started again.

`tcache_free` takes the class from the offset of the block in its chunk: the
first class whose size divides it, which is mostly class 0. The run `Tcache` has
an address of 48 bytes that is given twice and one of 8 in the second run of its
chunk, at offsets for which this guess is wrong; requests of 8 to 1700 bytes and
one that no run holds; bins of two and of one block; room for three caches and
three of them ever created. So blocks travel from thread to thread and from bin to
bin, bins fill and flush, and the last creation after a shutdown meets the end of
the array.

- `OnePlace`: what the arena gave is with the arena again, with a client or in one
  bin, once. Nothing is lost and nothing doubled by the caches.
- `BinsBounded`: no bin passes its array, whatever filled it.
- `Fits`: in spite of the guess a client's block is as large as it asked for;
  the guess is never larger than the true class.
- `CachesRegistered`: the allocator knows every cache, once, so a shutdown that
  gets past the arena frees them all. Beyond `MAX_THREADS` creations it does not
  know them: `tcache_id_counter` is never set back.

`TcacheProofs` proves these four for any number of threads and blocks, any
offsets and any capacities. `PlaceInv` says where a block is in a form each step
preserves: the bins have no block twice, alone or together, and none of the
arena's or of a client's. `KeptInv` says that a block that is neither with the
arena nor with a client is in a bin. What `Fits` rests on is `BinsServe`: the
guess of `tcache_free` is the class of the smallest blocks that divide the offset,
one that the true class is among, so a block never lies in a bin of larger blocks
than itself. `LifeInv` says that an arena without a chunk has given nothing, and
that there is no chunk while the allocator is down: a shutdown that ends drops
only bins that are empty.

## 9. LIRS cache

`Lirs` keeps the stack S and the queue Q as sequences of keys, the blocks of the
hash by key, and the three counters. Every call holds the cache's lock from
beginning to end, so it is one step, of which the helpers (`lirs_prune_s_stack`,
`lirs_evict_hir`, `lirs_demote_lir`, `lirs_promote_hir`) are operators from
cache to cache, composed as the code calls them. `status` is "fault" once a call
reads what was freed or runs off a bucket, and "stuck" when it loops with the
lock.

The run `Lirs` has five keys, values of sizes 1 and 2, capacities 3 and 4 of
which two blocks are HIR, and a `max_size` of 6, so that LIR blocks demote each
other, keys return after they were evicted, and puts are refused. Keys are
interchangeable.

- `EveryBlockListed`: Q is exactly the resident HIR blocks, S has all others;
  eviction, clearing and destroying find every block.
- `CountersAreResident`: `lirs_size` is the number of resident blocks, and
  `total_size` their size until a block that was evicted already is removed or
  given another value; its size is then subtracted twice (`lirs.c:887`).
- `LirSurvives`: no get and no put of any key evicts a LIR block.

What the code does not do, and the model shows: a cache can exceed its capacity
(after a HIR hit the bottom of S may be HIR, and the next promotion demotes
nothing); a put never evicts to make room for its size what is not beyond
`hir_capacity`, although `lirs.h` says it does; a hit on a HIR block does not
move it to the end of Q; `lirs_resize` may loop for ever (`lirs.c:985`);
`lirs_clear` and `lirs_destroy` read blocks they have freed when a resident HIR
block is in S. None of them is a property here. Capacities are above
`LIRS_MIN_HIR_BLOCKS`, as the LIR part is empty otherwise.

`LirsProofs` proves the three, and the types, for any finite set of keys, any
sizes, any number of HIR blocks of at least 1 (`LIRS_MIN_HIR_BLOCKS` is 2) and any
width of the counters. The code computes that number from the capacity, as its
hundredth or the minimum (`lirs.c:535`, `:982`); it is the minimum for the
capacities the model allows, whose hundredth is not above it. The manager asks for
64 blocks at most. The invariant, `LirsInv`, is of the cache between two calls:

- `Sound`: Q has each resident HIR block once and nothing else, S has each block
  once that is not in Q, neither has a key that is not in the hash, and the two
  counters are the numbers of blocks of their types.
- `Settled`: Q is within the HIR capacity. Without this the others are not
  enough: that a block which a call has promoted or demoted is not evicted by the
  same call, which `LirSurvives` says, rests on the queue not being too long when
  the call begins.
- `Weighed`: `total_size` is the sum of the resident sizes, modulo the word,
  until a size was subtracted twice.

Each helper is shown once to keep these, as an operator from cache to cache, and
a call is the composition of its helpers. Pruning, for one, leaves S down to its
last LIR block, and destroys of the rest the blocks that are in no list then.

`LirsManager` puts one such cache, that of class 0, behind the manager's calls
and between the clients and the arena: keys are addresses of blocks, and what
the cache destroys goes back to the arena (`lirs_evict_callback`). The arena gives a
block that nobody has, an assumption that section 7 limits. A call tests
the pointer of its bin (`Begin*`), takes the bin's lock and reads the pointer
again (`LockBin`), and uses the cache (`lirs_manager_put` and so on). The
shutdown takes the other lock, destroys, and only then clears the pointer. An
init that fails destroys the caches and leaves their pointers (`InitFails`).

The run `LirsManager` has two threads and six blocks in a bin of four, two of
them LIR: fewer never make a block non-resident.

- `OneOwner`: a block is in the arena, with a client, in a put or in the cache,
  and in one only: it is freed once, when its address leaves the hash.
- `FreedUnused`: a freed cache is used only after a failed init or by a call
  that met the shutdown.

`ManagerOneOwner` and `ManagerFreedUnused` prove both for any number of threads
and of blocks. The invariant adds to `LirsInv` two parts. `Owned`: arena,
clients, puts and hash divide the blocks between them, and no block is in two
puts; what a cache call destroys is what leaves the hash, and goes to the arena.
`ShutdownTyped`: a shutdown between its steps has the global lock, and, unless a
call met the shutdown, a cache that is gone while the bin still points to it
means that the shutdown is about to clear the pointer and nobody is in a call.

`lirs_manager_get` looks for the size as a key, which is no block's address, so
no block ever comes back out of the cache; a non-resident block, which the cache
says it has evicted, is kept from the arena until its entry goes;
`lirs_manager_remove` finds class 0 for every block.

## 10. Collector

`GcRegion` has the region manager: the regions, the list and the count of each
type, ages. The calls that hold `manager_lock` throughout are steps. `Gc` adds
the threads: `gc_lock`, `manager_lock` and `region_lock` by holder, the two flags
of the collector, and for each thread what it runs and where its walk over a
list is. The walks take no lock, so each region visited is a step (mark, test of
age, promotion, next), during which other threads allocate, free, age and
promote. A walk goes on from wherever its region is by then, through whichever
list that is. `gc_collect_mixed` has the walks of `gc_collect_young`.

In the run `GcPages` the collector has two threads and two regions, all calls,
thresholds of age of 1 (for the code's 1 and 15), ages capped at 2, and young and
pinned regions as types clients ask for. A region in a walk, one promoted under it
and one that is allocated again need no more than two. Threads and regions are
interchangeable.

- `RegionsFiled`: counts are those of the types, a region is in one list, that
  of its type, and none a client holds is free. It does not say that a walk ends.
- `OneCollector`: two collections never run at a time, and while `gc_collect`
  walks the write barrier stays on, unless `gc_shutdown` or `gc_collect_wait`,
  which releases a lock it does not hold, came between.

`GcPagesProofs` proves both for any number of threads and regions. `ManagerInv` is
about the manager alone: each list is without repetition and has the regions of
its type, the counts are cardinalities, and a client's region is in use; each of
the manager's operations is shown to keep it, whatever called it, since the walks
change nothing outside of them. `CollectorInv` is about the lock: a thread inside
a collection has `gc_lock`, nobody is waiting or shutting down before `cleared`,
and the barrier is on. That a collection in a wrong list's walk holds the lock
for ever is no matter for either.

What the code does and the model reaches: a young collection that meets a young
region it has promoted hangs on the wrong list's head (`gc.c:315`); a collection
with an old region marks through a null base (`gc.c:214`); a region freed
between the test of its age and its promotion is lost from its list;
`gc_region_age` and `gc_region_manager_shutdown` take their two locks in
opposite order (`gc_region.c:362`); `gc_collect_wait` never returns, as nothing
ends a concurrent collection (`gc.c:294`). So liveness does not hold of the
collector under any fairness, no property claims it, and the run does not check
for deadlock.

## 11. Statistics

`StatsCollector` has the collector's totals, the samples of a histogram, the
counters of a class, the history and its two locks. The recording calls take no
lock: every load and every store of a counter is a step. An update of the
history holds the history's lock, `stats_collector_reset` the global one, and
neither excludes the other. All allocations have one size and one class.

In the run `Debug` the statistics have two threads, a history of two entries, two
allocations and one reset: enough for an update between the two stores of
another's allocation, for an entry that pushes out the oldest, and for a reset
between any two steps of an update.

- `HistoryBounded`: no write of an update falls outside the array, although the
  reset sets its count under it.
- `HistoryInOrder`: until a reset, the entries show the totals in order.

`DebugProofs` proves both for any capacity and number of threads and
resets. `UpdateInv` says what the count and the index read from it can be at each
step of an update, with a reset before it or not; `OrderInv` that the entries are
in order up to the one being written, and the parts of that one that were
written are not above the totals, which only grow until a reset.

Nothing is claimed of the peak: it is taken from two counters that are loaded
apart, so it can wrap (`stats_collector.c:171`), and a smaller one can
overwrite a larger one. A histogram reset while another thread records divides
by a bucket size of 0; the model's `fault`. The collector is initialized while
the others are idle.

## 12. Huge pages

`HugePages` has the address space in bytes, each with the size of the kernel page
it lies in; the blocks clients hold; the configuration; and the reservation.
`mmap` and `munmap` are the kernel's. `mmap` gives any free range of pages.
`munmap` rounds a length up to pages and refuses an address that is not that of a
page, and a range that would split a large page. `memory_alloc_aligned`, the
fallback, maps more and gives head and tail back; it does not round
(`memory.h:33-34`, `:51-53`), so behind a block that does not end with a page the
tail begins inside a page, the kernel refuses it, and a page stays mapped that
nobody holds (`leaked`). `hugepage_alloc_transparent` asks for such sizes when
transparent pages are off (`hugepages.c:396`). `hugepage_reserve` and
`hugepage_release_reserved` open a file between their read of the count and its
change, and are two steps for each caller, as is `hugepage_init`, which nothing
keeps two callers from.

In the run `GcPages` an ordinary page has 2 bytes, the large ones are of 2 and 4
pages (for 512 and 262144), the address space is 8 pages, and two blocks are held
at a time. Requests are for less than a page, below 1 GB in whole pages and not,
and rounded up to 1 GB. Two callers are at the reservation, while nothing is
mapped. The run stops (`CONSTRAINT Sound`) once a free has unmapped other pages
than its block's or two releases have raced: nothing is claimed after that.

- `MappedIsHeld`: until then exactly the held pages are mapped, and the tails that
  could not be given back; blocks are apart.
- `FreeUndoesAlloc`: for a block of `hugepage_alloc` of 2 MB or more, in large
  pages or in the fallback, `hugepage_free` with the size asked for unmaps the
  block and nothing else. So does `hugepage_free_transparent` for a block made with
  transparent pages on, of 2 MB to below 1 GB.
- `ReservedCovered`: the reservation goes below 0, and wraps, only after two
  releases, or a release and a restart, overlapped.

`GcPagesProofs` proves the three for any address space, any sizes of the two
large pages of which one divides the other, and any number of blocks and callers
and any requests in bytes (`WhatIsMappedIsHeld`, `FreesUndoAllocs`,
`ReservationCovered`). The specification proved about, `Huge!Spec`, has no
`CONSTRAINT`: the properties state the condition themselves. What is mapped is not
enough to know what a free does, since the kernel refuses to split a large page. So
`HugeInv` says also that large pages are mapped from end to end (`WholePages`),
that a block is one range of whole pages, of the length its size rounds to
(`Laid`), and, while nothing is lost, that no large page is cut where a block
begins or ends (`Uncut`): then what `munmap` is asked for, it does. `ReservedInv`
says that what a caller is about to add is not below 0 and, until a release has
raced, that one caller at most is about to subtract, and no more than is reserved.

The conditions of the second are real: below 2 MB the rest of the page stays
mapped; `hugepage_free_transparent` rounds up a block that was made with
transparent pages off, or rounds to 1 GB a block rounded to 2 MB, and unmaps its
neighbours, as does `hugepage_free` with 1 GB or more from `hugepage_alloc_2mb`.

## 13. What is proved, and what only model-checked

Every invariant of a passing run, and every action property and refinement, is
proved for all constants that satisfy the assumptions of its module. Only
model-checked is liveness (`SomebodyEnters`, `EverybodyEnters`), out of the
prover's reach like `ENABLED`. No other component has liveness properties: the
remaining waits are for the locks, where section 4 gives the answer, and for the
collector, where there is none.

Inductions over data (a sum, the length of a list, the entries of a table) are
proved without an induction rule: were there a number for which the statement
fails, there would be a least one (`LeastIsIn`), and one step of the recursion
from the number below it shows that it does not fail. `SumTheorems` proves in this
way that a sum over a finite set splits, agrees where its terms agree, and moves
by what one term moves; every sum of the models is one of those.

The assumptions, besides those the sections name: there are finitely many
threads, blocks and keys where something is counted over them; a null value is
none of the things it stands in for; the constants of the code that are positive
are positive. Each is stated with the constants, and TLC evaluates it in the
runs.

Runs with `CHECK_DEADLOCK FALSE` are those in which the process may end (a
fault), a thread may hang as the code does, or a bound of the model is met (the
memory and the reservation of `HugePages`, the allocations of `StatsCollector`, the
caches of `Tcache`).

## 14. Not modelled

`os/numa.c` reads the topology once and has no state that changes afterwards.
The MCS lock has no caller. The wrappers of system calls, logging, the printing and
the export of statistics, the architecture headers, and hashing are inputs of
the modelled code, or text.

Within the allocator: `allocator_configure` and `allocator_print_stats` touch
nothing an allocation reads. Products and sums that wrap (`allocator.c:811`) are
outside the bounds of its runs and the assumption of its proofs. The contents of
a block are abstracted to a count of bytes that are as expected;
`header->size`, `flags` and the log are left out.

Within the others: the byte counters of chunks and regions, the statistics of
every component, the selection of an arena by NUMA node and the contents that
realloc copies; access times and hit counters of the LIRS cache; marks, live
bytes, registration of objects and the write barrier of the collector;
throughput and per-thread statistics.

Some steps are coarser than the code's. `gc_region_promote` takes a region from
its list and adds it to the other in one step, though a walk without a lock could
see it in neither; `gc_shutdown` destroys the regions in one step once it has
their locks, where the code takes them one by one.
