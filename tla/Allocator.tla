----------------------------- MODULE Allocator -----------------------------
(***************************************************************************)
(* The live allocation path of nomalloc (src/core/allocator.c): the public *)
(* malloc, calloc, realloc, free and aligned allocation, each of which     *)
(* wraps one libc block with an alloc_header, and the start and shutdown   *)
(* of the global g_allocator.                                              *)
(*                                                                         *)
(* The functions take no lock.  A step is what one thread does between two *)
(* accesses to state that other threads see: the two flags, the two atomic *)
(* totals and libc's heap.  Work on a block that only the calling thread   *)
(* holds (writing its header, copying, clearing) belongs to the step that  *)
(* obtains the block.                                                      *)
(***************************************************************************)
EXTENDS Integers, FiniteSets, Functions

CONSTANTS
  Threads,      \* threads of the program
  Main,         \* the thread that starts and shuts down the allocator
  Blocks,       \* raw blocks libc can hand out at one time
  Base,         \* Base[b]: address of raw block b, modulo the largest alignment
  Sizes,        \* request sizes the clients use
  ReallocSizes, \* sizes the clients pass to realloc
  Counts,       \* nmemb arguments the clients pass to calloc
  Aligns,       \* alignments the clients pass to aligned_alloc
  HeaderSize,   \* ALLOC_HEADER_SIZE, 32 in the code
  HeaderAlign,  \* ALLOC_HEADER_ALIGNMENT, 16 in the code
  Word,         \* size_t wraps at Word, 2^64 in the code
  CounterWord,  \* the totals wrap at CounterWord, 2^64 in the code; a model that
                \* does not look at them takes 1
  Ops,          \* entry points the clients call
  Orderly,      \* TRUE: clients start and stop the allocator as the tests do
  NULL

AllOps == {"init", "shutdown", "malloc", "calloc", "realloc", "aligned", "free"}

ASSUME ConstantsOK ==
  /\ Main \in Threads
  /\ HeaderSize \in Nat \ {0} /\ HeaderAlign \in Nat \ {0}
  /\ Word \in Nat \ {0} /\ CounterWord \in Nat \ {0}
  /\ Sizes \subseteq 0..(Word - 1) /\ Counts \subseteq 0..(Word - 1)
  /\ ReallocSizes \subseteq 0..(Word - 1) /\ Aligns \subseteq 0..(Word - 1)
  /\ Base \in [Blocks -> Nat]
  /\ \A b \in Blocks, a \in Aligns \cup {0} : Base[b] + HeaderSize + a <= Word
  /\ Ops \subseteq AllOps
  /\ Orderly \in BOOLEAN
  /\ NULL \notin [blk : Blocks, off : Nat, len : Nat]

\* An address space has finitely many blocks.
ASSUME FiniteMemory == IsFiniteSet(Blocks)

VARIABLES
  initialized,      \* g_allocator.initialized
  initializing,     \* g_allocator_initializing
  subsystems,       \* the default arena, the lock and the tcache key exist
  total_allocated,  \* g_allocator.total_allocated
  total_freed,      \* g_allocator.total_freed
  heap,             \* libc's blocks and what nomalloc wrote in them
  owned,            \* pointers the clients hold
  pc, call,         \* where each thread is, and the call it is in
  fault             \* libc was given a pointer it never returned

flags  == <<initialized, initializing, subsystems>>
totals == <<total_allocated, total_freed>>
vars   == <<flags, totals, heap, owned, pc, call, fault>>

(***************************************************************************)
(* Pointers, headers and libc's heap.                                      *)
(*                                                                         *)
(* A pointer is a raw block and an offset into it; len is what its owner   *)
(* asked for.  A block holds at most one header, whose last byte is just   *)
(* below offset off; raw is the offset of the block's address kept in      *)
(* header->raw_ptr.  No header ends at offset 0: for a pointer that libc   *)
(* returned, get_header reads libc's own chunk size, never ALLOC_MAGIC.    *)
(* data counts the bytes, from the user pointer on, that hold what the     *)
(* owner last knew to be there.  libc overwrites a block it takes back.    *)
(***************************************************************************)
Pointer == [blk : Blocks, off : Nat, len : Nat]
Header  == [off : Nat, raw : Nat, req : Nat]
NoHeader == [off |-> 0, raw |-> 0, req |-> 0]
Block   == [live : BOOLEAN, cap : Nat, hdr : Header, data : Nat]
FreeBlock == [live |-> FALSE, cap |-> 0, hdr |-> NoHeader, data |-> 0]

Ptr(b, o, n)  == [blk |-> b, off |-> o, len |-> n]
NewHeader(o, n) == [off |-> o, raw |-> 0, req |-> n]
NewBlock(c, h) == [live |-> TRUE, cap |-> c, hdr |-> h, data |-> 0]

HasHeader(p) == p.off > 0 /\ heap[p.blk].hdr.off = p.off
HeaderOf(p)  == heap[p.blk].hdr

Smaller(m, n) == IF m <= n THEN m ELSE n
AtLeastOne(n) == IF n = 0 THEN 1 ELSE n
AlignUp(n, a) == IF a = 0 THEN n ELSE (((n + a - 1) % Word) \div a) * a
IsPowerOfTwo(n) == \E k \in 0..n : n = 2^k

\* Mutants of the operators below: no room for the header; the header, not the
\* user pointer, aligned.
TotalSizeBare(n) == AlignUp(n, HeaderAlign)
AlignedOffsetOfHeader(b, a) == AlignUp(Base[b], a) + HeaderSize - Base[b]

TotalSize(n) == (AlignUp(n, HeaderAlign) + HeaderSize + HeaderAlign) % Word
AlignedSize(n, a) == (n + a + HeaderSize) % Word
\* offset in block b of the first address that is a multiple of a and leaves
\* room for a header
AlignedOffset(b, a) == AlignUp(Base[b] + HeaderSize, a) - Base[b]

\* __libc_malloc hands out any block that is not in use.
Available == {b \in Blocks : ~heap[b].live}

\* __libc_free accepts only an address that libc returned and that is in use;
\* for any other one glibc aborts the process.
ValidRaw(b, o) == heap[b].live /\ o = 0
LibcFree(b, o) ==
  IF ValidRaw(b, o) THEN /\ heap' = [heap EXCEPT ![b] = FreeBlock]
                         /\ UNCHANGED fault
                    ELSE /\ fault' = TRUE
                         /\ UNCHANGED heap

(***************************************************************************)
(* Threads.                                                                *)
(***************************************************************************)
\* The call a thread is in: the entry point; the pointer passed to it, until it
\* is freed; the size and alignment the code works with; the length the client
\* wants and the length its pointer had; old_requested_size; the return value.
NoCall == [op |-> "none", ptr |-> NULL, size |-> 0, align |-> 0, len |-> 0,
           had |-> 0, old |-> 0, res |-> NULL]

\* Main is starting or stopping the allocator.
LifecycleSteps == {"init", "init_check", "init_set", "init_clear", "init_flag",
  "init_subsystems", "init_undo", "init_undo_flag", "init_totals", "init_done",
  "sd_set", "sd_check", "sd_teardown", "sd_totals", "sd_flag", "sd_clear", "sd_done"}
Steps == LifecycleSteps \cup {"idle", "enter", "enter_initializing", "system", "body",
  "malloc_count", "realloc_freed", "realloc_allocated", "free", "free_initializing",
  "free_header", "free_block", "free_raw", "return"}
Ready == initialized /\ ~initializing

Running(t, l) == ~fault /\ pc[t] = l
Goto(t, l) == pc' = [pc EXCEPT ![t] = l]
Set(t, c)  == call' = [call EXCEPT ![t] = c]

(***************************************************************************)
(* A client calls an entry point.  A pointer it passes to free or realloc  *)
(* is one it holds, and it gives the pointer up.  Orderly clients behave   *)
(* as the programs in tests/: the main thread starts the allocator, with   *)
(* nomalloc_init or its own first malloc, before any other thread calls    *)
(* it, and shuts it down when no call is running and nothing is held.      *)
(***************************************************************************)
OthersIdle(t) == \A u \in Threads \ {t} : pc[u] = "idle"
MayCall(t, op) ==
  /\ op \in Ops
  /\ op = "shutdown" => t = Main
  /\ Orderly => IF op \in {"init", "shutdown"} \/ ~Ready
                THEN t = Main /\ OthersIdle(t) /\ (op = "shutdown" => owned = {})
                ELSE pc[Main] \notin LifecycleSteps

Begin(t, op, l, c) ==
  /\ Running(t, "idle")
  /\ MayCall(t, op)
  /\ Set(t, [c EXCEPT !.op = op])
  /\ Goto(t, l)
  /\ owned' = owned \ {c.ptr}
  /\ UNCHANGED <<flags, totals, heap, fault>>

CallInit(t)     == Begin(t, "init", "init", NoCall)
CallShutdown(t) == Begin(t, "shutdown", "sd_set", NoCall)
CallMalloc(t)   == \E n \in Sizes :
  Begin(t, "malloc", "enter", [NoCall EXCEPT !.size = n, !.len = n])
CallCalloc(t)   == \E k \in Counts, n \in Sizes :
  Begin(t, "calloc", "enter", [NoCall EXCEPT !.size = (k * n) % Word, !.len = k * n])
CallRealloc(t)  == \E p \in owned \cup {NULL}, n \in ReallocSizes :
  Begin(t, "realloc", "enter", [NoCall EXCEPT !.ptr = p, !.size = n, !.len = n,
                                 !.had = IF p = NULL THEN 0 ELSE p.len])
CallAligned(t)  == \E a \in Aligns, n \in Sizes :
  Begin(t, "aligned", "enter", [NoCall EXCEPT !.size = n, !.len = n, !.align = a])
CallFree(t)     == \E p \in owned \cup {NULL} :
  Begin(t, "free", "free", [NoCall EXCEPT !.ptr = p])

(***************************************************************************)
(* The guard every allocating entry point starts with: go on when the      *)
(* allocator is initialized, fall back to libc while some thread is        *)
(* initializing it, else initialize it first.                              *)
(***************************************************************************)
Enter(t) ==
  /\ Running(t, "enter")
  /\ Goto(t, IF initialized THEN "body" ELSE "enter_initializing")
  /\ UNCHANGED <<flags, totals, heap, owned, call, fault>>

EnterInitializing(t) ==
  /\ Running(t, "enter_initializing")
  /\ Goto(t, IF initializing THEN "system" ELSE "init")
  /\ UNCHANGED <<flags, totals, heap, owned, call, fault>>

\* What every path of a call ends with: r is the value it returns.
Result(t, c, r) == Set(t, [c EXCEPT !.res = r]) /\ Goto(t, "return")

\* calloc's block is cleared, so its n bytes are what the owner expects.
Cleared(c, n) == IF c.op \in {"calloc", "calloc_malloc"} THEN n ELSE 0

\* The libc calls that stand in while the allocator is being initialized.
\* The block has no header, except that an aligned one gets one all the same.
SystemMalloc(t) ==
  LET c == call[t] IN
  /\ Running(t, "system")
  /\ \/ c.op \in {"malloc", "calloc", "calloc_malloc"}
     \/ c.op = "realloc" /\ c.ptr = NULL
  /\ \/ Result(t, c, NULL) /\ UNCHANGED heap
     \/ \E b \in Available :
          /\ heap' = [heap EXCEPT ![b] =
               [NewBlock(c.size, NoHeader) EXCEPT !.data = Cleared(c, c.size)]]
          /\ Result(t, c, Ptr(b, 0, c.len))
  /\ UNCHANGED <<flags, totals, owned, fault>>

AlignedBlock(t, n) ==
  LET c == call[t] IN
  \/ Result(t, c, NULL) /\ UNCHANGED heap
  \/ \E b \in Available :
       LET o == AlignedOffset(b, c.align) IN
       /\ heap' = [heap EXCEPT ![b] = NewBlock(AlignedSize(n, c.align), NewHeader(o, n))]
       /\ Result(t, c, Ptr(b, o, c.len))

SystemAligned(t) ==
  /\ Running(t, "system")
  /\ call[t].op = "aligned"
  /\ AlignedBlock(t, call[t].size)
  /\ UNCHANGED <<flags, totals, owned, fault>>

\* __libc_realloc of a pointer libc did not return aborts; it frees at size
\* 0, keeps the old block when it fails, and may move the data.
LibcRealloc(t) ==
  LET c == call[t]
      p == c.ptr
      kept == Smaller(heap[p.blk].data, c.size)
      moved(b) == [NewBlock(c.size, NoHeader) EXCEPT !.data = kept]
  IN \/ /\ ~ValidRaw(p.blk, p.off)
        /\ fault' = TRUE
        /\ UNCHANGED <<heap, pc, call>>
     \/ /\ ValidRaw(p.blk, p.off) /\ c.size = 0
        /\ heap' = [heap EXCEPT ![p.blk] = FreeBlock]
        /\ Result(t, [c EXCEPT !.ptr = NULL], NULL)
        /\ UNCHANGED fault
     \/ /\ ValidRaw(p.blk, p.off) /\ c.size > 0
        /\ \/ Result(t, c, NULL) /\ UNCHANGED heap
           \/ \E b \in Available \cup {p.blk} :
                /\ heap' = [heap EXCEPT ![p.blk] = FreeBlock, ![b] = moved(b)]
                /\ Result(t, [c EXCEPT !.ptr = NULL], Ptr(b, 0, c.len))
        /\ UNCHANGED fault

SystemRealloc(t) ==
  /\ Running(t, "system")
  /\ call[t].op = "realloc" /\ call[t].ptr # NULL
  /\ LibcRealloc(t)
  /\ UNCHANGED <<flags, totals, owned>>

(***************************************************************************)
(* allocator_malloc, and allocator_calloc which calls it.                  *)
(***************************************************************************)
HeaderedBlock(t, n) ==
  \E b \in Available :
    /\ heap' = [heap EXCEPT ![b] = NewBlock(TotalSize(n), NewHeader(HeaderSize, n))]
    /\ Set(t, [call[t] EXCEPT !.size = n, !.res = Ptr(b, HeaderSize, call[t].len)])

Malloc(t) ==
  LET c == call[t] IN
  /\ Running(t, "body")
  /\ c.op \in {"malloc", "calloc_malloc"}
  /\ \/ Result(t, c, NULL) /\ UNCHANGED heap
     \/ HeaderedBlock(t, AtLeastOne(c.size)) /\ Goto(t, "malloc_count")
  /\ UNCHANGED <<flags, totals, owned, fault>>

MallocCount(t) ==
  /\ Running(t, "malloc_count")
  /\ total_allocated' = (total_allocated + call[t].size) % CounterWord
  /\ heap' = [heap EXCEPT ![call[t].res.blk].data = Cleared(call[t], call[t].size)]
  /\ Goto(t, "return")
  /\ UNCHANGED <<flags, total_freed, owned, call, fault>>

Calloc(t) ==
  /\ Running(t, "body")
  /\ call[t].op = "calloc"
  /\ Set(t, [call[t] EXCEPT !.op = "calloc_malloc", !.size = AtLeastOne(@)])
  /\ Goto(t, "enter")
  /\ UNCHANGED <<flags, totals, heap, owned, fault>>

(***************************************************************************)
(* allocator_aligned_alloc.  It adds nothing to total_allocated.           *)
(***************************************************************************)
Aligned(t) ==
  LET c == call[t] IN
  /\ Running(t, "body")
  /\ c.op = "aligned"
  /\ IF IsPowerOfTwo(c.align) THEN AlignedBlock(t, AtLeastOne(c.size))
                              ELSE Result(t, c, NULL) /\ UNCHANGED heap
  /\ UNCHANGED <<flags, totals, owned, fault>>

(***************************************************************************)
(* allocator_realloc, once past the guard.                                 *)
(***************************************************************************)
ReallocForward(t) ==
  LET c == call[t] IN
  /\ Running(t, "body")
  /\ c.op = "realloc"
  /\ \/ c.ptr = NULL /\ Set(t, [c EXCEPT !.op = "malloc"]) /\ Goto(t, "enter")
     \/ c.ptr # NULL /\ c.size = 0 /\ Goto(t, "free") /\ UNCHANGED call
  /\ UNCHANGED <<flags, totals, heap, owned, fault>>

\* The pointer has no header: libc's realloc.
ReallocForeign(t) ==
  LET c == call[t] IN
  /\ Running(t, "body")
  /\ c.op = "realloc" /\ c.ptr # NULL /\ c.size > 0 /\ ~HasHeader(c.ptr)
  /\ LibcRealloc(t)
  /\ UNCHANGED <<flags, totals, owned>>

\* Shrinking only rewrites requested_size; the totals are left alone.
ReallocShrink(t) ==
  LET c == call[t]
      p == c.ptr
  IN /\ Running(t, "body")
     /\ c.op = "realloc" /\ p # NULL /\ c.size > 0 /\ HasHeader(p)
     /\ c.size <= HeaderOf(p).req
     /\ heap' = [heap EXCEPT ![p.blk].hdr.req = c.size]
     /\ Result(t, [c EXCEPT !.ptr = NULL], Ptr(p.blk, p.off, c.len))
     /\ UNCHANGED <<flags, totals, owned, fault>>

\* Mutant: one byte too few.
CopiedShort(p) == Smaller(heap[p.blk].data, HeaderOf(p).req - 1)

\* Growing copies the old requested_size bytes to a new block with a header.
Copied(p) == Smaller(heap[p.blk].data, HeaderOf(p).req)

\* Mutant: frees the old block before it knows that there is a new one.
ReallocGrowEarly(t) ==
  LET c == call[t]
      p == c.ptr
      moved == [NewBlock(TotalSize(c.size), NewHeader(HeaderSize, c.size)) EXCEPT
                  !.data = Copied(p)]
  IN /\ Running(t, "body")
     /\ c.op = "realloc" /\ p # NULL /\ c.size > 0 /\ HasHeader(p)
     /\ c.size > HeaderOf(p).req
     /\ \/ Result(t, c, NULL) /\ heap' = [heap EXCEPT ![p.blk] = FreeBlock]
        \/ \E b \in Available \cup {p.blk} :
             /\ heap' = [heap EXCEPT ![p.blk] = FreeBlock, ![b] = moved]
             /\ Result(t, [c EXCEPT !.ptr = NULL], Ptr(b, HeaderSize, c.len))
     /\ UNCHANGED <<flags, totals, owned, fault>>

ReallocGrow(t) ==
  LET c == call[t]
      p == c.ptr
      moved == [NewBlock(TotalSize(c.size), NewHeader(HeaderSize, c.size)) EXCEPT
                  !.data = Copied(p)]
  IN /\ Running(t, "body")
     /\ c.op = "realloc" /\ p # NULL /\ c.size > 0 /\ HasHeader(p)
     /\ c.size > HeaderOf(p).req
     /\ \/ Result(t, c, NULL) /\ UNCHANGED heap
        \/ \E b \in Available :
             /\ heap' = [heap EXCEPT ![b] = moved]
             /\ Set(t, [c EXCEPT !.old = HeaderOf(p).req, !.res = Ptr(b, HeaderSize, c.len)])
             /\ Goto(t, "realloc_freed")
     /\ UNCHANGED <<flags, totals, owned, fault>>

\* Mutants: the totals as one signed counter; the new size counted as freed.
ReallocFreedSigned(t) ==
  /\ Running(t, "realloc_freed")
  /\ total_allocated' = total_allocated - call[t].old
  /\ Goto(t, "realloc_allocated")
  /\ UNCHANGED <<flags, total_freed, heap, owned, call, fault>>
ReallocFreedNew(t) ==
  /\ Running(t, "realloc_freed")
  /\ total_freed' = (total_freed + call[t].size) % CounterWord
  /\ Goto(t, "realloc_allocated")
  /\ UNCHANGED <<flags, total_allocated, heap, owned, call, fault>>

ReallocFreed(t) ==
  /\ Running(t, "realloc_freed")
  /\ total_freed' = (total_freed + call[t].old) % CounterWord
  /\ Goto(t, "realloc_allocated")
  /\ UNCHANGED <<flags, total_allocated, heap, owned, call, fault>>

\* Mutant: the old block is not freed.
ReallocAllocatedKept(t) ==
  /\ Running(t, "realloc_allocated")
  /\ total_allocated' = (total_allocated + call[t].size) % CounterWord
  /\ Set(t, [call[t] EXCEPT !.ptr = NULL])
  /\ Goto(t, "return")
  /\ UNCHANGED <<flags, total_freed, heap, owned, fault>>

ReallocAllocated(t) ==
  /\ Running(t, "realloc_allocated")
  /\ total_allocated' = (total_allocated + call[t].size) % CounterWord
  /\ Goto(t, "free_block")
  /\ UNCHANGED <<flags, total_freed, heap, owned, call, fault>>

(***************************************************************************)
(* allocator_free.  The two flags are read one after the other.            *)
(***************************************************************************)
Free(t) ==
  /\ Running(t, "free")
  /\ Goto(t, IF call[t].ptr = NULL THEN "return"
             ELSE IF initialized THEN "free_initializing" ELSE "free_raw")
  /\ UNCHANGED <<flags, totals, heap, owned, call, fault>>

FreeInitializing(t) ==
  /\ Running(t, "free_initializing")
  /\ Goto(t, IF initializing THEN "free_raw" ELSE "free_header")
  /\ UNCHANGED <<flags, totals, heap, owned, call, fault>>

FreeHeader(t) ==
  LET p == call[t].ptr IN
  /\ Running(t, "free_header")
  /\ IF HasHeader(p)
     THEN /\ total_freed' = (total_freed + HeaderOf(p).req) % CounterWord
          /\ Goto(t, "free_block")
     ELSE /\ Goto(t, "free_raw")
          /\ UNCHANGED total_freed
  /\ UNCHANGED <<flags, total_allocated, heap, owned, call, fault>>

\* Mutant: frees the user pointer.
FreeBlockOfUser(t) ==
  LET p == call[t].ptr IN
  /\ Running(t, "free_block")
  /\ LibcFree(p.blk, p.off)
  /\ Set(t, [call[t] EXCEPT !.ptr = NULL])
  /\ Goto(t, "return")
  /\ UNCHANGED <<flags, totals, owned>>

\* __libc_free(header->raw_ptr), the last step of free and of a growing realloc
FreeBlockOf(t) ==
  LET p == call[t].ptr IN
  /\ Running(t, "free_block")
  /\ LibcFree(p.blk, HeaderOf(p).raw)
  /\ Set(t, [call[t] EXCEPT !.ptr = NULL])
  /\ Goto(t, "return")
  /\ UNCHANGED <<flags, totals, owned>>

\* __libc_free(ptr)
FreeRaw(t) ==
  LET p == call[t].ptr IN
  /\ Running(t, "free_raw")
  /\ LibcFree(p.blk, p.off)
  /\ Set(t, [call[t] EXCEPT !.ptr = NULL])
  /\ Goto(t, "return")
  /\ UNCHANGED <<flags, totals, owned>>

(***************************************************************************)
(* A call returns.  A realloc that returned NULL without freeing its       *)
(* argument leaves the old pointer with the client, one that succeeded     *)
(* does not; the client fills the memory it was given.                     *)
(***************************************************************************)
Return(t) ==
  LET c == call[t] IN
  /\ Running(t, "return")
  /\ owned' = owned \cup ((IF c.res # NULL THEN {c.res} ELSE {c.ptr}) \ {NULL})
  /\ IF c.res = NULL THEN UNCHANGED heap
     ELSE heap' = [heap EXCEPT ![c.res.blk].data = c.res.len]
  /\ Set(t, NoCall)
  /\ Goto(t, "idle")
  /\ UNCHANGED <<flags, totals, fault>>

(***************************************************************************)
(* allocator_init, called by a client or from the guard of an entry point. *)
(***************************************************************************)
InitReturn(t, ok) ==
  Goto(t, IF call[t].op = "init" \/ ~ok THEN "return" ELSE "body")

InitEntry(t) ==
  /\ Running(t, "init")
  /\ IF initialized THEN InitReturn(t, TRUE) ELSE Goto(t, "init_check")
  /\ UNCHANGED <<flags, totals, heap, owned, call, fault>>

InitCheck(t) ==
  /\ Running(t, "init_check")
  /\ IF initializing THEN InitReturn(t, FALSE) ELSE Goto(t, "init_set")
  /\ UNCHANGED <<flags, totals, heap, owned, call, fault>>

InitSet(t) ==
  /\ Running(t, "init_set")
  /\ initializing' = TRUE
  /\ Goto(t, "init_clear")
  /\ UNCHANGED <<initialized, subsystems, totals, heap, owned, call, fault>>

\* memset(&g_allocator, 0, ...), then the configuration and the log
InitClear(t) ==
  /\ Running(t, "init_clear")
  /\ initialized' = FALSE
  /\ total_allocated' = 0 /\ total_freed' = 0
  /\ Goto(t, "init_flag")
  /\ UNCHANGED <<initializing, subsystems, heap, owned, call, fault>>

InitFlag(t) ==
  /\ Running(t, "init_flag")
  /\ initialized' = TRUE
  /\ Goto(t, "init_subsystems")
  /\ UNCHANGED <<initializing, subsystems, totals, heap, owned, call, fault>>

\* arena_manager_init, arena_create, mutex_init, pthread_key_create; when one
\* fails, what was created is shut down again
InitSubsystems(t) ==
  /\ Running(t, "init_subsystems")
  /\ \/ subsystems' = TRUE /\ Goto(t, "init_totals")
     \/ subsystems' = FALSE /\ Goto(t, "init_undo")
  /\ UNCHANGED <<initialized, initializing, totals, heap, owned, call, fault>>

InitUndo(t) ==
  /\ Running(t, "init_undo")
  /\ initializing' = FALSE
  /\ Goto(t, "init_undo_flag")
  /\ UNCHANGED <<initialized, subsystems, totals, heap, owned, call, fault>>

\* Mutant: initialized stays set.
InitUndoFlagLeft(t) ==
  /\ Running(t, "init_undo_flag")
  /\ InitReturn(t, FALSE)
  /\ UNCHANGED <<flags, totals, heap, owned, call, fault>>

InitUndoFlag(t) ==
  /\ Running(t, "init_undo_flag")
  /\ initialized' = FALSE
  /\ InitReturn(t, FALSE)
  /\ UNCHANGED <<initializing, subsystems, totals, heap, owned, call, fault>>

InitTotals(t) ==
  /\ Running(t, "init_totals")
  /\ total_allocated' = 0 /\ total_freed' = 0
  /\ Goto(t, "init_done")
  /\ UNCHANGED <<flags, heap, owned, call, fault>>

InitDone(t) ==
  /\ Running(t, "init_done")
  /\ initializing' = FALSE
  /\ InitReturn(t, TRUE)
  /\ UNCHANGED <<initialized, subsystems, totals, heap, owned, call, fault>>

(***************************************************************************)
(* allocator_shutdown.                                                     *)
(***************************************************************************)
ShutdownSet(t) ==
  /\ Running(t, "sd_set")
  /\ initializing' = TRUE
  /\ Goto(t, "sd_check")
  /\ UNCHANGED <<initialized, subsystems, totals, heap, owned, call, fault>>

ShutdownCheck(t) ==
  /\ Running(t, "sd_check")
  /\ Goto(t, IF initialized THEN "sd_teardown" ELSE "sd_done")
  /\ UNCHANGED <<flags, totals, heap, owned, call, fault>>

\* arena_manager_shutdown, the tcaches, pthread_key_delete
ShutdownTeardown(t) ==
  /\ Running(t, "sd_teardown")
  /\ subsystems' = FALSE
  /\ Goto(t, "sd_totals")
  /\ UNCHANGED <<initialized, initializing, totals, heap, owned, call, fault>>

ShutdownTotals(t) ==
  /\ Running(t, "sd_totals")
  /\ total_allocated' = 0 /\ total_freed' = 0
  /\ Goto(t, "sd_flag")
  /\ UNCHANGED <<flags, heap, owned, call, fault>>

ShutdownFlag(t) ==
  /\ Running(t, "sd_flag")
  /\ initialized' = FALSE
  /\ Goto(t, "sd_clear")
  /\ UNCHANGED <<initializing, subsystems, totals, heap, owned, call, fault>>

\* memset(&g_allocator, 0, ...)
ShutdownClear(t) ==
  /\ Running(t, "sd_clear")
  /\ initialized' = FALSE
  /\ total_allocated' = 0 /\ total_freed' = 0
  /\ Goto(t, "sd_done")
  /\ UNCHANGED <<initializing, subsystems, heap, owned, call, fault>>

ShutdownDone(t) ==
  /\ Running(t, "sd_done")
  /\ initializing' = FALSE
  /\ Goto(t, "return")
  /\ UNCHANGED <<initialized, subsystems, totals, heap, owned, call, fault>>

(***************************************************************************)
(* The specification.                                                      *)
(***************************************************************************)
Init ==
  /\ initialized = FALSE /\ initializing = FALSE /\ subsystems = FALSE
  /\ total_allocated = 0 /\ total_freed = 0
  /\ heap = [b \in Blocks |-> FreeBlock]
  /\ owned = {}
  /\ pc = [t \in Threads |-> "idle"]
  /\ call = [t \in Threads |-> NoCall]
  /\ fault = FALSE

Client(t) == \/ CallInit(t) \/ CallShutdown(t) \/ CallMalloc(t) \/ CallCalloc(t)
             \/ CallRealloc(t) \/ CallAligned(t) \/ CallFree(t) \/ Return(t)

Guard(t) == \/ Enter(t) \/ EnterInitializing(t)
            \/ SystemMalloc(t) \/ SystemAligned(t) \/ SystemRealloc(t)

Body(t) == \/ Malloc(t) \/ MallocCount(t) \/ Calloc(t) \/ Aligned(t)
           \/ ReallocForward(t) \/ ReallocForeign(t) \/ ReallocShrink(t)
           \/ ReallocGrow(t) \/ ReallocFreed(t) \/ ReallocAllocated(t)
           \/ Free(t) \/ FreeInitializing(t) \/ FreeHeader(t)
           \/ FreeBlockOf(t) \/ FreeRaw(t)

Start(t) == \/ InitEntry(t) \/ InitCheck(t) \/ InitSet(t) \/ InitClear(t)
            \/ InitFlag(t) \/ InitSubsystems(t) \/ InitUndo(t)
            \/ InitUndoFlag(t) \/ InitTotals(t) \/ InitDone(t)

Stop(t) == \/ ShutdownSet(t) \/ ShutdownCheck(t) \/ ShutdownTeardown(t)
           \/ ShutdownTotals(t) \/ ShutdownFlag(t) \/ ShutdownClear(t)
           \/ ShutdownDone(t)

Next == \E t \in Threads : Client(t) \/ Guard(t) \/ Body(t) \/ Start(t) \/ Stop(t)

Spec == Init /\ [][Next]_vars

(***************************************************************************)
(* Properties.                                                             *)
(***************************************************************************)
PointerOrNull == Pointer \cup {NULL}
CallOps == AllOps \cup {"none", "calloc_malloc"}
Call == [op : CallOps, ptr : PointerOrNull, size : Nat,
         align : Aligns \cup {0}, len : Nat, had : Nat, old : Nat, res : PointerOrNull]

\* The types of the variables: the counters of g_allocator stay below CounterWord.
TypeOK ==
  /\ initialized \in BOOLEAN /\ initializing \in BOOLEAN
  /\ subsystems \in BOOLEAN /\ fault \in BOOLEAN
  /\ total_allocated \in 0..(CounterWord - 1) /\ total_freed \in 0..(CounterWord - 1)
  /\ heap \in [Blocks -> Block]
  /\ owned \subseteq Pointer
  /\ pc \in [Threads -> Steps]
  /\ call \in [Threads -> Call]

\* What the steps of a call take for granted: free has a pointer once it has
\* seen one, an allocating call has no result before it gets its block and has
\* one when malloc counts it, and a realloc that returns its new block has freed
\* the old one.
Shape(t) ==
  /\ pc[t] \in {"free_initializing", "free_header", "free_block", "free_raw",
                "realloc_freed", "realloc_allocated"} => call[t].ptr # NULL
  /\ pc[t] \in LifecycleSteps \cup {"idle", "enter", "enter_initializing", "system", "body"}
       => call[t].res = NULL
  /\ pc[t] = "idle" \/ call[t].op \notin {"realloc", "free"} => call[t].ptr = NULL
  /\ pc[t] \in {"malloc_count", "return"} => call[t].res = NULL \/ call[t].ptr = NULL
  /\ pc[t] = "malloc_count" => call[t].res # NULL
CallShape == \A t \in Threads : Shape(t)

\* No call ever gives libc an address that libc did not return or that was
\* freed already: free and realloc find the header of every block they wrapped
\* and pass raw_ptr on, in whatever order the threads' steps fall.
NoBadFree == ~fault

InCall(t) == {call[t].ptr, call[t].res} \ {NULL}

\* Two pointers that are in somebody's hands, with a client or inside a call,
\* never share a block, and every such block is in use: what malloc, realloc
\* and aligned_alloc return overlaps nothing that has not been freed, and a
\* realloc that moves has two blocks until it frees the old one.
Exclusive ==
  /\ \A p \in owned : heap[p.blk].live
  /\ \A p, q \in owned : p.blk = q.blk => p = q
  /\ \A t \in Threads : \A p \in InCall(t) :
       /\ heap[p.blk].live
       /\ \A q \in owned : q.blk # p.blk
       /\ \A u \in Threads \ {t} : \A q \in InCall(u) : q.blk # p.blk
  /\ \A t \in Threads : LET c == call[t] IN
       c.ptr # NULL /\ c.res # NULL => c.ptr.blk # c.res.blk

\* A block libc handed out is reachable from a pointer a client holds or a
\* call works on: free, realloc and their failure paths lose no memory.
NoLeak ==
  \A b \in Blocks : heap[b].live /\ ~fault =>
    \/ \E p \in owned : p.blk = b
    \/ \E t \in Threads : \E p \in InCall(t) : p.blk = b

\* The bytes a client asked for, and the header below them, lie inside the
\* block: the sizes computed for libc cover header, padding and request.  The
\* header says what the owner last asked for (1 where it asked for 0), so
\* malloc_usable_size is right and realloc copies all of it.
InBounds ==
  \A p \in owned :
    /\ p.off + p.len <= heap[p.blk].cap
    /\ HasHeader(p) => /\ p.off >= HeaderSize
                       /\ HeaderOf(p).req \in {p.len, AtLeastOne(p.len)}

\* What a client gets back holds what it may expect: after realloc the common
\* prefix of the old and the new length, whichever path it took, and after calloc
\* nmemb * size cleared bytes, be the block libc's, a fallback's or malloc's.
ContentsKept ==
  \A t \in Threads : LET c == call[t] IN
    pc[t] = "return" /\ c.res # NULL =>
      /\ c.op = "realloc" => heap[c.res.blk].data >= Smaller(c.had, c.len)
      /\ c.op \in {"calloc", "calloc_malloc"} => heap[c.res.blk].data >= c.len

\* Between calls the allocator is either completely up or completely down: an
\* init that failed half way leaves no flag and no subsystem behind.
LifecycleAgrees ==
  (\A t \in Threads : pc[t] = "idle") =>
    /\ ~initializing
    /\ initialized = subsystems

\* A pointer is a multiple of the alignment its owner asked for, and of
\* HeaderAlign where it asked for none.
ReturnsAligned ==
  \A t \in Threads : LET c == call[t] IN
    pc[t] = "return" /\ c.res # NULL =>
      \/ c.op = "aligned" /\ (Base[c.res.blk] + c.res.off) % c.align = 0
      \/ c.op # "aligned" /\ (Base[c.res.blk] + c.res.off) % HeaderAlign = 0

=============================================================================
