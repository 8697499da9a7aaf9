-------------------------------- MODULE Arena --------------------------------
(***************************************************************************)
(* memory/arena.c and memory/chunk.c: one arena, the chunks it creates and *)
(* the runs of blocks in them.                                             *)
(*                                                                         *)
(* A small allocation looks for a chunk under fast_lock, drops that lock   *)
(* to create one under the arena's mutex, and takes fast_lock again to use *)
(* it; each of these sections is a step.  A chunk is only reached through  *)
(* the list of one size class, so all its runs are of that class, and the  *)
(* lists of the other classes are left out.  The lists of an arena share   *)
(* the one list node of a chunk; they are kept as the links that utils/    *)
(* list.h writes.                                                          *)
(***************************************************************************)

EXTENDS Integers, Sequences, FiniteSetsExt, Functions

CONSTANTS
  Threads,
  BlockSizes,    \* class_to_size: the block size of each class, from class 0
  RunSize,       \* CHUNK_RUN_SIZE
  ChunkSize,     \* CHUNK_DEFAULT_SIZE
  UsableOffset,  \* where the header of a chunk ends
  MaxChunks,     \* MAX_ARENA_CHUNKS
  Requests,      \* the sizes asked for
  MaxInUse,      \* a bound on the pointers in use
  MaxRuns        \* a bound on the runs of a chunk

NumClasses == Len(BlockSizes)
Classes == 0 .. NumClasses - 1
class_to_size(c) == BlockSizes[c + 1]

\* The class of a chunk that serves one large request.
LargeClass == NumClasses

size_to_class(size) == Min({c \in Classes : size <= class_to_size(c)} \union {LargeClass})

(* Class 0 divides all that blocks are made of, as 8 does; a large request *)
(* is more than half a chunk.                                              *)
ASSUME ArenaAssumption ==
  /\ IsFiniteSet(Threads)
  /\ BlockSizes \in Seq(Nat \ {0})
  /\ \A c \in Classes : class_to_size(c) % class_to_size(0) = 0
  /\ RunSize \in Nat \ {0} /\ RunSize % class_to_size(0) = 0
  /\ ChunkSize \in Nat /\ UsableOffset \in 1 .. ChunkSize
  /\ UsableOffset % class_to_size(0) = 0
  /\ RunSize <= ChunkSize - UsableOffset
  /\ Requests \subseteq Nat \ {0}
  /\ \A s \in Requests : size_to_class(s) = LargeClass => 2 * s > ChunkSize
  /\ MaxChunks \in Nat /\ MaxInUse \in Nat /\ MaxRuns \in Nat

num_blocks(c) == RunSize \div class_to_size(c)
Blocks(c) == 0 .. num_blocks(c) - 1

VARIABLES
  chunks,      \* the chunks created, by number
  num_chunks,
  links,       \* the next and prev fields of the list nodes
  in_use,      \* how many clients hold each pointer
  pc, call     \* where each thread is, with the locals of its call

vars == <<chunks, num_chunks, links, in_use, pc, call>>

(* The nodes: the head of arena->list, the heads of chunks_free, and the   *)
(* chunks.                                                                 *)
ListHead == 0
FreeHead(c) == -(c + 1)
Nodes == -NumClasses .. MaxChunks

Run(c) == [alloc_bitmap : SUBSET Blocks(c), free_blocks_count : 0 .. num_blocks(c)]

(* large is the size of the large block, or 0; overlaid is history: a run  *)
(* was made while the chunk had another one.                               *)
SmallChunk(c) == [class : {c}, large : {0}, runs_free : Seq(Run(c)), runs_full : Seq(Run(c)),
                  num_runs : Nat, overlaid : BOOLEAN]
LargeChunk == [class : {LargeClass}, large : 1 .. ChunkSize, runs_free : {<<>>}, runs_full : {<<>>},
               num_runs : {0}, overlaid : {FALSE}]

Pointer == [chunk : 1 .. MaxChunks, offset : 0 .. RunSize - 1]
NoPointer == [chunk |-> 0, offset |-> 0]

\* The locals: the size asked for, the chunk made for it, and in realloc the old
\* pointer and the new one.
Idle == [size |-> 0, chunk |-> 0, old |-> NoPointer, new |-> NoPointer]

(* "find" before the lists are searched for a chunk, "grow" before one is  *)
(* made, "use" before it is used, "release" before realloc frees the old   *)
(* block.                                                                  *)
Locations == {"idle", "find", "grow", "use", "release"}

Init ==
  /\ chunks = <<>>
  /\ num_chunks = 0
  /\ links = [next |-> [n \in Nodes |-> n], prev |-> [n \in Nodes |-> n]]
  /\ in_use = [p \in Pointer |-> 0]
  /\ pc = [t \in Threads |-> "idle"]
  /\ call = [t \in Threads |-> Idle]

-----------------------------------------------------------------------------
(* Lists: list_add_tail, and the first entry of a list.                    *)

AddTail(l, n, head) ==
  LET last == l.prev[head]
  IN [next |-> [l.next EXCEPT ![last] = n, ![n] = head],
      prev |-> [l.prev EXCEPT ![n] = last, ![head] = n]]

ListEmpty(head) == links.next[head] = head
First(head) == links.next[head]

-----------------------------------------------------------------------------
(* Chunks.                                                                 *)

AlignUp(x, a) == ((x + a - 1) \div a) * a

NewChunk(c, large) ==
  [class |-> c, large |-> large, runs_free |-> <<>>, runs_full |-> <<>>,
   num_runs |-> 0, overlaid |-> FALSE]

NewRun(c) == [alloc_bitmap |-> {}, free_blocks_count |-> num_blocks(c)]

WithRun(ch) ==
  [ch EXCEPT !.runs_free = Append(@, NewRun(ch.class)),
             !.num_runs = @ + 1,
             !.overlaid = @ \/ ch.num_runs > 0]

(* utils/bitmap.h.  A bitmap is the set of the bits that are 1; its words   *)
(* are left out, and the search of num_bits bits gives that number when    *)
(* all are 1.                                                              *)
bitmap_get(bitmap, index) == index \in bitmap
bitmap_set(bitmap, index) == bitmap \union {index}
bitmap_clear_bit(bitmap, index) == bitmap \ {index}
bitmap_find_first_clear(bitmap, num_bits) == Min(((0 .. num_bits - 1) \ bitmap) \union {num_bits})

\* The first run that is not full, no run when there is none.
chunk_find_available_run(ch) ==
  IF ch.runs_free # <<>> THEN {Head(ch.runs_free)} ELSE {}

\* A mistake: the bit of the block is not set.
TakenUnset(run, i) == [run EXCEPT !.free_blocks_count = @ - 1]
Taken(run, i) ==
  [alloc_bitmap |-> bitmap_set(run.alloc_bitmap, i), free_blocks_count |-> run.free_blocks_count - 1]

Filed(ch, run) ==
  IF run.free_blocks_count = 0
  THEN [ch EXCEPT !.runs_free = Tail(@), !.runs_full = Append(@, run)]
  ELSE [ch EXCEPT !.runs_free[1] = run]

(* The first free block of the first run: the chunk after it is taken, and *)
(* its offset, -1 for NULL.  The run is the first of its list, so its base *)
(* is that of the usable memory.  A run of a class whose blocks are larger *)
(* than runs has none.                                                     *)
Take(ch) ==
  LET run == Head(ch.runs_free)
      i == bitmap_find_first_clear(run.alloc_bitmap, num_blocks(ch.class))
  IN IF i = num_blocks(ch.class)
     THEN [chunk |-> ch, offset |-> -1]
     ELSE [chunk |-> Filed(ch, Taken(run, i)), offset |-> i * class_to_size(ch.class)]

(* chunk_alloc_small, with every outcome of the allocations it makes for a *)
(* run; those of one run too many fail.                                    *)
AllocSmall(ch) ==
  IF chunk_find_available_run(ch) # {}
  THEN {Take(ch)}
  ELSE {[chunk |-> ch, offset |-> -1]} \union
       IF ch.num_runs < MaxRuns THEN {Take(WithRun(ch))} ELSE {}

WithoutNth(s, k) == SubSeq(s, 1, k - 1) \o SubSeq(s, k + 1, Len(s))

\* A mistake: a run is given up when one block of it is left.
EmptiedEarly(run, c) == run.free_blocks_count >= num_blocks(c) - 1
Emptied(run, c) == run.free_blocks_count = num_blocks(c)

(* The k-th run, counted through runs_free and on through runs_full, after *)
(* a block of it was freed.  An emptied run is given back to libc; any     *)
(* other stays in its list, for its node is never the empty one that would *)
(* let it move from runs_full to runs_free.                                *)
InLists(ch, k, run) ==
  LET n == Len(ch.runs_free)
      gone == Emptied(run, ch.class)
  IN [ch EXCEPT
       !.runs_free = IF k > n THEN @ ELSE IF gone THEN WithoutNth(@, k) ELSE [@ EXCEPT ![k] = run],
       !.runs_full = IF k <= n THEN @ ELSE IF gone THEN WithoutNth(@, k - n) ELSE [@ EXCEPT ![k - n] = run]]

\* A mistake: the chunk goes on counting the run given back.
RefiledUncounted(ch, k, run) == InLists(ch, k, run)
Refiled(ch, k, run) ==
  [InLists(ch, k, run) EXCEPT !.num_runs = IF Emptied(run, ch.class) THEN @ - 1 ELSE @]

FreedBlock(ch, k, run, i) ==
  IF bitmap_get(run.alloc_bitmap, i)
  THEN Refiled(ch, k, [alloc_bitmap |-> bitmap_clear_bit(run.alloc_bitmap, i),
                       free_blocks_count |-> run.free_blocks_count + 1])
  ELSE ch

\* chunk_free_small: the chunk after the block at offset was freed as one of
\* class c.
FreeSmall(ch, offset, c) ==
  LET all == IF c = ch.class THEN ch.runs_free \o ch.runs_full ELSE <<>>
      k == offset \div RunSize + 1
      i == (offset - (k - 1) * RunSize) \div class_to_size(c)
  IN IF k > Len(all) \/ i >= num_blocks(c) THEN ch ELSE FreedBlock(ch, k, all[k], i)

\* The class whose blocks could start there, first come first served.
Guess(offset) == Min({c \in Classes : offset % class_to_size(c) = 0})

-----------------------------------------------------------------------------
(* What the clients hold.                                                  *)

InCalls(p) == Cardinality({t \in Threads : call[t].old = p}) + Cardinality({t \in Threads : call[t].new = p})

\* How many hold p, the calls that will return or free it included.
Holders(p) == in_use[p] + InCalls(p)

Busy == SumFunction(in_use) + Cardinality({t \in Threads : pc[t] # "idle"})

At(ch, offset) == [chunk |-> ch, offset |-> offset]

(* The end of an allocation: the pointer goes to the client, or a realloc  *)
(* goes on to free the old block; without a pointer the old one is kept.   *)
Obtained(t, p) ==
  IF call[t].old = NoPointer
  THEN /\ in_use' = [in_use EXCEPT ![p] = @ + 1]
       /\ pc' = [pc EXCEPT ![t] = "idle"]
       /\ call' = [call EXCEPT ![t] = Idle]
  ELSE /\ pc' = [pc EXCEPT ![t] = "release"]
       /\ call' = [call EXCEPT ![t].new = p]
       /\ UNCHANGED in_use

Failed(t) ==
  /\ in_use' = IF call[t].old = NoPointer THEN in_use ELSE [in_use EXCEPT ![call[t].old] = @ + 1]
  /\ pc' = [pc EXCEPT ![t] = "idle"]
  /\ call' = [call EXCEPT ![t] = Idle]

-----------------------------------------------------------------------------
(* The calls.                                                              *)

CallMalloc(t) ==
  /\ pc[t] = "idle"
  /\ Busy < MaxInUse
  /\ \E s \in Requests : call' = [call EXCEPT ![t].size = s]
  /\ pc' = [pc EXCEPT ![t] = "find"]
  /\ UNCHANGED <<chunks, num_chunks, links, in_use>>

(* What arena_realloc takes for the size of a block: the size of the first *)
(* class that divides its distance from the start of the chunk.            *)
OldSize(p) ==
  IF chunks[p.chunk].large > 0
  THEN UsableOffset + chunks[p.chunk].large
  ELSE class_to_size(Guess(UsableOffset + p.offset))

\* A block that is large enough is given back as it is.
CallRealloc(t) ==
  /\ pc[t] = "idle"
  /\ Busy <= MaxInUse
  /\ \E p \in Pointer, s \in Requests :
       /\ in_use[p] > 0
       /\ s > OldSize(p)
       /\ in_use' = [in_use EXCEPT ![p] = @ - 1]
       /\ call' = [call EXCEPT ![t] = [Idle EXCEPT !.size = s, !.old = p]]
  /\ pc' = [pc EXCEPT ![t] = "find"]
  /\ UNCHANGED <<chunks, num_chunks, links>>

AllocFrom(t, n) ==
  \E r \in AllocSmall(chunks[n]) :
    /\ chunks' = [chunks EXCEPT ![n] = r.chunk]
    /\ IF r.offset = -1 THEN Failed(t) ELSE Obtained(t, At(n, r.offset))
    /\ UNCHANGED <<num_chunks, links>>

\* Under fast_lock: the first chunk of the class, if there is one.
MallocFind(t) ==
  LET c == size_to_class(call[t].size)
  IN /\ pc[t] = "find"
     /\ c # LargeClass
     /\ IF ListEmpty(FreeHead(c))
        THEN /\ pc' = [pc EXCEPT ![t] = "grow"]
             /\ UNCHANGED <<chunks, num_chunks, links, in_use, call>>
        ELSE AllocFrom(t, First(FreeHead(c)))

\* A chunk that could not be had: too many of them, or no memory.
GrowFailed(t) ==
  /\ pc[t] = "grow" \/ (pc[t] = "find" /\ size_to_class(call[t].size) = LargeClass)
  /\ Failed(t)
  /\ UNCHANGED <<chunks, num_chunks, links>>

\* arena->list with the next chunk at its end.
InArena == AddTail(links, num_chunks + 1, ListHead)

\* Under the mutex: a new chunk goes to arena->list and to a list of free chunks.
NewChunkIn(t, l) ==
  /\ chunks' = Append(chunks, NewChunk(size_to_class(call[t].size), 0))
  /\ num_chunks' = num_chunks + 1
  /\ links' = l
  /\ pc' = [pc EXCEPT ![t] = "use"]
  /\ call' = [call EXCEPT ![t].chunk = num_chunks + 1]
  /\ UNCHANGED in_use

\* A mistake: the chunk is left out of chunks_free.
GrowUnlisted(t) ==
  /\ pc[t] = "grow"
  /\ num_chunks < MaxChunks
  /\ NewChunkIn(t, InArena)
Grow(t) ==
  /\ pc[t] = "grow"
  /\ num_chunks < MaxChunks
  /\ NewChunkIn(t, AddTail(InArena, num_chunks + 1, FreeHead(size_to_class(call[t].size))))

\* Under fast_lock again.
MallocUse(t) ==
  /\ pc[t] = "use"
  /\ AllocFrom(t, call[t].chunk)

\* A new chunk with one large block from its first usable byte, if it can hold
\* the block in whole runs: the set of what there can be.
chunk_alloc_large(size) ==
  LET aligned_size == AlignUp(size, RunSize)
  IN IF aligned_size > ChunkSize - UsableOffset THEN {} ELSE {NewChunk(LargeClass, aligned_size)}

\* Under the mutex: a chunk for one large request.
MallocLarge(t) ==
  LET n == num_chunks + 1
  IN /\ pc[t] = "find"
     /\ size_to_class(call[t].size) = LargeClass
     /\ num_chunks < MaxChunks
     /\ \E ch \in chunk_alloc_large(call[t].size) : chunks' = Append(chunks, ch)
     /\ num_chunks' = n
     /\ links' = InArena
     /\ Obtained(t, At(n, 0))

(* arena_free: a block of a small chunk is freed as one of the class its   *)
(* offset suggests.  A large chunk would be destroyed if less than a tenth *)
(* of it were allocated, but what is allocated counts the block that was   *)
(* freed, more than half of the chunk, so it stays.                        *)
ArenaFree(p) ==
  chunks' = IF chunks[p.chunk].large > 0
            THEN chunks
            ELSE [chunks EXCEPT ![p.chunk] = FreeSmall(@, p.offset, Guess(p.offset))]

CallFree(t) ==
  /\ pc[t] = "idle"
  /\ \E p \in Pointer :
       /\ in_use[p] > 0
       /\ in_use' = [in_use EXCEPT ![p] = @ - 1]
       /\ ArenaFree(p)
  /\ UNCHANGED <<num_chunks, links, pc, call>>

ReallocRelease(t) ==
  /\ pc[t] = "release"
  /\ ArenaFree(call[t].old)
  /\ in_use' = [in_use EXCEPT ![call[t].new] = @ + 1]
  /\ pc' = [pc EXCEPT ![t] = "idle"]
  /\ call' = [call EXCEPT ![t] = Idle]
  /\ UNCHANGED <<num_chunks, links>>

(* The nodes that arena_destroy meets: from the first of arena->list on,   *)
(* each is taken for a chunk and freed, until the head comes round.  That  *)
(* a node is removed leaves the next fields of those after it.             *)
DestroyMeets[k \in 0 .. MaxChunks] ==
  IF k = 0 THEN First(ListHead) ELSE links.next[DestroyMeets[k - 1]]

Next ==
  \E t \in Threads :
    \/ CallMalloc(t) \/ CallRealloc(t) \/ CallFree(t)
    \/ MallocFind(t) \/ GrowFailed(t) \/ Grow(t) \/ MallocUse(t)
    \/ MallocLarge(t) \/ ReallocRelease(t)

Spec == Init /\ [][Next]_vars

-----------------------------------------------------------------------------
(* Properties.                                                             *)

\* Every variable has its type.
TypeOK ==
  /\ num_chunks \in 0 .. MaxChunks
  /\ \A n \in 1 .. Len(chunks) :
       chunks[n] \in LargeChunk \/ \E c \in Classes : chunks[n] \in SmallChunk(c)
  /\ links \in [next : [Nodes -> Nodes], prev : [Nodes -> Nodes]]
  /\ in_use \in [Pointer -> Nat]
  /\ pc \in [Threads -> Locations]
  /\ call \in [Threads -> [size : Requests \union {0}, chunk : 0 .. MaxChunks,
                          old : Pointer \union {NoPointer}, new : Pointer \union {NoPointer}]]

(* The lock is dropped between the search and the new chunk, so threads    *)
(* may make a chunk each for one class, but never more than that.          *)
OneChunkEach ==
  \A c \in Classes : Cardinality({n \in 1 .. Len(chunks) : chunks[n].class = c}) <= Cardinality(Threads)

Runs(n) == chunks[n].runs_free \o chunks[n].runs_full
RunsOf(n) == {Runs(n)[k] : k \in 1 .. Len(Runs(n))}

(* The counts of a run and of a chunk are those of the bitmaps and the     *)
(* lists, whatever was freed, and no empty run is kept.                    *)
RunsCounted ==
  \A n \in 1 .. Len(chunks) :
    /\ chunks[n].num_runs = Len(Runs(n))
    /\ \A run \in RunsOf(n) :
         /\ run.free_blocks_count = num_blocks(chunks[n].class) - Cardinality(run.alloc_bitmap)
         /\ num_blocks(chunks[n].class) > 0 => run.alloc_bitmap # {}

\* The bits that are set: the number of a run, and that of a block in it.
BitsIn(runs) == UNION {{k} \X runs[k].alloc_bitmap : k \in DOMAIN runs}

BitsOf(n) == Cardinality(BitsIn(chunks[n].runs_free)) + Cardinality(BitsIn(chunks[n].runs_full))
HoldersOf(n) == SumFunctionOnSet([p \in Pointer |-> Holders(p)], {p \in Pointer : p.chunk = n})

(* The bitmaps of a chunk never show fewer blocks than are held: a free    *)
(* takes one bit at most, in whichever run it finds.                       *)
BitsCoverHolders ==
  \A n \in 1 .. Len(chunks) : chunks[n].large = 0 => HoldersOf(n) <= BitsOf(n)

(* As long as no run of a chunk has filled up, a pointer into it has one   *)
(* holder and its bit is set.                                              *)
OneHolderUntilFull ==
  \A p \in Pointer :
    Holders(p) > 0 /\ ~chunks[p.chunk].overlaid =>
      /\ Holders(p) = 1
      /\ chunks[p.chunk].large = 0 =>
           \E run \in RunsOf(p.chunk) :
             p.offset \div class_to_size(chunks[p.chunk].class) \in run.alloc_bitmap

(* The shutdown frees all of an arena, says allocator.c:538: when no call  *)
(* is in progress, arena_destroy's walk meets every chunk, once, and then  *)
(* the head it began at.  It does not once a small chunk was made, whose   *)
(* one list node was added to chunks_free after arena->list.               *)
AllChunksDestroyed ==
  (\A t \in Threads : pc[t] = "idle") =>
    \A k \in 0 .. num_chunks :
      DestroyMeets[k] = IF k < num_chunks THEN k + 1 ELSE ListHead

==============================================================================
