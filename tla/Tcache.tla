------------------------------- MODULE Tcache -------------------------------
(***************************************************************************)
(* cache/tcache.c and allocator_get_tcache: a cache of free blocks per     *)
(* thread, a stack of them (a bin) for each size class.  A cache belongs   *)
(* to one thread, so each of its operations is one step; blocks go from    *)
(* the cache of the thread that allocates them to that of the thread that  *)
(* frees them.                                                             *)
(*                                                                         *)
(* Of the arena (which has a module of its own) this one takes only that   *)
(* arena_malloc gives a block of the class it is asked for, if blocks of   *)
(* that class fit into a run, or fails.  It may give an address somebody   *)
(* has: a block here stands for one time an address is given, until it is  *)
(* given back, and two blocks may have one address.  The allocator is shut *)
(* down by the last thread.                                                *)
(***************************************************************************)

EXTENDS SizeClass, Sequences, SequencesExt, FiniteSets, Functions

CONSTANTS
  Threads,
  NULL,
  Blocks,      \* what the arena may give
  BlockClass,  \* the class of the run a block is in
  Offset,      \* where it is in its chunk
  Sizes,       \* the requests
  RunSize,     \* CHUNK_RUN_SIZE
  SmallCapacity, MediumCapacity,  \* TCACHE_BIN_CAPACITY_SMALL, _MEDIUM
  MAX_THREADS,
  MaxCaches    \* a bound of the model: how many caches are ever created

ASSUME TcacheAssumption ==
  /\ NULL \notin Threads /\ IsFiniteSet(Blocks)
  /\ BlockClass \in [Blocks -> 0 .. NumClasses - 1]
  /\ \A b \in Blocks : class_to_size(BlockClass[b]) \in 1 .. RunSize /\ Offset[b] \in Nat
  /\ Sizes \subseteq Nat \ {0}
  /\ SmallCapacity \in Nat \ {0} /\ MediumCapacity \in Nat \ {0}
  /\ MAX_THREADS \in Nat \ {0} /\ MaxCaches \in Nat

VARIABLES
  arena,     \* the blocks that are with the arena
  num_arenas,  \* of the arena manager
  chunked,   \* the arena has a chunk in the list of a class
  ended,     \* a shutdown does not return: an end of the model
  bins,      \* by thread and class, the top of the stack last; <<>> is no cache
  tcaches,   \* the array of the allocator, by index: the thread whose cache it is
  counter,   \* tcache_id_counter
  request    \* the blocks the clients hold, with the size that was asked for

vars == <<page_size, arena, num_arenas, chunked, ended, bins, tcaches, counter, request>>

Life == <<num_arenas, chunked, ended>>

Classes == 0 .. NumClasses - 1

Capacity(c) == IF c < NumSmall THEN SmallCapacity ELSE MediumCapacity
FillLimit == SmallCapacity \div 2

HasCache(t) == bins[t] # <<>>
arena_get_current == num_arenas > 0
Cached(t) == IF HasCache(t) THEN UNION {Range(bins[t][c]) : c \in Classes} ELSE {}

\* A mistake: the last class, with the largest blocks.
ClassOfLargest(offset) ==
  Max({c \in Classes : class_to_size(c) # 0 /\ offset % class_to_size(c) = 0} \union {0})

\* The first class whose blocks could begin at the offset, or else 0; the arrays
\* have an entry that is 0.
ClassOf(offset) ==
  LET possible == {c \in Classes : class_to_size(c) # 0 /\ offset % class_to_size(c) = 0}
  IN IF possible = {} THEN 0 ELSE Min(possible)

Init ==
  /\ page_size \in PageSizes
  /\ arena = Blocks /\ num_arenas = 1 /\ chunked = FALSE /\ ended = FALSE
  /\ bins = [t \in Threads |-> <<>>]
  /\ tcaches = [i \in 0 .. MAX_THREADS - 1 |-> NULL]
  /\ counter = 0
  /\ request = <<>>

-----------------------------------------------------------------------------

\* A mistake: the counter is read, not incremented.
GetAgain(t) ==
  /\ arena_get_current /\ ~HasCache(t)
  /\ bins' = [bins EXCEPT ![t] = [c \in Classes |-> <<>>]]
  /\ tcaches' = [i \in DOMAIN tcaches |-> IF i = counter + 1 THEN t ELSE tcaches[i]]
  /\ UNCHANGED <<arena, Life, counter, request>>

\* tcache_create takes all its memory or none.  The first index is 1; a cache
\* beyond the array is not registered.
allocator_get_tcache(t) ==
  /\ arena_get_current /\ ~HasCache(t) /\ counter < MaxCaches
  /\ bins' = [bins EXCEPT ![t] = [c \in Classes |-> <<>>]]
  /\ counter' = counter + 1
  /\ tcaches' = [i \in DOMAIN tcaches |-> IF i = counter' THEN t ELSE tcaches[i]]
  /\ UNCHANGED <<arena, Life, request>>

Bin(t, size) == bins[t][size_to_class(size)]
Serves(t, size) == HasCache(t) /\ ~is_large_class_idx(size_to_class(size))
Put(t, c, bin) == bins' = [bins EXCEPT ![t][c] = bin]

Given(b, size) == [x \in DOMAIN request \union {b} |-> IF x = b THEN size ELSE request[x]]
Freed(b) == Restrict(request, DOMAIN request \ {b})

\* A mistake: the block stays in the bin.
AllocPeek(t, size) ==
  /\ Serves(t, size) /\ Bin(t, size) # <<>>
  /\ request' = Given(Last(Bin(t, size)), size)
  /\ UNCHANGED <<arena, Life, bins, tcaches, counter>>

\* A miss changes nothing but the statistics.
tcache_alloc(t, size) ==
  /\ Serves(t, size) /\ Bin(t, size) # <<>>
  /\ request' = Given(Last(Bin(t, size)), size)
  /\ Put(t, size_to_class(size), Front(Bin(t, size)))
  /\ UNCHANGED <<arena, Life, tcaches, counter>>

\* The class is guessed from the offset.  With a full bin the client keeps the
\* block (and gives it to the arena).
tcache_free(t, b) ==
  LET c == ClassOf(Offset[b]) IN
  /\ HasCache(t) /\ b \in DOMAIN request /\ Len(bins[t][c]) < Capacity(c)
  /\ Put(t, c, Append(bins[t][c], b))
  /\ request' = Freed(b)
  /\ UNCHANGED <<arena, Life, tcaches, counter>>

\* Whether arena_free finds the run of a block or not, it is the arena's again.
arena_free(blocks) == arena' = arena \union blocks

ClientFree(b) ==
  /\ arena_get_current /\ b \in DOMAIN request /\ arena_free({b})
  /\ request' = Freed(b)
  /\ UNCHANGED <<Life, bins, tcaches, counter>>

\* What arena_malloc gives of a class, called up to a number of times: it makes
\* a chunk, or has one, before it gives anything, and may make one to no avail.
arena_malloc(c, taken, most) ==
  /\ taken \subseteq {b \in arena : BlockClass[b] = c} /\ Cardinality(taken) <= most
  /\ arena' = arena \ taken
  /\ chunked' \in IF most = 0 THEN {chunked} ELSE IF taken = {} THEN {chunked, TRUE} ELSE {TRUE}

Fill(t, c, most) == \E taken \in SUBSET arena :
  /\ arena_malloc(c, taken, most)
  /\ \E order \in SetToSeqs(taken) : Put(t, c, bins[t][c] \o order)

\* A mistake: the limit is only that of one call.
FillWithout(t, size) ==
  /\ Serves(t, size) /\ arena_get_current
  /\ Fill(t, size_to_class(size), FillLimit)
  /\ UNCHANGED <<num_arenas, ended, tcaches, counter, request>>

\* As many blocks as the bin has room for and half a small bin at most, or
\* those before the arena failed.
tcache_fill(t, size) ==
  LET c == size_to_class(size)
  IN /\ Serves(t, size) /\ arena_get_current
     /\ Fill(t, c, Min({Capacity(c) - Len(bins[t][c]), FillLimit}))
     /\ UNCHANGED <<num_arenas, ended, tcaches, counter, request>>

\* The upper half of the bin goes, with no arena to nowhere.
tcache_flush(t, size) ==
  LET bin == Bin(t, size)
      kept == Len(bin) - Len(bin) \div 2
  IN /\ Serves(t, size)
     /\ Put(t, size_to_class(size), SubSeq(bin, 1, kept))
     /\ IF arena_get_current THEN arena_free(Range(SubSeq(bin, kept + 1, Len(bin)))) ELSE UNCHANGED arena
     /\ UNCHANGED <<Life, tcaches, counter, request>>

-----------------------------------------------------------------------------
(* The life of the arena; allocator_init creates the only one.             *)

arena_manager_init == 0

\* The n-th arena, which has no chunk.  (Without memory for it the manager is
\* shut down again and nothing has changed.)
arena_create(n) == num_arenas' = n + 1 /\ chunked' = FALSE

\* The walk over the arena's chunks follows the list node of each, which is in
\* the list of a class as well: it leaves the list of the arena at the first
\* chunk there is, and does not come back.
arena_destroy(n) ==
  /\ ended' = chunked
  /\ num_arenas' = IF chunked THEN n ELSE n - 1
  /\ UNCHANGED chunked

arena_manager_shutdown == num_arenas > 0 /\ arena_destroy(num_arenas)

\* A cache destroyed while there are n arenas gives back what it holds.
tcache_destroy(t, n) == IF n > 0 THEN Cached(t) ELSE {}

\* The arena goes first, so no block of a cache would go back.  The caches the
\* array knows are destroyed, every thread forgets its own.
allocator_shutdown ==
  /\ arena_manager_shutdown
  /\ IF ended' THEN UNCHANGED <<arena, bins, tcaches>>
     ELSE /\ arena' = arena \union UNION {tcache_destroy(t, num_arenas') : t \in Range(tcaches) \ {NULL}}
          /\ bins' = [t \in Threads |-> <<>>]
          /\ tcaches' = [i \in DOMAIN tcaches |-> NULL]
  /\ UNCHANGED <<counter, request>>

allocator_init ==
  /\ ~arena_get_current /\ arena_create(arena_manager_init)
  /\ UNCHANGED <<arena, ended, bins, tcaches, counter, request>>

Next ==
  /\ ~ended /\ UNCHANGED page_size
  /\ \/ \E t \in Threads : allocator_get_tcache(t)
     \/ \E t \in Threads, size \in Sizes :
          tcache_alloc(t, size) \/ tcache_fill(t, size) \/ tcache_flush(t, size)
     \/ \E b \in Blocks : ClientFree(b) \/ \E t \in Threads : tcache_free(t, b)
     \/ allocator_shutdown \/ allocator_init

Spec == Init /\ [][Next]_vars

-----------------------------------------------------------------------------

TypeOK ==
  /\ arena \subseteq Blocks /\ num_arenas \in 0 .. 1 /\ chunked \in BOOLEAN /\ ended \in BOOLEAN
  /\ \A t \in Threads : HasCache(t) => bins[t] \in [Classes -> Seq(Blocks)]
  /\ tcaches \in [0 .. MAX_THREADS - 1 -> Threads \union {NULL}]
  /\ counter \in 0 .. MaxCaches
  /\ DOMAIN request \subseteq Blocks /\ Range(request) \subseteq Sizes

\* What the arena gave is with the arena again, with a client or in one bin of
\* one thread's cache, and there once: the caches hand nothing to two clients and
\* lose nothing, however often it goes from one cache to another, and when a
\* shutdown ends nothing is left in them.  An address two clients have is one that
\* the arena gave twice.
OnePlace ==
  /\ arena \union DOMAIN request \union UNION {Cached(t) : t \in Threads} = Blocks
  /\ \A t, u \in Threads : t # u => Cached(t) \intersect Cached(u) = {}
  /\ \A t \in Threads :
       /\ Cached(t) \intersect (DOMAIN request \union arena) = {}
       /\ HasCache(t) => \A c, d \in Classes :
            /\ IsInjective(bins[t][c])
            /\ c # d => Range(bins[t][c]) \intersect Range(bins[t][d]) = {}
  /\ DOMAIN request \intersect arena = {}

\* No bin holds more than its array of objects, whatever fills, flushes and frees
\* came before.
BinsBounded ==
  \A t \in Threads : HasCache(t) =>
    \A c \in Classes : Len(bins[t][c]) <= Capacity(c)

\* A client's block is as large as it asked for, although tcache_free guesses the
\* class and puts blocks into bins of another one.
Fits == \A b \in DOMAIN request : class_to_size(BlockClass[b]) >= request[b]

\* The allocator knows every cache, and once, across shutdowns and inits: one
\* that gets past the arena, because no cache has asked that for a block, frees
\* them all.  A process that creates more caches than the array has indices is
\* an exception.
CachesRegistered ==
  counter < MAX_THREADS =>
    \A t \in Threads : HasCache(t) => \E i \in DOMAIN tcaches :
      {j \in DOMAIN tcaches : tcaches[j] = t} = {i}
=============================================================================
