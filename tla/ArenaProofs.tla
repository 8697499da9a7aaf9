----------------------------- MODULE ArenaProofs -----------------------------
(***************************************************************************)
(* The chunks and runs of an arena, proved for every number of threads,    *)
(* chunks and classes and every size of runs and blocks.                   *)
(*                                                                         *)
(* What is said of one chunk is kept by every operation on it, whatever    *)
(* the pointer freed: the runs are counted and, until a second one was     *)
(* made, the bits that are set and the blocks that are held can be         *)
(* compared.  The rest is about who holds what: a pointer has its bit, and *)
(* a new one takes a bit that was clear.  How many bits there are is kept  *)
(* apart from that: it covers the holders even when two runs overlie.      *)
(***************************************************************************)
EXTENDS Arena, SumTheorems, SequenceTheorems, FiniteSetTheorems, WellFoundedInduction, TLAPS

-----------------------------------------------------------------------------
(* The invariant of a chunk.                                               *)

\* A run whose count is right, and that is kept because blocks of it are in use.
CountedRun(c) ==
  {run \in Run(c) : /\ run.free_blocks_count = num_blocks(c) - Cardinality(run.alloc_bitmap)
                    /\ num_blocks(c) > 0 => run.alloc_bitmap # {}}

CountedChunk(c) ==
  {ch \in SmallChunk(c) :
     /\ ch.runs_free \in Seq(CountedRun(c))
     /\ ch.runs_full \in Seq(CountedRun(c))
     /\ ch.num_runs = Len(ch.runs_free) + Len(ch.runs_full)
     /\ ~ch.overlaid => ch.num_runs <= 1}

Shown(runs) == UNION {runs[k].alloc_bitmap : k \in DOMAIN runs}

\* The blocks that the bitmaps of a chunk show in use.
BitsSet(ch) == Shown(ch.runs_free) \union Shown(ch.runs_full)

AnyChunk == LargeChunk \union UNION {CountedChunk(c) : c \in Classes}

-----------------------------------------------------------------------------
(* The invariant of the arena.                                             *)

ChunksInOrder == chunks \in Seq(AnyChunk) /\ Len(chunks) = num_chunks

CallsInOrder ==
  \A t \in Threads :
    /\ pc[t] = "idle" => call[t] = Idle
    /\ pc[t] \in {"find", "grow", "use"} => call[t].size \in Requests /\ call[t].new = NoPointer
    /\ pc[t] \in {"grow", "use"} => size_to_class(call[t].size) \in Classes
    /\ pc[t] = "use" =>
         /\ call[t].chunk \in 1 .. num_chunks
         /\ chunks[call[t].chunk].class = size_to_class(call[t].size)
    /\ pc[t] = "release" => call[t].old \in Pointer /\ call[t].new \in Pointer

\* What is held is a block of a chunk there is.
Block(p) ==
  /\ p.chunk \in 1 .. num_chunks
  /\ chunks[p.chunk].large = 0 =>
       \E i \in Blocks(chunks[p.chunk].class) : p.offset = i * class_to_size(chunks[p.chunk].class)

\* The bit of a pointer into a chunk of small blocks.
BitOf(p) == p.offset \div class_to_size(chunks[p.chunk].class)

Sited ==
  \A p \in Pointer :
    Holders(p) > 0 =>
      /\ Block(p)
      /\ ~chunks[p.chunk].overlaid =>
           /\ Holders(p) = 1
           /\ chunks[p.chunk].large = 0 => BitOf(p) \in BitsSet(chunks[p.chunk])

\* How many bits of a list of runs and of a chunk are set.
Count(runs) == Cardinality(BitsIn(runs))
Bits(ch) == Count(ch.runs_free) + Count(ch.runs_full)

\* The bits of a chunk are enough for what is held of it.
Covered == \A n \in 1 .. num_chunks : chunks[n].large = 0 => HoldersOf(n) <= Bits(chunks[n])

Placed == Sited /\ Covered

OfClass(c) == {n \in 1 .. num_chunks : chunks[n].class = c}
Growing(c) == {t \in Threads : pc[t] = "grow" /\ size_to_class(call[t].size) = c}

\* The list of a class is empty until it has a chunk, and begins with one of its
\* chunks from then on, whatever its other links are.
Listed ==
  /\ links.prev[ListHead] \in 0 .. num_chunks
  /\ \A c \in Classes :
       IF OfClass(c) = {}
       THEN links.next[FreeHead(c)] = FreeHead(c) /\ links.prev[FreeHead(c)] = FreeHead(c)
       ELSE links.next[FreeHead(c)] \in OfClass(c) /\ links.prev[FreeHead(c)] \in OfClass(c)

\* A thread that found no chunk makes one at most.
ChunksBounded ==
  \A c \in Classes : Cardinality(OfClass(c)) + Cardinality(Growing(c)) <= Cardinality(Threads)

ArenaInv == TypeOK /\ ChunksInOrder /\ CallsInOrder /\ Placed /\ Listed /\ ChunksBounded

-----------------------------------------------------------------------------
(* Numbers and sets.                                                       *)

\* The least of a set of numbers is in it.
LEMMA MinIsIn ==
  ASSUME NEW S \in SUBSET Nat, S # {}
  PROVE  Min(S) \in S /\ \A y \in S : Min(S) <= y
<1> DEFINE R == {ss \in Nat \X Nat : ss[1] < ss[2]}
<1>a. IsWellFoundedOn(R, Nat)
  BY NatLessThanWellFounded, Zenon DEF OpToRel
<1>b. \A x, y \in Nat : <<y, x>> \notin R => x <= y
  OBVIOUS
<1> HIDE DEF R
<1>1. PICK x \in S : \A y \in S : <<y, x>> \notin R
  BY <1>a, WFMin, Zenon
<1>2. \A y \in S : x <= y
  BY <1>1, <1>b, Zenon
<1> QED BY <1>2 DEF Min

\* A set that differs in one element at most.
LEMMA CountOfOne ==
  ASSUME NEW X, IsFiniteSet(X), NEW A \in SUBSET X, NEW B \in SUBSET X, NEW t,
         \A x \in X : x # t => (x \in A <=> x \in B)
  PROVE  /\ Cardinality(A) \in Nat /\ Cardinality(B) \in Nat
         /\ Cardinality(B) + (IF t \in A THEN 1 ELSE 0) = Cardinality(A) + (IF t \in B THEN 1 ELSE 0)
<1>1. IsFiniteSet(A) /\ IsFiniteSet(B)
  BY FS_Subset
<1>2. Cardinality(A) \in Nat /\ Cardinality(B) \in Nat
  BY <1>1, FS_CardinalityType
<1>3. CASE t \in A <=> t \in B
  <2>1. A = B
    BY <1>3
  <2> QED BY <1>2, <2>1
<1>4. CASE t \in A /\ t \notin B
  <2>1. A = B \union {t}
    BY <1>4
  <2> QED BY <1>1, <1>2, <1>4, <2>1, FS_AddElement
<1>5. CASE t \notin A /\ t \in B
  <2>1. B = A \union {t}
    BY <1>5
  <2> QED BY <1>1, <1>2, <1>5, <2>1, FS_AddElement
<1> QED BY <1>3, <1>4, <1>5

\* The blocks of a run lie in it, and their offsets tell them apart.
LEMMA Division ==
  ASSUME NEW size \in Nat \ {0}, NEW n \in Nat, NEW i \in 0 .. (n \div size) - 1
  PROVE  /\ i * size \in 0 .. n - 1
         /\ (i * size) \div size = i
         /\ (i * size) % size = 0
  BY Z3

\* An offset within a run is in the first run.
LEMMA InOneRun ==
  ASSUME NEW offset \in 0 .. RunSize - 1
  PROVE  offset \div RunSize = 0
  BY Z3, ArenaAssumption

\* A large size is rounded up to a positive one.
LEMMA Rounded ==
  ASSUME NEW x \in Nat \ {0}
  PROVE  AlignUp(x, RunSize) \in Nat \ {0}
  BY Z3, ArenaAssumption DEF AlignUp

\* The classes are numbers, with positive sizes, and the large one is none of them.
LEMMA ClassFacts ==
  /\ NumClasses \in Nat
  /\ \A c \in Classes : /\ class_to_size(c) \in Nat \ {0}
                        /\ num_blocks(c) \in Nat
                        /\ c # LargeClass /\ c \in Nat
<1>1. BlockSizes \in Seq(Nat \ {0})
  BY ArenaAssumption
<1>2. NumClasses \in Nat
  BY <1>1 DEF NumClasses
<1>3. ASSUME NEW c \in Classes
      PROVE  class_to_size(c) \in Nat \ {0}
  <2>1. c + 1 \in 1 .. Len(BlockSizes)
    BY <1>2 DEF Classes, NumClasses
  <2> QED BY <1>1, <2>1, ElementOfSeq DEF class_to_size
<1>4. \A m \in Nat, n \in Nat \ {0} : m \div n \in Nat
  BY Z3
<1>5. RunSize \in Nat
  BY ArenaAssumption
<1> QED BY <1>2, <1>3, <1>4, <1>5 DEF num_blocks, Classes, LargeClass

\* The offset of a block lies in a run and tells which block it is.
LEMMA BlockOffset ==
  ASSUME NEW c \in Classes, NEW i \in Blocks(c)
  PROVE  /\ i * class_to_size(c) \in 0 .. RunSize - 1
         /\ (i * class_to_size(c)) \div class_to_size(c) = i
<1>1. PICK size, n : size = class_to_size(c) /\ n = RunSize
  OBVIOUS
<1>2. size \in Nat \ {0} /\ n \in Nat
  BY <1>1, ClassFacts, ArenaAssumption
<1>3. i \in 0 .. (n \div size) - 1
  BY <1>1 DEF Blocks, num_blocks
<1>4. i * size \in 0 .. n - 1 /\ (i * size) \div size = i
  BY <1>2, <1>3, Division, Zenon
<1> QED BY <1>1, <1>4, Zenon

\* Every request has a class.
LEMMA RequestClass ==
  ASSUME NEW size
  PROVE  size_to_class(size) \in Classes \union {LargeClass}
<1> DEFINE all == {c \in Classes : size <= class_to_size(c)} \union {LargeClass}
<1>1. all \in SUBSET Nat /\ all # {} /\ all \subseteq Classes \union {LargeClass}
  BY ClassFacts DEF Classes, LargeClass
<1>2. Min(all) \in all
  BY <1>1, MinIsIn
<1> QED BY <1>1, <1>2 DEF size_to_class

\* The class a free guesses is the block's own or an earlier one.
LEMMA GuessedClass ==
  ASSUME NEW c \in Classes, NEW i \in Blocks(c)
  PROVE  Guess(i * class_to_size(c)) \in Classes
<1> DEFINE offset == i * class_to_size(c)
           all == {k \in Classes : offset % class_to_size(k) = 0}
<1>1. offset % class_to_size(c) = 0
  BY ClassFacts, Division, ArenaAssumption DEF Blocks, num_blocks
<1>2. all \in SUBSET Nat /\ all # {}
  BY <1>1, ClassFacts
<1>3. Min(all) \in all
  BY <1>2, MinIsIn
<1> QED BY <1>3 DEF Guess

\* The search of a bitmap.
LEMMA FirstClear ==
  ASSUME NEW n \in Nat, NEW bits \in SUBSET (0 .. n - 1)
  PROVE  bitmap_find_first_clear(bits, n) = n \/ bitmap_find_first_clear(bits, n) \in (0 .. n - 1) \ bits
<1> DEFINE all == ((0 .. n - 1) \ bits) \union {n}
<1>1. all \in SUBSET Nat /\ all # {}
  OBVIOUS
<1>2. Min(all) \in all
  BY <1>1, MinIsIn
<1> QED BY <1>2 DEF bitmap_find_first_clear

\* Blocks are finitely many, and a bit more or less counts for one.
LEMMA BitmapCounts ==
  ASSUME NEW c \in Classes, NEW bits \in SUBSET Blocks(c), NEW i \in Blocks(c)
  PROVE  /\ Cardinality(bits) \in 0 .. num_blocks(c)
         /\ i \notin bits => Cardinality(bits \union {i}) = Cardinality(bits) + 1
         /\ i \in bits => Cardinality(bits \ {i}) = Cardinality(bits) - 1
         /\ bits = {} <=> Cardinality(bits) = 0
<1>1. IsFiniteSet(Blocks(c)) /\ Cardinality(Blocks(c)) = num_blocks(c)
  BY ClassFacts, FS_Interval DEF Blocks
<1>2. IsFiniteSet(bits) /\ Cardinality(bits) <= num_blocks(c)
  BY <1>1, FS_Subset
<1>3. Cardinality(bits) \in Nat
  BY <1>2, FS_CardinalityType
<1>4. i \notin bits => Cardinality(bits \union {i}) = Cardinality(bits) + 1
  BY <1>2, FS_AddElement
<1>5. i \in bits => Cardinality(bits \ {i}) = Cardinality(bits) - 1
  BY <1>2, FS_RemoveElement
<1>6. bits = {} <=> Cardinality(bits) = 0
  BY <1>2, FS_EmptySet
<1> QED BY <1>2, <1>3, <1>4, <1>5, <1>6, ClassFacts

\* A run whose block is taken is counted again.
LEMMA RunTaken ==
  ASSUME NEW c \in Classes, NEW run \in Run(c),
         run.free_blocks_count = num_blocks(c) - Cardinality(run.alloc_bitmap),
         NEW i \in Blocks(c), i \notin run.alloc_bitmap,
         NEW u, u = Taken(run, i)
  PROVE  u \in CountedRun(c) /\ u.alloc_bitmap = run.alloc_bitmap \union {i}
<1> DEFINE bits == run.alloc_bitmap \union {i}
<1>1. run.alloc_bitmap \in SUBSET Blocks(c) /\ bits \in SUBSET Blocks(c)
  BY DEF Run
<1>2. Cardinality(bits) = Cardinality(run.alloc_bitmap) + 1 /\ Cardinality(bits) \in 0 .. num_blocks(c)
  BY <1>1, BitmapCounts
<1>3. u = [alloc_bitmap |-> bits, free_blocks_count |-> run.free_blocks_count - 1]
  BY DEF Taken, bitmap_set
<1>4. Cardinality(run.alloc_bitmap) \in 0 .. num_blocks(c) /\ num_blocks(c) \in Nat
  BY <1>1, BitmapCounts, ClassFacts
<1> DEFINE m == Cardinality(bits)
           k == Cardinality(run.alloc_bitmap)
<1>5. run.free_blocks_count - 1 = num_blocks(c) - m /\ num_blocks(c) - m \in 0 .. num_blocks(c)
  <2> HIDE DEF m, k
  <2> SUFFICES m = k + 1 /\ m \in 0 .. num_blocks(c) /\ run.free_blocks_count = num_blocks(c) - k
               /\ k \in 0 .. num_blocks(c) /\ num_blocks(c) \in Nat
    OBVIOUS
  <2> QED BY <1>2, <1>4 DEF m, k
<1>6. u \in Run(c) /\ u.alloc_bitmap = bits /\ u.free_blocks_count = num_blocks(c) - m
  BY <1>1, <1>3, <1>5 DEF Run
<1>7. bits # {}
  OBVIOUS
<1> QED BY <1>6, <1>7 DEF CountedRun

\* A run whose block is freed is counted, or it is empty and goes.
LEMMA RunFreed ==
  ASSUME NEW c \in Classes, NEW run \in CountedRun(c), NEW i \in Blocks(c), i \in run.alloc_bitmap,
         NEW u, u = [alloc_bitmap |-> bitmap_clear_bit(run.alloc_bitmap, i),
                     free_blocks_count |-> run.free_blocks_count + 1]
  PROVE  /\ u \in Run(c) /\ u.alloc_bitmap = run.alloc_bitmap \ {i}
         /\ IF Emptied(u, c) THEN u.alloc_bitmap = {} ELSE u \in CountedRun(c)
<1> DEFINE bits == run.alloc_bitmap \ {i}
<1>1. run.alloc_bitmap \in SUBSET Blocks(c) /\ bits \in SUBSET Blocks(c)
  BY DEF CountedRun, Run
<1>2. Cardinality(bits) = Cardinality(run.alloc_bitmap) - 1 /\ Cardinality(bits) \in 0 .. num_blocks(c)
  BY <1>1, BitmapCounts
<1>3. u = [alloc_bitmap |-> bits, free_blocks_count |-> run.free_blocks_count + 1]
  BY DEF bitmap_clear_bit
<1>4. /\ Cardinality(run.alloc_bitmap) \in 0 .. num_blocks(c) /\ num_blocks(c) \in Nat
      /\ run.free_blocks_count = num_blocks(c) - Cardinality(run.alloc_bitmap)
  BY <1>1, BitmapCounts, ClassFacts DEF CountedRun
<1> DEFINE m == Cardinality(bits)
           k == Cardinality(run.alloc_bitmap)
<1>5. run.free_blocks_count + 1 = num_blocks(c) - m /\ num_blocks(c) - m \in 0 .. num_blocks(c)
  <2> HIDE DEF m, k
  <2> SUFFICES m = k - 1 /\ m \in 0 .. num_blocks(c) /\ run.free_blocks_count = num_blocks(c) - k
               /\ k \in 0 .. num_blocks(c) /\ num_blocks(c) \in Nat
    OBVIOUS
  <2> QED BY <1>2, <1>4 DEF m, k
<1>6. u \in Run(c) /\ u.alloc_bitmap = bits /\ u.free_blocks_count = num_blocks(c) - m
  BY <1>1, <1>3, <1>5 DEF Run
<1>7. Emptied(u, c) <=> m = 0
  BY <1>2, <1>4, <1>6 DEF Emptied
<1>8. m = 0 <=> bits = {}
  BY <1>1, BitmapCounts
<1> QED BY <1>6, <1>7, <1>8 DEF CountedRun

-----------------------------------------------------------------------------
(* What an operation does to a chunk.                                      *)

\* The lists of a chunk, and what their bitmaps show.
LEMMA ChunkParts ==
  ASSUME NEW c \in Classes, NEW ch \in CountedChunk(c)
  PROVE  /\ ch.class = c /\ ch.large = 0 /\ ch.overlaid \in BOOLEAN /\ ch.num_runs \in Nat
         /\ ch.runs_free \in Seq(CountedRun(c)) /\ ch.runs_full \in Seq(CountedRun(c))
         /\ ch.num_runs = Len(ch.runs_free) + Len(ch.runs_full)
         /\ ~ch.overlaid => ch.num_runs <= 1
         /\ ch = [class |-> c, large |-> 0, runs_free |-> ch.runs_free, runs_full |-> ch.runs_full,
                  num_runs |-> ch.num_runs, overlaid |-> ch.overlaid]
  BY DEF CountedChunk, SmallChunk

\* A chunk of counted lists is a counted chunk.
LEMMA ChunkMade ==
  ASSUME NEW c \in Classes, NEW free \in Seq(CountedRun(c)), NEW full \in Seq(CountedRun(c)),
         NEW over \in BOOLEAN, NEW n, n = Len(free) + Len(full), ~over => n <= 1,
         NEW ch, ch = [class |-> c, large |-> 0, runs_free |-> free, runs_full |-> full,
                       num_runs |-> n, overlaid |-> over]
  PROVE  ch \in CountedChunk(c)
<1>1. CountedRun(c) \subseteq Run(c)
  BY DEF CountedRun
<1>2. free \in Seq(Run(c)) /\ full \in Seq(Run(c))
  BY <1>1, SeqMonotonic
<1>3. n \in Nat
  OBVIOUS
<1>4. ch \in SmallChunk(c)
  BY <1>2, <1>3 DEF SmallChunk
<1>5. /\ ch.runs_free = free /\ ch.runs_full = full /\ ch.num_runs = n /\ ch.overlaid = over
  OBVIOUS
<1> QED BY <1>4, <1>5, Zenon DEF CountedChunk

\* What a list of no run, or of one, shows.
LEMMA ShownOne ==
  /\ Shown(<<>>) = {}
  /\ \A run : Shown(<<run>>) = run.alloc_bitmap
<1>1. ASSUME NEW run
      PROVE  Shown(<<run>>) = run.alloc_bitmap
  <2>1. DOMAIN <<run>> = {1} /\ <<run>>[1] = run
    OBVIOUS
  <2>2. {<<run>>[k].alloc_bitmap : k \in DOMAIN <<run>>} = {run.alloc_bitmap}
    BY <2>1, Zenon
  <2>3. UNION {run.alloc_bitmap} = run.alloc_bitmap
    OBVIOUS
  <2> QED BY <2>2, <2>3, Zenon DEF Shown
<1>2. Shown(<<>>) = {}
  <2>1. DOMAIN <<>> = {}
    OBVIOUS
  <2>2. {<<>>[k].alloc_bitmap : k \in DOMAIN <<>>} = {}
    BY <2>1, Zenon
  <2>3. UNION {} = {}
    OBVIOUS
  <2> QED BY <2>2, <2>3, Zenon DEF Shown
<1> QED BY <1>1, <1>2, Zenon

\* One list entry at most.
LEMMA OneEntry ==
  ASSUME NEW S, NEW s \in Seq(S), NEW t \in Seq(S), Len(s) + Len(t) <= 1, s # <<>>
  PROVE  s = <<s[1]>> /\ t = <<>> /\ s[1] \in S /\ Len(s) = 1
<1>0. Len(t) \in Nat
  BY LenProperties
<1>1. Len(s) \in Nat \ {0}
  BY EmptySeq, Zenon
<1>2. Len(s) = 1 /\ Len(t) = 0
  <2>1. \A a \in Nat \ {0}, b \in Nat : a + b <= 1 => a = 1 /\ b = 0
    OBVIOUS
  <2> QED BY <1>0, <1>1, <2>1, Zenon
<1>3. s[1] \in S
  BY <1>2, ElementOfSeq
<1>4. t = <<>>
  BY <1>2, EmptySeq
<1>5. <<s[1]>> \in Seq(S) /\ Len(<<s[1]>>) = 1 /\ <<s[1]>>[1] = s[1]
  BY <1>3
<1>6. \A i \in 1 .. Len(s) : s[i] = <<s[1]>>[i]
  BY <1>2, <1>5
<1>7. s = <<s[1]>>
  BY <1>2, <1>5, <1>6, SeqEqual, Zenon
<1> QED BY <1>2, <1>3, <1>4, <1>7

-----------------------------------------------------------------------------
(* How many bits are set.                                                  *)

\* Sets of pairs with the same members are the same set.
LEMMA SamePairs ==
  ASSUME NEW A, NEW B, NEW S \in SUBSET (A \X B), NEW T \in SUBSET (A \X B),
         \A k \in A, j \in B : <<k, j>> \in S <=> <<k, j>> \in T
  PROVE  S = T
  OBVIOUS

\* The bits of a run are blocks of its class, finitely many.
LEMMA RunBits ==
  ASSUME NEW c \in Classes, NEW run \in Run(c)
  PROVE  /\ run.alloc_bitmap \in SUBSET Blocks(c)
         /\ IsFiniteSet(run.alloc_bitmap) /\ Cardinality(run.alloc_bitmap) \in Nat
<1>1. run.alloc_bitmap \in SUBSET Blocks(c)
  BY DEF Run
<1>2. IsFiniteSet(Blocks(c))
  BY ClassFacts, FS_Interval DEF Blocks
<1> QED BY <1>1, <1>2, FS_Subset, FS_CardinalityType

\* A bit of a list of runs is a run with a block, and there are finitely many.
LEMMA BitsMember ==
  ASSUME NEW c \in Classes, NEW s \in Seq(Run(c))
  PROVE  /\ \A k, i : <<k, i>> \in BitsIn(s) <=> k \in 1 .. Len(s) /\ i \in s[k].alloc_bitmap
         /\ BitsIn(s) \subseteq (1 .. Len(s)) \X Blocks(c)
         /\ IsFiniteSet(BitsIn(s)) /\ Count(s) \in Nat
<1>1. Len(s) \in Nat /\ DOMAIN s = 1 .. Len(s)
  BY LenProperties
<1>2. ASSUME NEW k \in 1 .. Len(s)
      PROVE  s[k].alloc_bitmap \in SUBSET Blocks(c)
  <2>1. s[k] \in Run(c)
    BY ElementOfSeq
  <2> QED BY <2>1, RunBits
<1>3. \A k, i : <<k, i>> \in BitsIn(s) <=> k \in 1 .. Len(s) /\ i \in s[k].alloc_bitmap
  BY <1>1 DEF BitsIn
<1>4. BitsIn(s) \subseteq (1 .. Len(s)) \X Blocks(c)
  BY <1>1, <1>2 DEF BitsIn
<1>5. IsFiniteSet(1 .. Len(s)) /\ IsFiniteSet(Blocks(c))
  BY <1>1, ClassFacts, FS_Interval DEF Blocks
<1>6. IsFiniteSet((1 .. Len(s)) \X Blocks(c))
  BY <1>5, FS_Product
<1>7. IsFiniteSet(BitsIn(s)) /\ Cardinality(BitsIn(s)) \in Nat
  BY <1>4, <1>6, FS_Subset, FS_CardinalityType
<1> QED BY <1>3, <1>4, <1>7 DEF Count

\* No runs, no bits.
LEMMA CountEmpty == Count(<<>>) = 0
<1>1. BitsIn(<<>>) = {}
  BY DEF BitsIn
<1> QED BY <1>1, FS_EmptySet DEF Count

\* The first run has one bit more or one bit less.
LEMMA CountChanged ==
  ASSUME NEW c \in Classes, NEW s \in Seq(Run(c)), s # <<>>, NEW r \in Run(c), NEW i
  PROVE  /\ r.alloc_bitmap = s[1].alloc_bitmap \union {i} /\ i \notin s[1].alloc_bitmap =>
              Count([s EXCEPT ![1] = r]) = Count(s) + 1
         /\ r.alloc_bitmap = s[1].alloc_bitmap \ {i} /\ i \in s[1].alloc_bitmap =>
              Count([s EXCEPT ![1] = r]) = Count(s) - 1
<1>0. PICK t : t = [s EXCEPT ![1] = r]
  OBVIOUS
<1>1. Len(s) \in Nat \ {0} /\ t \in Seq(Run(c)) /\ Len(t) = Len(s)
      /\ t[1] = r /\ \A k \in 1 .. Len(s) : k # 1 => t[k] = s[k]
  <2>1. Len(s) \in Nat \ {0}
    BY EmptySeq, Zenon
  <2> QED BY <1>0, <2>1, ExceptSeq
<1>d. PICK D : D = 1 .. Len(s)
  OBVIOUS
<1>2. /\ \A k, j : <<k, j>> \in BitsIn(s) <=> k \in D /\ j \in s[k].alloc_bitmap
      /\ BitsIn(s) \subseteq D \X Blocks(c)
      /\ IsFiniteSet(BitsIn(s)) /\ Count(s) \in Nat
  BY <1>d, BitsMember
<1>3. /\ \A k, j : <<k, j>> \in BitsIn(t) <=> k \in D /\ j \in t[k].alloc_bitmap
      /\ BitsIn(t) \subseteq D \X Blocks(c)
  BY <1>1, <1>d, BitsMember
<1>4. 1 \in D /\ t[1] = r /\ \A k \in D : k # 1 => t[k] = s[k]
  BY <1>1, <1>d
<1>5. ASSUME r.alloc_bitmap = s[1].alloc_bitmap \union {i}, i \notin s[1].alloc_bitmap
      PROVE  Count(t) = Count(s) + 1
  <2>1. \A k, j : <<k, j>> \in BitsIn(t) <=> <<k, j>> \in BitsIn(s) \/ <<k, j>> = <<1, i>>
    BY <1>2, <1>3, <1>4, <1>5
  <2>2. i \in Blocks(c)
    BY <1>5, RunBits
  <2>3. PICK more : more = BitsIn(s) \union {<<1, i>>}
    OBVIOUS
  <2>4. more \in SUBSET (D \X Blocks(c)) /\ BitsIn(t) \in SUBSET (D \X Blocks(c))
    BY <1>2, <1>3, <1>4, <2>2, <2>3
  <2>5. \A k \in D, j \in Blocks(c) : <<k, j>> \in BitsIn(t) <=> <<k, j>> \in more
    BY <2>1, <2>3
  <2>6. BitsIn(t) = more
    BY <2>4, <2>5, SamePairs
  <2>7. <<1, i>> \notin BitsIn(s)
    BY <1>2, <1>5, Zenon
  <2>8. Cardinality(more) = Cardinality(BitsIn(s)) + 1
    BY <1>2, <2>3, <2>7, FS_AddElement
  <2> QED BY <2>6, <2>8, Zenon DEF Count
<1>6. ASSUME r.alloc_bitmap = s[1].alloc_bitmap \ {i}, i \in s[1].alloc_bitmap
      PROVE  Count(t) = Count(s) - 1
  <2>1. \A k, j : <<k, j>> \in BitsIn(t) <=> <<k, j>> \in BitsIn(s) /\ <<k, j>> # <<1, i>>
    BY <1>2, <1>3, <1>4, <1>6
  <2>3. PICK less : less = BitsIn(s) \ {<<1, i>>}
    OBVIOUS
  <2>4. less \in SUBSET (D \X Blocks(c)) /\ BitsIn(t) \in SUBSET (D \X Blocks(c))
    BY <1>2, <1>3, <2>3
  <2>5. \A k \in D, j \in Blocks(c) : <<k, j>> \in BitsIn(t) <=> <<k, j>> \in less
    BY <2>1, <2>3
  <2>6. BitsIn(t) = less
    BY <2>4, <2>5, SamePairs
  <2>7. <<1, i>> \in BitsIn(s)
    BY <1>2, <1>4, <1>6, Zenon
  <2>8. Cardinality(less) = Cardinality(BitsIn(s)) - 1
    BY <1>2, <2>3, <2>7, FS_RemoveElement
  <2> QED BY <2>6, <2>8, Zenon DEF Count
<1> QED BY <1>0, <1>5, <1>6, Zenon

\* The first run goes, and its bits with it.
LEMMA CountTail ==
  ASSUME NEW c \in Classes, NEW s \in Seq(Run(c)), s # <<>>
  PROVE  /\ Tail(s) \in Seq(Run(c)) /\ Cardinality(s[1].alloc_bitmap) \in Nat
         /\ Count(s) <= Count(Tail(s)) + Cardinality(s[1].alloc_bitmap)
<1>1. Len(s) \in Nat \ {0} /\ s[1] \in Run(c)
  <2>1. Len(s) \in Nat \ {0}
    BY EmptySeq, Zenon
  <2> QED BY <2>1, ElementOfSeq
<1>2. PICK t : t = Tail(s)
  OBVIOUS
<1>3. t \in Seq(Run(c)) /\ Len(t) = Len(s) - 1 /\ \A k \in 1 .. Len(t) : t[k] = s[k + 1]
  BY <1>2, HeadTailProperties
<1>4. PICK bits : bits = s[1].alloc_bitmap
  OBVIOUS
<1>5. bits \in SUBSET Blocks(c) /\ IsFiniteSet(bits) /\ Cardinality(bits) \in Nat
  BY <1>1, <1>4, RunBits
<1>6. /\ \A k, i : <<k, i>> \in BitsIn(s) <=> k \in 1 .. Len(s) /\ i \in s[k].alloc_bitmap
      /\ BitsIn(s) \subseteq (1 .. Len(s)) \X Blocks(c)
      /\ IsFiniteSet(BitsIn(s)) /\ Count(s) \in Nat
  BY BitsMember
<1>7. /\ \A k, i : <<k, i>> \in BitsIn(t) <=> k \in 1 .. Len(t) /\ i \in t[k].alloc_bitmap
      /\ IsFiniteSet(BitsIn(t)) /\ Count(t) \in Nat
  BY <1>3, BitsMember
<1>8. PICK row : row = {x \in BitsIn(s) : x[1] = 1}
  OBVIOUS
<1>9. PICK rest : rest = {x \in BitsIn(s) : x[1] # 1}
  OBVIOUS
<1>10. IsFiniteSet(row) /\ Cardinality(row) \in Nat /\ Cardinality(row) <= Cardinality(bits)
  <2>1. PICK f : f = [x \in row |-> x[2]]
    OBVIOUS
  <2>2. f \in [row -> bits]
    BY <1>4, <1>6, <1>8, <2>1
  <2>3. \A x, y \in row : f[x] = f[y] => x = y
    BY <1>6, <1>8, <2>1
  <2>4. f \in Injection(row, bits)
    BY <2>2, <2>3 DEF Injection, IsInjective
  <2>5. IsFiniteSet(row) /\ Cardinality(row) <= Cardinality(bits)
    BY <1>5, <2>4, FS_Injection
  <2> QED BY <2>5, FS_CardinalityType
<1>11. IsFiniteSet(rest) /\ Cardinality(rest) \in Nat /\ Cardinality(rest) <= Cardinality(BitsIn(t))
  <2>1. PICK f : f = [x \in rest |-> <<x[1] - 1, x[2]>>]
    OBVIOUS
  <2>2. ASSUME NEW x \in rest PROVE f[x] \in BitsIn(t)
    <3>1. PICK k \in 1 .. Len(s), i \in Blocks(c) : x = <<k, i>>
      BY <1>6, <1>9
    <3>2. k # 1 /\ i \in s[k].alloc_bitmap
      BY <1>6, <1>9, <3>1
    <3>3. k - 1 \in 1 .. Len(t) /\ (k - 1) + 1 = k
      BY <1>1, <1>3, <3>1, <3>2
    <3>4. t[k - 1] = s[k]
      BY <1>3, <3>3
    <3>5. f[x] = <<k - 1, i>>
      BY <2>1, <3>1
    <3> QED BY <1>7, <3>2, <3>3, <3>4, <3>5
  <2>3. \A x, y \in rest : f[x] = f[y] => x = y
    <3> SUFFICES ASSUME NEW x \in rest, NEW y \in rest, f[x] = f[y] PROVE x = y
      OBVIOUS
    <3>1. PICK k \in 1 .. Len(s), i \in Blocks(c) : x = <<k, i>>
      BY <1>6, <1>9
    <3>2. PICK l \in 1 .. Len(s), j \in Blocks(c) : y = <<l, j>>
      BY <1>6, <1>9
    <3>3. f[x] = <<k - 1, i>> /\ f[y] = <<l - 1, j>>
      BY <2>1, <3>1, <3>2
    <3>4. <<k - 1, i>>[1] = <<l - 1, j>>[1] /\ <<k - 1, i>>[2] = <<l - 1, j>>[2]
      BY <3>3, Zenon
    <3>5. k - 1 = l - 1 /\ i = j
      BY <3>4
    <3>6. k = l
      BY <1>1, <3>1, <3>2, <3>5
    <3> QED BY <3>1, <3>2, <3>5, <3>6, Zenon
  <2>4. f \in [rest -> BitsIn(t)]
    BY <2>1, <2>2
  <2>5. f \in Injection(rest, BitsIn(t))
    BY <2>3, <2>4 DEF Injection, IsInjective
  <2>6. IsFiniteSet(rest) /\ Cardinality(rest) <= Cardinality(BitsIn(t))
    BY <1>7, <2>5, FS_Injection
  <2> QED BY <2>6, FS_CardinalityType
<1>12. BitsIn(s) = row \union rest /\ row \cap rest = {}
  BY <1>8, <1>9
<1>13. Cardinality(BitsIn(s)) = Cardinality(row) + Cardinality(rest) - Cardinality({})
  BY <1>10, <1>11, <1>12, FS_Union
<1>14. Cardinality({}) = 0
  BY FS_EmptySet
<1>15. Count(s) <= Count(t) + Cardinality(bits)
  BY <1>5, <1>7, <1>10, <1>11, <1>13, <1>14 DEF Count
<1> QED BY <1>2, <1>3, <1>4, <1>5, <1>15

\* A run more at the end, and its bits with it.
LEMMA CountAppend ==
  ASSUME NEW c \in Classes, NEW s \in Seq(Run(c)), NEW r \in Run(c)
  PROVE  /\ Append(s, r) \in Seq(Run(c)) /\ Cardinality(r.alloc_bitmap) \in Nat
         /\ Count(Append(s, r)) >= Count(s) + Cardinality(r.alloc_bitmap)
<1>1. PICK t : t = Append(s, r)
  OBVIOUS
<1>2. PICK n : n = Len(s) + 1
  OBVIOUS
<1>3. /\ Len(s) \in Nat /\ t \in Seq(Run(c)) /\ Len(t) = n /\ t[n] = r
      /\ \A k \in 1 .. Len(s) : t[k] = s[k]
  BY <1>1, <1>2, AppendProperties, LenProperties
<1>4. PICK bits : bits = r.alloc_bitmap
  OBVIOUS
<1>5. bits \in SUBSET Blocks(c) /\ IsFiniteSet(bits) /\ Cardinality(bits) \in Nat
  BY <1>4, RunBits
<1>6. /\ \A k, i : <<k, i>> \in BitsIn(s) <=> k \in 1 .. Len(s) /\ i \in s[k].alloc_bitmap
      /\ BitsIn(s) \subseteq (1 .. Len(s)) \X Blocks(c)
      /\ IsFiniteSet(BitsIn(s)) /\ Count(s) \in Nat
  BY BitsMember
<1>7. /\ \A k, i : <<k, i>> \in BitsIn(t) <=> k \in 1 .. n /\ i \in t[k].alloc_bitmap
      /\ IsFiniteSet(BitsIn(t)) /\ Count(t) \in Nat
  BY <1>3, BitsMember
<1>8. PICK row : row = {x \in BitsIn(t) : x[1] = n}
  OBVIOUS
<1>9. IsFiniteSet(row) /\ Cardinality(row) \in Nat
  BY <1>7, <1>8, FS_Subset, FS_CardinalityType
<1>10. Cardinality(bits) <= Cardinality(row)
  <2>1. PICK f : f = [i \in bits |-> <<n, i>>]
    OBVIOUS
  <2>2. n \in 1 .. n
    BY <1>2, <1>3
  <2>3. f \in [bits -> row]
    BY <1>3, <1>4, <1>7, <1>8, <2>1, <2>2
  <2>4. \A x, y \in bits : f[x] = f[y] => x = y
    BY <2>1
  <2>5. f \in Injection(bits, row)
    BY <2>3, <2>4 DEF Injection, IsInjective
  <2> QED BY <1>9, <2>5, FS_Injection
<1>11. BitsIn(s) \cap row = {} /\ BitsIn(s) \union row \subseteq BitsIn(t)
  <2>1. ASSUME NEW x \in BitsIn(s) PROVE x \notin row /\ x \in BitsIn(t)
    <3>1. PICK k \in 1 .. Len(s), i \in Blocks(c) : x = <<k, i>>
      BY <1>6
    <3>2. k # n /\ k \in 1 .. n
      BY <1>2, <1>3, <3>1
    <3>3. i \in t[k].alloc_bitmap
      BY <1>3, <1>6, <3>1
    <3> QED BY <1>7, <1>8, <3>1, <3>2, <3>3
  <2> QED BY <1>8, <2>1
<1>12. /\ IsFiniteSet(BitsIn(s) \union row)
       /\ Cardinality(BitsIn(s) \union row) = Cardinality(BitsIn(s)) + Cardinality(row) - Cardinality({})
  BY <1>6, <1>9, <1>11, FS_Union
<1>13. Cardinality(BitsIn(s) \union row) <= Cardinality(BitsIn(t))
  BY <1>7, <1>11, FS_Subset
<1>14. Cardinality({}) = 0
  BY FS_EmptySet
<1>15. Count(t) >= Count(s) + Cardinality(bits)
  BY <1>5, <1>6, <1>7, <1>9, <1>10, <1>12, <1>13, <1>14 DEF Count
<1> QED BY <1>1, <1>3, <1>4, <1>5, <1>15

\* Wherever the run goes that has given up a block, there is a bit more.
LEMMA FiledBits ==
  ASSUME NEW c \in Classes, NEW free \in Seq(Run(c)), free # <<>>, NEW full \in Seq(Run(c)),
         NEW i \in Blocks(c), i \notin free[1].alloc_bitmap,
         NEW run \in Run(c), run.alloc_bitmap = free[1].alloc_bitmap \union {i},
         NEW n, NEW over, NEW ch,
         ch = [class |-> c, large |-> 0, runs_free |-> free, runs_full |-> full,
               num_runs |-> n, overlaid |-> over],
         NEW u, u = Filed(ch, run)
  PROVE  Bits(u) >= Count(free) + Count(full) + 1
<1>1. Count(free) \in Nat /\ Count(full) \in Nat
  BY BitsMember
<1>2. CASE run.free_blocks_count = 0
  <2>1. u.runs_free = Tail(free) /\ u.runs_full = Append(full, run)
    BY <1>2 DEF Filed
  <2>2. /\ Tail(free) \in Seq(Run(c)) /\ Cardinality(free[1].alloc_bitmap) \in Nat
        /\ Count(free) <= Count(Tail(free)) + Cardinality(free[1].alloc_bitmap)
    BY CountTail
  <2>3. /\ Append(full, run) \in Seq(Run(c)) /\ Cardinality(run.alloc_bitmap) \in Nat
        /\ Count(Append(full, run)) >= Count(full) + Cardinality(run.alloc_bitmap)
    BY CountAppend
  <2>4. Cardinality(run.alloc_bitmap) = Cardinality(free[1].alloc_bitmap) + 1
    <3>1. free[1].alloc_bitmap \in SUBSET Blocks(c)
      <4>1. Len(free) \in Nat \ {0}
        BY EmptySeq, Zenon
      <4>2. free[1] \in Run(c)
        BY <4>1, ElementOfSeq
      <4> QED BY <4>2 DEF Run
    <3> QED BY <3>1, BitmapCounts
  <2>5. Count(Tail(free)) \in Nat /\ Count(Append(full, run)) \in Nat
    BY <2>2, <2>3, BitsMember
  <2>6. Bits(u) = Count(Tail(free)) + Count(Append(full, run))
    BY <2>1 DEF Bits
  <2> QED BY <1>1, <2>2, <2>3, <2>4, <2>5, <2>6
<1>3. CASE run.free_blocks_count # 0
  <2>1. u.runs_free = [free EXCEPT ![1] = run] /\ u.runs_full = full
    BY <1>3 DEF Filed
  <2>2. Count([free EXCEPT ![1] = run]) = Count(free) + 1
    BY CountChanged
  <2>3. Bits(u) = Count([free EXCEPT ![1] = run]) + Count(full)
    BY <2>1 DEF Bits
  <2> QED BY <1>1, <2>2, <2>3
<1> QED BY <1>2, <1>3

\* The bits of a chunk can be counted.
LEMMA BitsTyped ==
  ASSUME NEW c \in Classes, NEW ch \in CountedChunk(c)
  PROVE  /\ Bits(ch) \in Nat /\ Count(ch.runs_free) \in Nat /\ Count(ch.runs_full) \in Nat
         /\ ch.runs_free \in Seq(Run(c)) /\ ch.runs_full \in Seq(Run(c))
<1>1. CountedRun(c) \subseteq Run(c)
  BY DEF CountedRun
<1>2. ch.runs_free \in Seq(Run(c)) /\ ch.runs_full \in Seq(Run(c))
  BY <1>1, ChunkParts, SeqMonotonic
<1>3. Count(ch.runs_free) \in Nat /\ Count(ch.runs_full) \in Nat
  BY <1>2, BitsMember
<1> QED BY <1>2, <1>3 DEF Bits

\* What an operation that takes a block leaves.
TookOne(ch, r, c) ==
  /\ r.chunk \in CountedChunk(c)
  /\ ch.overlaid => r.chunk.overlaid
  /\ Bits(r.chunk) >= Bits(ch) + (IF r.offset = -1 THEN 0 ELSE 1)
  /\ \/ r.offset = -1 /\ (~r.chunk.overlaid => BitsSet(r.chunk) = BitsSet(ch))
     \/ \E i \in Blocks(c) :
          /\ r.offset = i * class_to_size(c)
          /\ ~r.chunk.overlaid =>
               i \notin BitsSet(ch) /\ BitsSet(r.chunk) = BitsSet(ch) \union {i}

\* The first run gives up block i.
LEMMA FiledRun ==
  ASSUME NEW c \in Classes, NEW ch, NEW run \in CountedRun(c), NEW u,
         NEW free, free # <<>>, Tail(free) \in Seq(CountedRun(c)),
         [free EXCEPT ![1] = run] \in Seq(CountedRun(c)),
         Len(Tail(free)) = Len(free) - 1, Len(free) \in Nat, Len([free EXCEPT ![1] = run]) = Len(free),
         NEW full \in Seq(CountedRun(c)), NEW over \in BOOLEAN,
         NEW n, n = Len(free) + Len(full), ~over => n <= 1,
         ch = [class |-> c, large |-> 0, runs_free |-> free, runs_full |-> full,
               num_runs |-> n, overlaid |-> over],
         u = Filed(ch, run)
  PROVE  u \in CountedChunk(c) /\ u.overlaid = over
<1>1. CASE run.free_blocks_count = 0
  <2>1. u = [class |-> c, large |-> 0, runs_free |-> Tail(free), runs_full |-> Append(full, run),
             num_runs |-> n, overlaid |-> over]
    BY <1>1 DEF Filed
  <2>2. Append(full, run) \in Seq(CountedRun(c)) /\ Len(Append(full, run)) = Len(full) + 1
    BY AppendProperties
  <2>3. n = Len(Tail(free)) + Len(Append(full, run))
    BY <2>2
  <2>4. u \in CountedChunk(c)
    BY <2>1, <2>2, <2>3, ChunkMade, Zenon
  <2> QED BY <2>1, <2>4
<1>2. CASE run.free_blocks_count # 0
  <2>1. u = [class |-> c, large |-> 0, runs_free |-> [free EXCEPT ![1] = run], runs_full |-> full,
             num_runs |-> n, overlaid |-> over]
    BY <1>2 DEF Filed
  <2>2. n = Len([free EXCEPT ![1] = run]) + Len(full)
    OBVIOUS
  <2>3. u \in CountedChunk(c)
    BY <2>1, <2>2, ChunkMade, Zenon
  <2> QED BY <2>1, <2>3
<1> QED BY <1>1, <1>2

\* A new run has all its blocks free.
LEMMA NewRunIs ==
  ASSUME NEW c \in Classes
  PROVE  /\ NewRun(c) \in Run(c) /\ NewRun(c).alloc_bitmap = {}
         /\ NewRun(c).free_blocks_count = num_blocks(c)
         /\ NewRun(c).free_blocks_count = num_blocks(c) - Cardinality(NewRun(c).alloc_bitmap)
<1>1. Cardinality({}) = 0
  BY FS_EmptySet
<1>2. num_blocks(c) \in Nat
  BY ClassFacts
<1> QED BY <1>1, <1>2 DEF NewRun, Run

\* A block is taken from the first run of the chunk.
LEMMA TakeListed ==
  ASSUME NEW c \in Classes, NEW ch \in CountedChunk(c), ch.runs_free # <<>>
  PROVE  TookOne(ch, Take(ch), c)
<1> DEFINE free == ch.runs_free
           full == ch.runs_full
           run == Head(free)
           i == bitmap_find_first_clear(run.alloc_bitmap, num_blocks(c))
           r == Take(ch)
<1>1. /\ free \in Seq(CountedRun(c)) /\ full \in Seq(CountedRun(c))
      /\ ch.class = c
  BY ChunkParts
<1>2. run \in CountedRun(c) /\ run = free[1]
  BY <1>1
<1>3. run \in Run(c) /\ run.alloc_bitmap \in SUBSET (0 .. num_blocks(c) - 1) /\ num_blocks(c) \in Nat
  BY <1>2, ClassFacts DEF CountedRun, Run, Blocks
<1>4. r = IF i = num_blocks(c) THEN [chunk |-> ch, offset |-> -1]
          ELSE [chunk |-> Filed(ch, Taken(run, i)), offset |-> i * class_to_size(c)]
  BY <1>1 DEF Take
<1>5. i = num_blocks(c) \/ i \in (0 .. num_blocks(c) - 1) \ run.alloc_bitmap
  BY <1>3, FirstClear
<1>6. CASE i = num_blocks(c)
  <2>1. r.chunk = ch /\ r.offset = -1
    BY <1>4, <1>6
  <2> QED BY <2>1, BitsTyped DEF TookOne
<1>7. CASE i # num_blocks(c)
  <2> DEFINE new == Taken(run, i)
             u == Filed(ch, new)
  <2>1. r.chunk = u /\ r.offset = i * class_to_size(c)
    BY <1>4, <1>7
  <2>2. i \in Blocks(c) /\ i \notin run.alloc_bitmap
    BY <1>5, <1>7 DEF Blocks
  <2>3. new \in CountedRun(c) /\ new.alloc_bitmap = run.alloc_bitmap \union {i}
    <3>1. run.free_blocks_count = num_blocks(c) - Cardinality(run.alloc_bitmap)
      BY <1>2 DEF CountedRun
    <3> QED BY <1>3, <2>2, <3>1, RunTaken
  <2>4. /\ Tail(free) \in Seq(CountedRun(c)) /\ Len(Tail(free)) = Len(free) - 1
        /\ Len(free) \in Nat \ {0}
    BY <1>1, HeadTailProperties, EmptySeq, Zenon
  <2>5. /\ [free EXCEPT ![1] = new] \in Seq(CountedRun(c))
        /\ Len([free EXCEPT ![1] = new]) = Len(free)
    BY <1>1, <2>3, <2>4, ExceptSeq
  <2>6. u \in CountedChunk(c) /\ u.overlaid = ch.overlaid
    <3> HIDE DEF new, u, free, full
    <3>1. u = Filed(ch, new)
      BY DEF u, new
    <3>2. /\ ch = [class |-> c, large |-> 0, runs_free |-> free, runs_full |-> full,
                   num_runs |-> ch.num_runs, overlaid |-> ch.overlaid]
          /\ ch.num_runs = Len(free) + Len(full)
          /\ ~ch.overlaid => ch.num_runs <= 1
          /\ ch.overlaid \in BOOLEAN
      BY ChunkParts DEF free, full
    <3>3. free # <<>>
      BY DEF free
    <3>4. new \in CountedRun(c) /\ Len(free) \in Nat
      BY <2>3, <2>4
    <3> QED BY <1>1, <2>4, <2>5, <3>1, <3>2, <3>3, <3>4, FiledRun
  <2>7. ASSUME ~ch.overlaid
        PROVE  i \notin BitsSet(ch) /\ BitsSet(u) = BitsSet(ch) \union {i}
    <3>1. free = <<run>> /\ full = <<>>
      <4>1. ch.num_runs = Len(free) + Len(full) /\ (~ch.overlaid => ch.num_runs <= 1)
        BY ChunkParts, Zenon
      <4>2. Len(free) + Len(full) <= 1
        BY <2>7, <4>1
      <4>3. free = <<free[1]>> /\ full = <<>>
        BY <1>1, <4>2, OneEntry, Zenon
      <4> QED BY <1>2, <4>3
    <3>2. BitsSet(ch) = run.alloc_bitmap
      BY <3>1, ShownOne DEF BitsSet
    <3>3. BitsSet(u) = new.alloc_bitmap
      <4>1. CASE new.free_blocks_count = 0
        <5>1. u.runs_free = Tail(free) /\ u.runs_full = Append(full, new)
          BY <4>1, ChunkParts DEF Filed
        <5>2. Tail(<<run>>) = <<>> /\ Append(<<>>, new) = <<new>>
          OBVIOUS
        <5>3. Tail(free) = <<>> /\ Append(full, new) = <<new>>
          BY <3>1, <5>2, Zenon
        <5> QED BY <5>1, <5>3, ShownOne DEF BitsSet
      <4>2. CASE new.free_blocks_count # 0
        <5>1. u.runs_free = [free EXCEPT ![1] = new] /\ u.runs_full = full
          BY <4>2, ChunkParts DEF Filed
        <5>2. [<<run>> EXCEPT ![1] = new] = <<new>>
          OBVIOUS
        <5>3. [free EXCEPT ![1] = new] = <<new>>
          BY <3>1, <5>2, Zenon
        <5>4. u.runs_free = <<new>> /\ u.runs_full = <<>>
          BY <3>1, <5>1, <5>3, Zenon
        <5>5. BitsSet(u) = new.alloc_bitmap \union {}
          BY <5>4, ShownOne, Zenon DEF BitsSet
        <5> QED BY <5>5
      <4> QED BY <4>1, <4>2
    <3> QED BY <2>2, <2>3, <3>2, <3>3
  <2>8. Bits(u) >= Bits(ch) + 1
    <3> HIDE DEF new, u, free, full, run
    <3>1. /\ free \in Seq(Run(c)) /\ full \in Seq(Run(c)) /\ new \in Run(c) /\ free # <<>>
      <4>1. new \in Run(c)
        BY <2>3 DEF CountedRun
      <4> QED BY <4>1, BitsTyped DEF free, full
    <3>2. i \notin free[1].alloc_bitmap /\ new.alloc_bitmap = free[1].alloc_bitmap \union {i}
      BY <1>2, <2>2, <2>3
    <3>3. ch = [class |-> c, large |-> 0, runs_free |-> free, runs_full |-> full,
                num_runs |-> ch.num_runs, overlaid |-> ch.overlaid]
      BY ChunkParts DEF free, full
    <3>4. u = Filed(ch, new)
      BY DEF u
    <3>5. Bits(u) >= Count(free) + Count(full) + 1
      BY <2>2, <3>1, <3>2, <3>3, <3>4, FiledBits
    <3>6. Bits(ch) = Count(free) + Count(full)
      BY DEF Bits, free, full
    <3> QED BY <3>5, <3>6
  <2>9. r.offset # -1
    <3>1. i * class_to_size(c) \in 0 .. RunSize - 1
      BY <2>2, BlockOffset
    <3> QED BY <2>1, <3>1
  <2> HIDE DEF u, i
  <2> QED BY <2>1, <2>2, <2>6, <2>7, <2>8, <2>9 DEF TookOne
<1> QED BY <1>6, <1>7

\* What a new run adds to a chunk that has no run with room.
LEMMA RunAdded ==
  ASSUME NEW c, NEW full, NEW n, NEW over \in BOOLEAN, NEW ch, NEW u,
         ch = [class |-> c, large |-> 0, runs_free |-> <<>>, runs_full |-> full,
               num_runs |-> n, overlaid |-> over],
         u = WithRun(ch)
  PROVE  /\ u = [class |-> c, large |-> 0, runs_free |-> <<NewRun(c)>>, runs_full |-> full,
                 num_runs |-> n + 1, overlaid |-> u.overlaid]
         /\ u.overlaid = (over \/ n > 0)
<1>1. Append(<<>>, NewRun(c)) = <<NewRun(c)>>
  OBVIOUS
<1>2. PICK b : b = (over \/ n > 0)
  OBVIOUS
<1>3. u = [ch EXCEPT !.runs_free = <<NewRun(c)>>, !.num_runs = n + 1, !.overlaid = b]
  BY <1>1, <1>2, Zenon DEF WithRun
<1>4. u.overlaid = b
  BY <1>3
<1> QED BY <1>2, <1>3, <1>4

\* ... or from one made for it.
LEMMA TakeNew ==
  ASSUME NEW c \in Classes, NEW ch \in CountedChunk(c), ch.runs_free = <<>>
  PROVE  TookOne(ch, Take(WithRun(ch)), c)
<1> DEFINE made == WithRun(ch)
           full == ch.runs_full
           run == NewRun(c)
           n == ch.num_runs + 1
           over == made.overlaid
           i == bitmap_find_first_clear(run.alloc_bitmap, num_blocks(c))
           r == Take(made)
<1>1. /\ ch.class = c /\ ch.overlaid \in BOOLEAN /\ full \in Seq(CountedRun(c))
      /\ ch.num_runs = Len(full) /\ Len(full) \in Nat
      /\ ch = [class |-> c, large |-> 0, runs_free |-> <<>>, runs_full |-> full,
               num_runs |-> ch.num_runs, overlaid |-> ch.overlaid]
  <2>1. ch.num_runs = Len(ch.runs_free) + Len(full) /\ full \in Seq(CountedRun(c))
    BY ChunkParts, Zenon
  <2>2. Len(full) \in Nat /\ Len(ch.runs_free) = 0
    BY <2>1, LenProperties
  <2>3. ch.num_runs = Len(full)
    BY <2>1, <2>2
  <2> QED BY <2>1, <2>2, <2>3, ChunkParts, Zenon
<1>2. /\ over \in BOOLEAN
      /\ ch.overlaid => over
      /\ Len(full) > 0 => over
      /\ made = [class |-> c, large |-> 0, runs_free |-> <<run>>, runs_full |-> full,
                 num_runs |-> n, overlaid |-> over]
  <2>1. PICK k, o : k = ch.num_runs /\ o = ch.overlaid
    OBVIOUS
  <2>2. /\ ch = [class |-> c, large |-> 0, runs_free |-> <<>>, runs_full |-> full,
                 num_runs |-> k, overlaid |-> o]
        /\ o \in BOOLEAN
    BY <1>1, <2>1, Zenon
  <2> HIDE DEF made, run, full
  <2>3. /\ made = [class |-> c, large |-> 0, runs_free |-> <<run>>, runs_full |-> full,
                  num_runs |-> k + 1, overlaid |-> made.overlaid]
        /\ made.overlaid = (o \/ k > 0)
    <3>1. made = WithRun(ch)
      BY DEF made
    <3> QED BY <2>2, <3>1, RunAdded DEF run
  <2>4. /\ made = [class |-> c, large |-> 0, runs_free |-> <<run>>, runs_full |-> full,
                   num_runs |-> n, overlaid |-> over]
        /\ over = (ch.overlaid \/ ch.num_runs > 0)
    BY <2>1, <2>3, Zenon
  <2>5. over \in BOOLEAN /\ (ch.overlaid => over) /\ (ch.num_runs > 0 => over)
    <3> HIDE DEF over
    <3> QED BY <2>4, Zenon
  <2> HIDE DEF over, made
  <2> QED BY <1>1, <2>4, <2>5, Zenon
<1>3. /\ run \in Run(c) /\ run.alloc_bitmap = {} /\ num_blocks(c) \in Nat
      /\ run.free_blocks_count = num_blocks(c) - Cardinality(run.alloc_bitmap)
  BY NewRunIs, ClassFacts
<1>4. r = IF i = num_blocks(c) THEN [chunk |-> made, offset |-> -1]
          ELSE [chunk |-> Filed(made, Taken(run, i)), offset |-> i * class_to_size(c)]
  BY <1>2 DEF Take
<1>5. i = num_blocks(c) \/ i \in (0 .. num_blocks(c) - 1) \ run.alloc_bitmap
  BY <1>3, FirstClear
<1>6. i = num_blocks(c) => num_blocks(c) = 0
  <2>1. i = Min((0 .. num_blocks(c) - 1) \union {num_blocks(c)})
    BY <1>3 DEF bitmap_find_first_clear
  <2> DEFINE all == (0 .. num_blocks(c) - 1) \union {num_blocks(c)}
  <2>2. all \in SUBSET Nat /\ all # {} /\ 0 \in all
    BY <1>3
  <2>3. Min(all) <= 0
    BY <2>2, MinIsIn
  <2> QED BY <1>3, <2>1, <2>3
\* No run was full and none had room: the chunk had none.
<1>7. ASSUME ~over
      PROVE  full = <<>> /\ BitsSet(ch) = {} /\ n = 1
  <2>0. ~(Len(full) > 0)
    BY <1>2, <1>7, Zenon
  <2>1. Len(full) = 0 /\ n = 1
    BY <1>1, <2>0
  <2>2. full = <<>>
    BY <1>1, <2>1, EmptySeq
  <2> QED BY <2>1, <2>2, ShownOne DEF BitsSet
<1>8. n = Len(<<run>>) + Len(full)
  BY <1>1
<1>9. CASE i = num_blocks(c)
  <2>1. r.chunk = made /\ r.offset = -1
    BY <1>4, <1>9
  <2>2. run \in CountedRun(c)
    <3>1. ~(num_blocks(c) > 0)
      BY <1>6, <1>9
    <3> QED BY <1>3, <3>1, Zenon DEF CountedRun
  <2>3. <<run>> \in Seq(CountedRun(c))
    BY <2>2
  <2>4. made \in CountedChunk(c)
    <3> HIDE DEF made, run, n, over, full
    <3>1. ~over => n <= 1
      BY <1>7
    <3> QED BY <1>1, <1>2, <1>8, <2>3, <3>1, ChunkMade, Zenon
  <2>5. ~over => BitsSet(made) = BitsSet(ch)
    <3> SUFFICES ASSUME ~over PROVE BitsSet(made) = BitsSet(ch)
      OBVIOUS
    <3>1. made.runs_free = <<run>> /\ made.runs_full = <<>>
      BY <1>2, <1>7
    <3>2. BitsSet(made) = run.alloc_bitmap \union {}
      BY <3>1, ShownOne, Zenon DEF BitsSet
    <3> QED BY <1>3, <1>7, <3>2
  <2>6. ch.overlaid => over
    BY <1>2
  <2>7. Bits(made) >= Bits(ch)
    <3>1. Bits(made) = Count(made.runs_free) + Count(full) /\ Count(made.runs_free) \in Nat
      <4>1. made.runs_full = full
        BY <1>2
      <4> HIDE DEF made
      <4> QED BY <2>4, <4>1, BitsTyped DEF Bits
    <3>2. Bits(ch) = 0 + Count(full) /\ Count(full) \in Nat
      BY CountEmpty, BitsTyped DEF Bits
    <3> HIDE DEF made, full
    <3> QED BY <3>1, <3>2
  <2>8. /\ r.chunk \in CountedChunk(c) /\ (ch.overlaid => r.chunk.overlaid)
        /\ ~r.chunk.overlaid => BitsSet(r.chunk) = BitsSet(ch)
    BY <2>1, <2>4, <2>5, <2>6
  <2> HIDE DEF r
  <2>9. Bits(r.chunk) >= Bits(ch) + (IF r.offset = -1 THEN 0 ELSE 1)
    <3> HIDE DEF made
    <3>1. Bits(made) \in Nat /\ Bits(ch) \in Nat
      BY <2>4, BitsTyped
    <3> QED BY <2>1, <2>7, <3>1
  <2>10. r.offset = -1
    BY <2>1
  <2>11. TookOne(ch, r, c)
    BY <2>8, <2>9, <2>10 DEF TookOne
  <2> QED BY <2>11 DEF r, made
<1>10. CASE i # num_blocks(c)
  <2> DEFINE new == Taken(run, i)
             u == Filed(made, new)
  <2>1. r.chunk = u /\ r.offset = i * class_to_size(c)
    BY <1>4, <1>10
  <2>2. i \in Blocks(c) /\ i \notin run.alloc_bitmap
    BY <1>5, <1>10 DEF Blocks
  <2>3. new \in CountedRun(c) /\ new.alloc_bitmap = {i}
    <3>1. new \in CountedRun(c) /\ new.alloc_bitmap = run.alloc_bitmap \union {i}
      <4>1. PICK v : v = new
        OBVIOUS
      <4>2. v = Taken(run, i)
        BY <4>1
      <4> HIDE DEF run, i, new
      <4>3. run \in Run(c) /\ run.free_blocks_count = num_blocks(c) - Cardinality(run.alloc_bitmap)
        BY <1>3, Zenon
      <4>4. v \in CountedRun(c) /\ v.alloc_bitmap = run.alloc_bitmap \union {i}
        BY <2>2, <4>2, <4>3, RunTaken
      <4> QED BY <4>1, <4>4
    <3> QED BY <1>3, <3>1
  <2>4. /\ Tail(<<run>>) = <<>> /\ <<>> \in Seq(CountedRun(c)) /\ Len(<<>>) = 0
        /\ [<<run>> EXCEPT ![1] = new] = <<new>> /\ Len(<<run>>) = 1 /\ Len(<<new>>) = 1
        /\ <<run>> # <<>> /\ Append(<<>>, new) = <<new>>
    BY SMT
  <2>5. <<new>> \in Seq(CountedRun(c))
    BY <2>3
  <2>6. u \in CountedChunk(c) /\ u.overlaid = over
    <3> HIDE DEF new, u, run, n, over, full, made
    <3>1. u = Filed(made, new)
      BY DEF u
    <3>2. ~over => n <= 1
      BY <1>7
    <3> DEFINE free == <<run>>
    <3>3. /\ free # <<>> /\ Tail(free) \in Seq(CountedRun(c))
          /\ [free EXCEPT ![1] = new] \in Seq(CountedRun(c))
          /\ Len(Tail(free)) = Len(free) - 1 /\ Len(free) \in Nat
          /\ Len([free EXCEPT ![1] = new]) = Len(free)
      <4>1. Tail(free) = <<>> /\ [free EXCEPT ![1] = new] = <<new>> /\ Len(free) = 1 /\ free # <<>>
        BY <2>4, Zenon
      <4> HIDE DEF free
      <4>2. Len(Tail(free)) = Len(free) - 1 /\ Len([free EXCEPT ![1] = new]) = Len(free)
        BY <2>4, <4>1
      <4>3. Tail(free) \in Seq(CountedRun(c)) /\ [free EXCEPT ![1] = new] \in Seq(CountedRun(c))
        BY <2>4, <2>5, <4>1, Zenon
      <4>4. Len(free) \in Nat
        BY <4>1
      <4> QED BY <4>1, <4>2, <4>3, <4>4, Zenon
    <3>4. made = [class |-> c, large |-> 0, runs_free |-> free, runs_full |-> full,
                  num_runs |-> n, overlaid |-> over] /\ over \in BOOLEAN
          /\ n = Len(free) + Len(full)
      BY <1>2, <1>8
    <3> HIDE DEF free
    <3> QED BY <1>1, <2>3, <3>1, <3>2, <3>3, <3>4, FiledRun
  <2>7. ASSUME ~over
        PROVE  i \notin BitsSet(ch) /\ BitsSet(u) = BitsSet(ch) \union {i}
    <3>1. \/ u.runs_free = <<>> /\ u.runs_full = <<new>>
          \/ u.runs_free = <<new>> /\ u.runs_full = <<>>
      <4>1. made.runs_free = <<run>> /\ made.runs_full = <<>>
        BY <1>2, <1>7, <2>7
      <4>2. CASE new.free_blocks_count = 0
        <5>1. u.runs_free = Tail(made.runs_free) /\ u.runs_full = Append(made.runs_full, new)
          BY <1>2, <4>2 DEF Filed
        <5> QED BY <2>4, <4>1, <5>1, Zenon
      <4>3. CASE new.free_blocks_count # 0
        <5>1. u.runs_free = [made.runs_free EXCEPT ![1] = new] /\ u.runs_full = made.runs_full
          BY <1>2, <4>3 DEF Filed
        <5> QED BY <2>4, <4>1, <5>1, Zenon
      <4> QED BY <4>2, <4>3
    <3>2. BitsSet(u) = {i}
      <4>1. Shown(<<>>) = {} /\ Shown(<<new>>) = {i}
        BY <2>3, ShownOne, Zenon
      <4> QED BY <3>1, <4>1 DEF BitsSet
    <3> QED BY <1>7, <2>7, <3>2
  <2>8. ch.overlaid => over
    BY <1>2
  <2>9. Bits(u) >= Bits(ch) + 1
    <3> HIDE DEF new, u, run, n, over, full, made
    <3> DEFINE free == <<run>>
    <3>1. free \in Seq(Run(c)) /\ free # <<>> /\ free[1] = run /\ new \in Run(c)
      <4>1. new \in Run(c)
        BY <2>3 DEF CountedRun
      <4> QED BY <1>3, <4>1
    <3>2. i \notin free[1].alloc_bitmap /\ new.alloc_bitmap = free[1].alloc_bitmap \union {i}
      <4> HIDE DEF free
      <4> QED BY <1>3, <2>2, <2>3, <3>1
    <3>3. made = [class |-> c, large |-> 0, runs_free |-> free, runs_full |-> full,
                  num_runs |-> n, overlaid |-> over]
      BY <1>2
    <3>4. u = Filed(made, new)
      BY DEF u
    <3>5. full \in Seq(Run(c)) /\ Count(full) \in Nat /\ Bits(ch) = 0 + Count(full)
      BY CountEmpty, BitsTyped DEF Bits, full
    <3> HIDE DEF free
    <3>6. Bits(u) >= Count(free) + Count(full) + 1
      BY <2>2, <3>1, <3>2, <3>3, <3>4, <3>5, FiledBits
    <3>7. Count(free) \in Nat
      BY <3>1, BitsMember
    <3>8. Bits(u) \in Nat
      BY <2>6, BitsTyped
    <3> QED BY <3>5, <3>6, <3>7, <3>8
  <2>10. r.offset # -1
    <3>1. i * class_to_size(c) \in 0 .. RunSize - 1
      BY <2>2, BlockOffset
    <3> QED BY <2>1, <3>1
  <2> HIDE DEF u, i, over
  <2> QED BY <2>1, <2>2, <2>6, <2>7, <2>8, <2>9, <2>10 DEF TookOne
<1> QED BY <1>9, <1>10

\* chunk_alloc_small takes a block no bit says is in use, or none.
LEMMA SmallAllocated ==
  ASSUME NEW c \in Classes, NEW ch \in CountedChunk(c), NEW r \in AllocSmall(ch)
  PROVE  TookOne(ch, r, c)
<1>1. CASE chunk_find_available_run(ch) # {}
  <2>1. ch.runs_free # <<>> /\ r = Take(ch)
    BY <1>1 DEF AllocSmall, chunk_find_available_run
  <2> QED BY <2>1, TakeListed
<1>2. CASE r = [chunk |-> ch, offset |-> -1]
  BY <1>2, BitsTyped DEF TookOne
<1>3. CASE chunk_find_available_run(ch) = {} /\ r = Take(WithRun(ch))
  <2>1. ch.runs_free = <<>>
    BY <1>3 DEF chunk_find_available_run
  <2> QED BY <1>3, <2>1, TakeNew
<1> QED BY <1>1, <1>2, <1>3 DEF AllocSmall

\* A list without its first element.
LEMMA WithoutFirst ==
  ASSUME NEW S, NEW s \in Seq(S), s # <<>>
  PROVE  WithoutNth(s, 1) = Tail(s)
<1>1. Tail(s) = SubSeq(s, 2, Len(s)) /\ Tail(s) \in Seq(S)
  BY TailIsSubSeq, HeadTailProperties
<1>2. SubSeq(s, 1, 0) = <<>>
  BY SubSeqEmpty
<1>3. <<>> \o Tail(s) = Tail(s)
  BY <1>1, ConcatEmptySeq
<1>4. 1 - 1 = 0 /\ 1 + 1 = 2
  OBVIOUS
<1> QED BY <1>1, <1>2, <1>3, <1>4 DEF WithoutNth

\* A list whose first run has lost block i.
LEMMA ListFreed ==
  ASSUME NEW c \in Classes, NEW s \in Seq(CountedRun(c)), s # <<>>,
         NEW i \in Blocks(c), i \in s[1].alloc_bitmap,
         NEW run, run = [alloc_bitmap |-> bitmap_clear_bit(s[1].alloc_bitmap, i),
                         free_blocks_count |-> s[1].free_blocks_count + 1],
         NEW t, t = IF Emptied(run, c) THEN WithoutNth(s, 1) ELSE [s EXCEPT ![1] = run]
  PROVE  /\ t \in Seq(CountedRun(c)) /\ Len(s) \in Nat \ {0}
         /\ Len(t) = IF Emptied(run, c) THEN Len(s) - 1 ELSE Len(s)
         /\ Len(s) = 1 => Shown(t) = Shown(s) \ {i}
         /\ Count(t) >= Count(s) - 1
<1>0. s \in Seq(Run(c)) /\ Count(s) \in Nat
  <2>1. CountedRun(c) \subseteq Run(c)
    BY DEF CountedRun
  <2>2. s \in Seq(Run(c))
    BY <2>1, SeqMonotonic
  <2> QED BY <2>2, BitsMember
<1>1. Len(s) \in Nat \ {0}
  BY EmptySeq, Zenon
<1>2. s[1] \in CountedRun(c)
  BY <1>1, ElementOfSeq
<1>3. /\ run.alloc_bitmap = s[1].alloc_bitmap \ {i}
      /\ IF Emptied(run, c) THEN run.alloc_bitmap = {} ELSE run \in CountedRun(c)
  BY <1>2, RunFreed
<1>4. Len(s) = 1 => s = <<s[1]>> /\ Shown(s) = s[1].alloc_bitmap
  <2> SUFFICES ASSUME Len(s) = 1 PROVE s = <<s[1]>> /\ Shown(s) = s[1].alloc_bitmap
    OBVIOUS
  <2>1. <<>> \in Seq(CountedRun(c)) /\ Len(<<>>) = 0
    BY EmptySeq
  <2>2. Len(s) + Len(<<>>) <= 1
    BY <2>1
  <2>3. s = <<s[1]>>
    BY <2>1, <2>2, OneEntry, Zenon
  <2>4. Shown(<<s[1]>>) = s[1].alloc_bitmap
    BY ShownOne
  <2> QED BY <2>3, <2>4, Zenon
<1>5. CASE Emptied(run, c)
  <2>1. t = Tail(s)
    BY <1>5, WithoutFirst
  <2>2. t \in Seq(CountedRun(c)) /\ Len(t) = Len(s) - 1
    BY <2>1, HeadTailProperties
  <2>3. ASSUME Len(s) = 1 PROVE Shown(t) = Shown(s) \ {i}
    <3>1. Len(t) = 0
      BY <2>2, <2>3
    <3>2. t = <<>>
      BY <2>2, <3>1, EmptySeq
    <3>3. Shown(t) = {}
      BY <3>2, ShownOne
    <3>4. Shown(s) \ {i} = {}
      BY <1>3, <1>4, <1>5, <2>3
    <3> QED BY <3>3, <3>4
  <2>4. Count(t) >= Count(s) - 1
    <3>1. Count(s) <= Count(t) + Cardinality(s[1].alloc_bitmap)
      BY <1>0, <2>1, CountTail
    <3>2. Cardinality(s[1].alloc_bitmap) = 1
      <4>1. PICK bits : bits = s[1].alloc_bitmap
        OBVIOUS
      <4>2. bits \in SUBSET Blocks(c) /\ i \in bits /\ bits \ {i} = {}
        BY <1>2, <1>3, <1>5, <4>1 DEF CountedRun, Run
      <4>3. Cardinality(bits \ {i}) = Cardinality(bits) - 1 /\ Cardinality(bits) \in 0 .. num_blocks(c)
        BY <4>2, BitmapCounts
      <4>4. Cardinality({}) = 0 /\ num_blocks(c) \in Nat
        BY FS_EmptySet, ClassFacts
      <4>5. Cardinality(bits \ {i}) = 0
        BY <4>2, <4>4, Zenon
      <4>6. PICK k : k = Cardinality(bits)
        OBVIOUS
      <4>7. k \in Nat /\ k - 1 = 0
        BY <4>3, <4>4, <4>5, <4>6
      <4>8. k = 1
        BY <4>7
      <4> QED BY <4>1, <4>6, <4>8, Zenon
    <3>3. Count(t) \in Nat
      <4>1. t \in Seq(Run(c))
        BY <1>0, <2>1, CountTail
      <4> QED BY <4>1, BitsMember
    <3> QED BY <1>0, <3>1, <3>2, <3>3
  <2> QED BY <1>1, <1>5, <2>2, <2>3, <2>4
<1>6. CASE ~Emptied(run, c)
  <2>1. t = [s EXCEPT ![1] = run] /\ run \in CountedRun(c)
    BY <1>3, <1>6
  <2>2. t \in Seq(CountedRun(c)) /\ Len(t) = Len(s)
    BY <1>1, <2>1, ExceptSeq
  <2>3. ASSUME Len(s) = 1 PROVE Shown(t) = Shown(s) \ {i}
    <3>1. t = [<<s[1]>> EXCEPT ![1] = run]
      BY <1>4, <2>1, <2>3, Zenon
    <3>2. [<<s[1]>> EXCEPT ![1] = run] = <<run>>
      OBVIOUS
    <3>3. Shown(t) = run.alloc_bitmap
      BY <3>1, <3>2, ShownOne, Zenon
    <3> QED BY <1>3, <1>4, <2>3, <3>3
  <2>4. Count(t) >= Count(s) - 1
    <3>1. run \in Run(c)
      BY <2>1 DEF CountedRun
    <3>2. Count([s EXCEPT ![1] = run]) = Count(s) - 1
      <4>1. run.alloc_bitmap = s[1].alloc_bitmap \ {i} /\ i \in s[1].alloc_bitmap =>
              Count([s EXCEPT ![1] = run]) = Count(s) - 1
        BY <1>0, <3>1, CountChanged, Zenon
      <4> QED BY <1>3, <4>1, Zenon
    <3>3. Count(t) = Count(s) - 1
      BY <2>1, <3>2, Zenon
    <3> QED BY <1>0, <3>3
  <2> QED BY <1>1, <1>6, <2>2, <2>3, <2>4
<1> QED BY <1>5, <1>6

\* A list after the free of a block of its first run.
AfterFree(s, run, c) == IF Emptied(run, c) THEN WithoutNth(s, 1) ELSE [s EXCEPT ![1] = run]

\* The lists of a chunk after a block of a run that is first was freed.
LEMMA FirstRefiled ==
  ASSUME NEW c, NEW free, NEW full, NEW n, NEW over, NEW run, NEW ch, NEW u, Len(free) \in Nat,
         ch = [class |-> c, large |-> 0, runs_free |-> free, runs_full |-> full,
               num_runs |-> n, overlaid |-> over],
         u = Refiled(ch, 1, run)
  PROVE  u = [class |-> c, large |-> 0,
              runs_free |-> IF Len(free) = 0 THEN free ELSE AfterFree(free, run, c),
              runs_full |-> IF Len(free) = 0 THEN AfterFree(full, run, c) ELSE full,
              num_runs |-> IF Emptied(run, c) THEN n - 1 ELSE n, overlaid |-> over]
<1> DEFINE w == InLists(ch, 1, run)
<1>1. CASE Len(free) = 0
  <2>1. 1 > Len(free) /\ ~(1 <= Len(free)) /\ 1 - Len(free) = 1
    BY <1>1
  <2>2. w = [ch EXCEPT !.runs_full = AfterFree(full, run, c)]
    BY <2>1 DEF InLists, AfterFree
  <2> QED BY <1>1, <2>2 DEF Refiled
<1>2. CASE Len(free) # 0
  <2>1. ~(1 > Len(free)) /\ 1 <= Len(free)
    BY <1>2
  <2>2. w = [ch EXCEPT !.runs_free = AfterFree(free, run, c), !.runs_full = full]
    <3>1. ch.runs_free = free /\ ch.runs_full = full /\ ch.class = c
      OBVIOUS
    <3> QED BY <2>1, <3>1, Zenon DEF InLists, AfterFree
  <2>3. w = [class |-> c, large |-> 0, runs_free |-> AfterFree(free, run, c), runs_full |-> full,
             num_runs |-> n, overlaid |-> over]
    BY <2>2
  <2> QED BY <1>2, <2>3 DEF Refiled
<1> QED BY <1>1, <1>2

\* chunk_free_small keeps the chunk's counts, and clears the bit of the block
\* freed at most.
LEMMA SmallFreed ==
  ASSUME NEW c \in Classes, NEW ch \in CountedChunk(c), NEW offset \in 0 .. RunSize - 1,
         NEW g \in Classes, NEW u, u = FreeSmall(ch, offset, g)
  PROVE  /\ u \in CountedChunk(c) /\ u.overlaid = ch.overlaid
         /\ ~ch.overlaid => /\ BitsSet(u) \subseteq BitsSet(ch)
                            /\ BitsSet(ch) \ {offset \div class_to_size(c)} \subseteq BitsSet(u)
         /\ Bits(u) >= Bits(ch) - 1
<1> DEFINE free == ch.runs_free
           full == ch.runs_full
           all == IF g = ch.class THEN free \o full ELSE <<>>
           i == offset \div class_to_size(g)
<1>1. /\ ch.class = c /\ free \in Seq(CountedRun(c)) /\ full \in Seq(CountedRun(c))
      /\ ch.overlaid \in BOOLEAN /\ ch.num_runs = Len(free) + Len(full)
      /\ ~ch.overlaid => ch.num_runs <= 1
      /\ ch = [class |-> c, large |-> 0, runs_free |-> free, runs_full |-> full,
               num_runs |-> ch.num_runs, overlaid |-> ch.overlaid]
  BY ChunkParts, Zenon
<1>2. offset \div RunSize = 0
  BY InOneRun
<1>3. u = IF 1 > Len(all) \/ i >= num_blocks(g) THEN ch ELSE FreedBlock(ch, 1, all[1], i)
  <2>1. 0 + 1 = 1 /\ offset - (1 - 1) * RunSize = offset
    BY ArenaAssumption
  <2> QED BY <1>2, <2>1, Zenon DEF FreeSmall
<1>4. CASE u = ch
  BY <1>4, BitsTyped
<1>5. CASE u # ch
  <2>1. g = c /\ ~(1 > Len(all)) /\ ~(i >= num_blocks(c))
    <3>1. g = c
      <4> SUFFICES ASSUME g # c PROVE FALSE
        OBVIOUS
      <4>1. all = <<>> /\ Len(<<>>) = 0
        BY <1>1
      <4> HIDE DEF all
      <4>2. 1 > Len(all)
        BY <4>1
      <4> QED BY <1>3, <1>5, <4>2, Zenon
    <3> QED BY <1>3, <1>5, <3>1
  <2>2. i \in Blocks(c)
    <3>1. \A m \in Nat, k \in Nat \ {0} : m \div k \in Nat
      BY Z3
    <3>2. i \in Nat /\ num_blocks(c) \in Nat
      BY <2>1, <3>1, ClassFacts, ArenaAssumption
    <3> QED BY <2>1, <3>2 DEF Blocks
  <2>3. all = free \o full
    BY <1>1, <2>1
  <2>4. Len(free) \in Nat /\ Len(full) \in Nat /\ Len(all) = Len(free) + Len(full)
        /\ \A k \in 1 .. Len(free) + Len(full) :
             all[k] = IF k <= Len(free) THEN free[k] ELSE full[k - Len(free)]
    BY <1>1, <2>3, ConcatProperties, LenProperties
  <2> DEFINE run == all[1]
             new == [alloc_bitmap |-> bitmap_clear_bit(run.alloc_bitmap, i),
                     free_blocks_count |-> run.free_blocks_count + 1]
             m == IF Emptied(new, c) THEN ch.num_runs - 1 ELSE ch.num_runs
             free2 == IF Len(free) = 0 THEN free ELSE AfterFree(free, new, c)
             full2 == IF Len(free) = 0 THEN AfterFree(full, new, c) ELSE full
  <2>5. i \in run.alloc_bitmap /\ u = Refiled(ch, 1, new)
    BY <1>3, <1>5, <2>1 DEF FreedBlock, bitmap_get
  <2> HIDE DEF free, full, i, new, free2, full2, m
  <2>6. u = [class |-> c, large |-> 0, runs_free |-> free2, runs_full |-> full2,
             num_runs |-> m, overlaid |-> ch.overlaid]
    BY <1>1, <2>4, <2>5, FirstRefiled DEF free2, full2, m
  <2> SUFFICES /\ free2 \in Seq(CountedRun(c)) /\ full2 \in Seq(CountedRun(c))
               /\ m = Len(free2) + Len(full2) /\ m \in Nat /\ m <= ch.num_runs
               /\ ~ch.overlaid =>
                    Shown(free2) \union Shown(full2) = (Shown(free) \union Shown(full)) \ {i}
               /\ Count(free2) + Count(full2) >= Count(free) + Count(full) - 1
    <3>1. ~ch.overlaid => m <= 1
      BY <1>1, <2>4
    <3>2. u \in CountedChunk(c)
      BY <1>1, <2>6, <3>1, ChunkMade, Zenon
    <3>3. u.overlaid = ch.overlaid /\ u.runs_free = free2 /\ u.runs_full = full2
      BY <2>6
    <3>4. Bits(u) = Count(free2) + Count(full2) /\ Bits(ch) = Count(free) + Count(full)
      BY <3>3, Zenon DEF Bits, free, full
    <3>5. u \in CountedChunk(c) /\ u.overlaid = ch.overlaid /\ Bits(u) >= Bits(ch) - 1
      <4>1. Bits(u) >= Bits(ch) - 1
        <5>1. CountedRun(c) \subseteq Run(c)
          BY DEF CountedRun
        <5>2. free2 \in Seq(Run(c)) /\ full2 \in Seq(Run(c))
          BY <5>1, SeqMonotonic
        <5>3. Count(free2) \in Nat /\ Count(full2) \in Nat
          BY <5>2, BitsMember
        <5>4. Count(free) \in Nat /\ Count(full) \in Nat
          BY BitsTyped DEF free, full
        <5> QED BY <3>4, <5>3, <5>4
      <4> QED BY <3>2, <3>3, <4>1
    <3> QED BY <2>1, <3>3, <3>5, Zenon DEF BitsSet, free, full, i
  <2>c. Count(free) \in Nat /\ Count(full) \in Nat
    BY BitsTyped DEF free, full
  <2>7. CASE Len(free) = 0
    <3>1. free = <<>> /\ Shown(free) = {}
      BY <1>1, <2>7, ShownOne, EmptySeq
    <3>2. full # <<>> /\ run = full[1]
      <4>1. Len(<<>>) = 0 /\ Len(full) >= 1
        BY <2>1, <2>4, <2>7
      <4> QED BY <2>4, <2>7, <4>1
    <3>3. /\ AfterFree(full, new, c) \in Seq(CountedRun(c)) /\ Len(full) \in Nat \ {0}
          /\ Len(AfterFree(full, new, c)) = IF Emptied(new, c) THEN Len(full) - 1 ELSE Len(full)
          /\ Len(full) = 1 => Shown(AfterFree(full, new, c)) = Shown(full) \ {i}
          /\ Count(AfterFree(full, new, c)) >= Count(full) - 1 /\ Count(AfterFree(full, new, c)) \in Nat
      <4>1. i \in full[1].alloc_bitmap
        BY <2>5, <3>2
      <4>2. new = [alloc_bitmap |-> bitmap_clear_bit(full[1].alloc_bitmap, i),
                   free_blocks_count |-> full[1].free_blocks_count + 1]
        BY <3>2 DEF new
      <4>3. PICK t : t = AfterFree(full, new, c)
        OBVIOUS
      <4>4. t = IF Emptied(new, c) THEN WithoutNth(full, 1) ELSE [full EXCEPT ![1] = new]
        BY <4>3 DEF AfterFree
      <4>5. full \in Seq(CountedRun(c)) /\ full # <<>>
        BY <1>1, <3>2
      <4>6. /\ t \in Seq(CountedRun(c)) /\ Len(full) \in Nat \ {0}
            /\ Len(t) = IF Emptied(new, c) THEN Len(full) - 1 ELSE Len(full)
            /\ Len(full) = 1 => Shown(t) = Shown(full) \ {i}
            /\ Count(t) >= Count(full) - 1
        BY <2>2, <4>1, <4>2, <4>4, <4>5, ListFreed
      <4>7. Count(t) \in Nat
        <5>1. CountedRun(c) \subseteq Run(c)
          BY DEF CountedRun
        <5>2. t \in Seq(Run(c))
          BY <4>6, <5>1, SeqMonotonic
        <5> QED BY <5>2, BitsMember
      <4> QED BY <4>3, <4>6, <4>7
    <3>4. free2 = free /\ full2 = AfterFree(full, new, c)
      BY <2>7 DEF free2, full2
    <3>5. ch.num_runs = Len(full)
      BY <1>1, <2>4, <2>7
    <3>6. m = Len(full2) /\ m \in Nat /\ m <= ch.num_runs
      BY <3>3, <3>4, <3>5 DEF m
    <3>7. ~ch.overlaid => Shown(full2) = Shown(full) \ {i}
      BY <1>1, <3>3, <3>4, <3>5
    <3>8. Count(free2) + Count(full2) >= Count(free) + Count(full) - 1
      BY <2>c, <3>3, <3>4
    <3> QED BY <1>1, <2>7, <3>1, <3>3, <3>4, <3>6, <3>7, <3>8
  <2>8. CASE Len(free) # 0
    <3>1. free # <<>> /\ run = free[1]
      <4>1. Len(<<>>) = 0 /\ 1 \in 1 .. Len(free) + Len(full) /\ 1 <= Len(free)
        BY <2>4, <2>8
      <4> QED BY <2>4, <2>8, <4>1
    <3>2. /\ AfterFree(free, new, c) \in Seq(CountedRun(c)) /\ Len(free) \in Nat \ {0}
          /\ Len(AfterFree(free, new, c)) = IF Emptied(new, c) THEN Len(free) - 1 ELSE Len(free)
          /\ Len(free) = 1 => Shown(AfterFree(free, new, c)) = Shown(free) \ {i}
          /\ Count(AfterFree(free, new, c)) >= Count(free) - 1 /\ Count(AfterFree(free, new, c)) \in Nat
      <4>1. i \in free[1].alloc_bitmap
        BY <2>5, <3>1
      <4>2. new = [alloc_bitmap |-> bitmap_clear_bit(free[1].alloc_bitmap, i),
                   free_blocks_count |-> free[1].free_blocks_count + 1]
        BY <3>1 DEF new
      <4>3. PICK t : t = AfterFree(free, new, c)
        OBVIOUS
      <4>4. t = IF Emptied(new, c) THEN WithoutNth(free, 1) ELSE [free EXCEPT ![1] = new]
        BY <4>3 DEF AfterFree
      <4>5. free \in Seq(CountedRun(c)) /\ free # <<>>
        BY <1>1, <3>1
      <4>6. /\ t \in Seq(CountedRun(c)) /\ Len(free) \in Nat \ {0}
            /\ Len(t) = IF Emptied(new, c) THEN Len(free) - 1 ELSE Len(free)
            /\ Len(free) = 1 => Shown(t) = Shown(free) \ {i}
            /\ Count(t) >= Count(free) - 1
        BY <2>2, <4>1, <4>2, <4>4, <4>5, ListFreed
      <4>7. Count(t) \in Nat
        <5>1. CountedRun(c) \subseteq Run(c)
          BY DEF CountedRun
        <5>2. t \in Seq(Run(c))
          BY <4>6, <5>1, SeqMonotonic
        <5> QED BY <5>2, BitsMember
      <4> QED BY <4>3, <4>6, <4>7
    <3>3. free2 = AfterFree(free, new, c) /\ full2 = full
      BY <2>8 DEF free2, full2
    <3>4. m = Len(free2) + Len(full2) /\ m \in Nat /\ m <= ch.num_runs
      <4>1. ch.num_runs = Len(free) + Len(full)
        BY <1>1
      <4>2. CASE Emptied(new, c)
        BY <2>4, <3>2, <3>3, <4>1, <4>2 DEF m
      <4>3. CASE ~Emptied(new, c)
        BY <2>4, <3>2, <3>3, <4>1, <4>3 DEF m
      <4> QED BY <4>2, <4>3
    <3>5. ~ch.overlaid => Len(free) = 1 /\ full = <<>>
      <4> SUFFICES ASSUME ~ch.overlaid PROVE Len(free) = 1 /\ full = <<>>
        OBVIOUS
      <4>1. Len(free) + Len(full) <= 1
        BY <1>1
      <4> QED BY <1>1, <3>1, <4>1, OneEntry, Zenon
    <3>6. ASSUME ~ch.overlaid
          PROVE  Shown(free2) \union Shown(full2) = (Shown(free) \union Shown(full)) \ {i}
      <4>1. Shown(full) = {}
        BY <3>5, <3>6, ShownOne
      <4> QED BY <3>2, <3>3, <3>5, <3>6, <4>1
    <3>7. Count(free2) + Count(full2) >= Count(free) + Count(full) - 1
      BY <2>c, <3>2, <3>3
    <3> QED BY <1>1, <3>2, <3>3, <3>4, <3>6, <3>7
  <2> QED BY <2>7, <2>8
<1> QED BY <1>4, <1>5

-----------------------------------------------------------------------------
(* Chunks, calls and holders.                                              *)

\* A chunk is a large one or one of a class.
LEMMA ChunkKinds ==
  ASSUME NEW ch \in AnyChunk
  PROVE  /\ ch.class \in Classes <=> ch.large = 0
         /\ ch.class \in Classes => ch \in CountedChunk(ch.class)
         /\ ch.class \notin Classes => ch \in LargeChunk /\ ch.class = LargeClass /\ ch.overlaid = FALSE
         /\ ch \in LargeChunk \/ \E c \in Classes : ch \in SmallChunk(c)
<1>1. CASE ch \in LargeChunk
  <2>1. ch.class = LargeClass /\ ch.large \in 1 .. ChunkSize /\ ch.overlaid = FALSE
    BY <1>1 DEF LargeChunk
  <2>2. ch.class \notin Classes /\ ch.large # 0
    BY <2>1, ClassFacts, ArenaAssumption
  <2> QED BY <1>1, <2>1, <2>2
<1>2. ASSUME NEW c \in Classes, ch \in CountedChunk(c)
      PROVE  /\ ch.class \in Classes <=> ch.large = 0
             /\ ch.class \in Classes => ch \in CountedChunk(ch.class)
             /\ ch.class \in Classes
             /\ ch \in SmallChunk(c)
  BY <1>2, ChunkParts DEF CountedChunk
<1> QED BY <1>1, <1>2 DEF AnyChunk

\* A chunk that exists is one of those the invariant knows.
LEMMA ChunkAt ==
  ASSUME TypeOK, ChunksInOrder, NEW n \in 1 .. num_chunks
  PROVE  chunks[n] \in AnyChunk
  BY ElementOfSeq DEF ChunksInOrder

\* A counted chunk is one of them.
LEMMA CountedIsAny ==
  ASSUME NEW c \in Classes, NEW ch \in CountedChunk(c)
  PROVE  ch \in AnyChunk
  BY DEF AnyChunk

\* A chunk is large or small.
LEMMA ChunksTyped ==
  ChunksInOrder => \A n \in 1 .. Len(chunks) :
                     chunks[n] \in LargeChunk \/ \E c \in Classes : chunks[n] \in SmallChunk(c)
<1> SUFFICES ASSUME ChunksInOrder, NEW n \in 1 .. Len(chunks)
             PROVE  chunks[n] \in LargeChunk \/ \E c \in Classes : chunks[n] \in SmallChunk(c)
  OBVIOUS
<1>1. chunks[n] \in AnyChunk
  BY ElementOfSeq DEF ChunksInOrder
<1> QED BY <1>1, ChunkKinds, Zenon

\* The threads can be counted.
LEMMA ThreadsFinite == IsFiniteSet(Threads) /\ Cardinality(Threads) \in Nat
  BY ArenaAssumption, FS_CardinalityType

One(x, p) == IF x = p THEN 1 ELSE 0

\* The calls that hold p, after the locals of one thread have changed.
LEMMA CallsCounted ==
  ASSUME TypeOK, NEW t \in Threads, NEW v, call' = [call EXCEPT ![t] = v], NEW p
  PROVE  /\ InCalls(p) \in Nat /\ InCalls(p)' \in Nat
         /\ InCalls(p)' + One(call[t].old, p) + One(call[t].new, p)
              = InCalls(p) + One(v.old, p) + One(v.new, p)
<1> DEFINE A == {s \in Threads : call[s].old = p}
           A2 == {s \in Threads : call'[s].old = p}
           B == {s \in Threads : call[s].new = p}
           B2 == {s \in Threads : call'[s].new = p}
<1>1. call'[t] = v /\ \A s \in Threads : s # t => call'[s] = call[s]
  BY DEF TypeOK
<1>2. /\ \A s \in Threads : s # t => (s \in A <=> s \in A2)
      /\ \A s \in Threads : s # t => (s \in B <=> s \in B2)
      /\ (t \in A <=> call[t].old = p) /\ (t \in A2 <=> v.old = p)
      /\ (t \in B <=> call[t].new = p) /\ (t \in B2 <=> v.new = p)
  BY <1>1
<1>3. A \in SUBSET Threads /\ A2 \in SUBSET Threads /\ B \in SUBSET Threads /\ B2 \in SUBSET Threads
  OBVIOUS
<1>4. InCalls(p) = Cardinality(A) + Cardinality(B) /\ InCalls(p)' = Cardinality(A2) + Cardinality(B2)
  BY DEF InCalls
<1> HIDE DEF A, A2, B, B2
<1>5. /\ Cardinality(A) \in Nat /\ Cardinality(A2) \in Nat
      /\ Cardinality(A2) + (IF t \in A THEN 1 ELSE 0) = Cardinality(A) + (IF t \in A2 THEN 1 ELSE 0)
  BY <1>2, <1>3, CountOfOne, ThreadsFinite
<1>6. /\ Cardinality(B) \in Nat /\ Cardinality(B2) \in Nat
      /\ Cardinality(B2) + (IF t \in B THEN 1 ELSE 0) = Cardinality(B) + (IF t \in B2 THEN 1 ELSE 0)
  BY <1>2, <1>3, CountOfOne, ThreadsFinite
<1> DEFINE a == Cardinality(A)
           a2 == Cardinality(A2)
           b == Cardinality(B)
           b2 == Cardinality(B2)
<1>7. /\ a \in Nat /\ a2 \in Nat /\ b \in Nat /\ b2 \in Nat
      /\ a2 + One(call[t].old, p) = a + One(v.old, p)
      /\ b2 + One(call[t].new, p) = b + One(v.new, p)
      /\ InCalls(p) = a + b /\ InCalls(p)' = a2 + b2
  BY <1>2, <1>4, <1>5, <1>6 DEF One
<1> HIDE DEF a, a2, b, b2
<1> QED BY <1>7 DEF One

\* A call holds a pointer once or not.
LEMMA OneIs == \A x, p : One(x, p) \in {0, 1}
  BY DEF One

\* No pointer is not a pointer.
LEMMA NoPointerIsNone == NoPointer \notin Pointer
  BY DEF NoPointer, Pointer

\* The types of the locals of a call.
LEMMA CallTypes ==
  ASSUME TypeOK, NEW t \in Threads
  PROVE  /\ call[t].old \in Pointer \union {NoPointer} /\ call[t].new \in Pointer \union {NoPointer}
         /\ call[t].size \in Requests \union {0} /\ call[t].chunk \in 0 .. MaxChunks
         /\ pc[t] \in Locations
  BY DEF TypeOK

\* The locals of a thread that is in no call.
LEMMA IdleIs == Idle.old = NoPointer /\ Idle.new = NoPointer /\ Idle.size = 0 /\ Idle.chunk = 0
  BY DEF Idle

\* The holders of a pointer are a number.
LEMMA HoldersTyped ==
  ASSUME TypeOK, NEW t \in Threads
  PROVE  \A p \in Pointer : Holders(p) \in Nat
<1> SUFFICES ASSUME NEW p \in Pointer PROVE Holders(p) \in Nat
  OBVIOUS
<1> DEFINE A == {s \in Threads : call[s].old = p}
           B == {s \in Threads : call[s].new = p}
<1>1. Cardinality(A) \in Nat /\ Cardinality(B) \in Nat
  BY CountOfOne, ThreadsFinite
<1>2. in_use[p] \in Nat
  BY DEF TypeOK
<1>3. Holders(p) = in_use[p] + (Cardinality(A) + Cardinality(B))
  BY DEF Holders, InCalls
<1> HIDE DEF A, B
<1> QED BY <1>1, <1>2, <1>3

\* How many hold p after a step that changes the locals of t and the uses of p.
LEMMA HoldersMoved ==
  ASSUME TypeOK, NEW t \in Threads, NEW v, call' = [call EXCEPT ![t] = v],
         NEW p \in Pointer, NEW d \in Int, in_use'[p] = in_use[p] + d
  PROVE  /\ Holders(p) \in Nat /\ Holders(p)' \in Int
         /\ Holders(p)' + One(call[t].old, p) + One(call[t].new, p)
              = Holders(p) + One(v.old, p) + One(v.new, p) + d
<1>1. /\ InCalls(p) \in Nat /\ InCalls(p)' \in Nat
      /\ InCalls(p)' + One(call[t].old, p) + One(call[t].new, p)
              = InCalls(p) + One(v.old, p) + One(v.new, p)
  BY CallsCounted, Zenon
<1>2. in_use[p] \in Nat
  BY DEF TypeOK
<1>3. Holders(p) = in_use[p] + InCalls(p) /\ Holders(p)' = in_use'[p] + InCalls(p)'
  BY DEF Holders
<1> HIDE DEF InCalls
<1>4. /\ One(call[t].old, p) \in {0, 1} /\ One(call[t].new, p) \in {0, 1}
      /\ One(v.old, p) \in {0, 1} /\ One(v.new, p) \in {0, 1}
  BY OneIs
<1> QED BY <1>1, <1>2, <1>3, <1>4

Gained(q) == \A p \in Pointer : Holders(p) \in Nat /\ Holders(p)' = Holders(p) + One(q, p)
Dropped(q) == \A p \in Pointer : Holders(p) \in Nat /\ Holders(p)' = Holders(p) - One(q, p)
Unmoved == \A p \in Pointer : Holders(p) \in Nat /\ Holders(p)' = Holders(p)

\* The pointer obtained has one holder more.
LEMMA ObtainedCounts ==
  ASSUME TypeOK, CallsInOrder, NEW t \in Threads, pc[t] \in {"find", "use"},
         NEW q \in Pointer, Obtained(t, q)
  PROVE  Gained(q)
<1> SUFFICES ASSUME NEW p \in Pointer
             PROVE  Holders(p) \in Nat /\ Holders(p)' = Holders(p) + One(q, p)
  BY DEF Gained
<1>1. call[t].new = NoPointer
  BY DEF CallsInOrder
<1>2. p # NoPointer
  BY NoPointerIsNone
<1>3. One(q, p) \in {0, 1} /\ One(NoPointer, p) = 0 /\ One(call[t].old, p) \in {0, 1}
  BY <1>2, OneIs DEF One
<1>4. CASE call[t].old = NoPointer
  <2>1. PICK v, d : v = Idle /\ d = One(q, p)
    OBVIOUS
  <2>2. v.old = NoPointer /\ v.new = NoPointer
    BY <1>4, <2>1, IdleIs DEF Obtained
  <2>c. call' = [call EXCEPT ![t] = v]
    BY <1>4, <2>1, IdleIs DEF Obtained
  <2>3. in_use'[p] = in_use[p] + d /\ d \in Int
    BY <1>3, <1>4, <2>1 DEF Obtained, TypeOK, One
  <2>4. /\ Holders(p) \in Nat /\ Holders(p)' \in Int
        /\ Holders(p)' + One(call[t].old, p) + One(call[t].new, p)
             = Holders(p) + One(v.old, p) + One(v.new, p) + d
    BY <2>c, <2>3, HoldersMoved
  <2> QED BY <1>1, <1>3, <1>4, <2>1, <2>2, <2>4
<1>5. CASE call[t].old # NoPointer
  <2>1. PICK v, d : v = [call[t] EXCEPT !.new = q] /\ d = 0
    OBVIOUS
  <2>2. v.old = call[t].old /\ v.new = q
    BY <1>5, <2>1 DEF Obtained, TypeOK
  <2>c. call' = [call EXCEPT ![t] = v]
    BY <1>5, <2>1 DEF Obtained, TypeOK
  <2>3. in_use'[p] = in_use[p] + d /\ d \in Int
    BY <1>5, <2>1 DEF Obtained, TypeOK
  <2>4. /\ Holders(p) \in Nat /\ Holders(p)' \in Int
        /\ Holders(p)' + One(call[t].old, p) + One(call[t].new, p)
             = Holders(p) + One(v.old, p) + One(v.new, p) + d
    BY <2>c, <2>3, HoldersMoved
  <2> QED BY <1>1, <1>3, <2>1, <2>2, <2>4
<1> QED BY <1>4, <1>5

\* A call that fails gives its client back what it had.
LEMMA FailedCounts ==
  ASSUME TypeOK, CallsInOrder, NEW t \in Threads, pc[t] \in {"find", "grow", "use"}, Failed(t)
  PROVE  Unmoved
<1> SUFFICES ASSUME NEW p \in Pointer
             PROVE  Holders(p) \in Nat /\ Holders(p)' = Holders(p)
  BY DEF Unmoved
<1>1. call[t].new = NoPointer
  BY DEF CallsInOrder
<1>2. p # NoPointer
  BY NoPointerIsNone
<1>3. One(NoPointer, p) = 0 /\ One(call[t].old, p) \in {0, 1}
  BY <1>2, OneIs DEF One
<1>4. PICK v, d : v = Idle /\ d = One(call[t].old, p)
  OBVIOUS
<1>5. v.old = NoPointer /\ v.new = NoPointer
  BY <1>4, IdleIs DEF Failed
<1>c. call' = [call EXCEPT ![t] = v]
  BY <1>4, IdleIs DEF Failed
<1>6. in_use'[p] = in_use[p] + d /\ d \in Int
  <2>1. in_use[p] \in Nat /\ in_use \in [Pointer -> Nat]
    BY DEF TypeOK
  <2>2. CASE call[t].old = NoPointer
    BY <1>2, <1>3, <1>4, <2>1, <2>2 DEF Failed
  <2>3. CASE call[t].old # NoPointer
    BY <1>4, <2>1, <2>3 DEF Failed, One
  <2> QED BY <2>2, <2>3
<1>7. /\ Holders(p) \in Nat /\ Holders(p)' \in Int
      /\ Holders(p)' + One(call[t].old, p) + One(call[t].new, p)
           = Holders(p) + One(v.old, p) + One(v.new, p) + d
  BY <1>c, <1>6, HoldersMoved
<1> QED BY <1>1, <1>3, <1>4, <1>5, <1>7

\* A thread that only notes a size or a chunk moves nothing.
LEMMA NotedCounts ==
  ASSUME TypeOK, NEW t \in Threads, NEW v, call' = [call EXCEPT ![t] = v],
         v.old = call[t].old, v.new = call[t].new, in_use' = in_use
  PROVE  Unmoved
<1> SUFFICES ASSUME NEW p \in Pointer
             PROVE  Holders(p) \in Nat /\ Holders(p)' = Holders(p)
  BY DEF Unmoved
<1>1. PICK d : d = 0
  OBVIOUS
<1>2. in_use'[p] = in_use[p] + d /\ d \in Int
  BY <1>1 DEF TypeOK
<1>3. /\ Holders(p) \in Nat /\ Holders(p)' \in Int
      /\ Holders(p)' + One(call[t].old, p) + One(call[t].new, p)
           = Holders(p) + One(v.old, p) + One(v.new, p) + d
  BY <1>2, HoldersMoved
<1>4. One(call[t].old, p) \in {0, 1} /\ One(call[t].new, p) \in {0, 1}
  BY OneIs
<1> QED BY <1>1, <1>3, <1>4

\* A realloc takes its block from the client.
LEMMA ReallocCounts ==
  ASSUME TypeOK, CallsInOrder, NEW t \in Threads, CallRealloc(t)
  PROVE  Unmoved
<1> SUFFICES ASSUME NEW p \in Pointer
             PROVE  Holders(p) \in Nat /\ Holders(p)' = Holders(p)
  BY DEF Unmoved
<1>1. PICK q \in Pointer, s \in Requests :
        /\ in_use' = [in_use EXCEPT ![q] = @ - 1]
        /\ call' = [call EXCEPT ![t] = [Idle EXCEPT !.size = s, !.old = q]]
  BY DEF CallRealloc
<1>2. call[t].old = NoPointer /\ call[t].new = NoPointer
  BY IdleIs DEF CallRealloc, CallsInOrder
<1>3. One(NoPointer, p) = 0 /\ One(q, p) \in {0, 1}
  BY OneIs, NoPointerIsNone DEF One
<1>4. PICK v, d : v = [Idle EXCEPT !.size = s, !.old = q] /\ d = 0 - One(q, p)
  OBVIOUS
<1>5. v.old = q /\ v.new = NoPointer
  BY <1>1, <1>4 DEF Idle
<1>c. call' = [call EXCEPT ![t] = v]
  BY <1>1, <1>4 DEF Idle
<1>6. in_use'[p] = in_use[p] + d /\ d \in Int
  BY <1>1, <1>3, <1>4 DEF TypeOK, One
<1>7. /\ Holders(p) \in Nat /\ Holders(p)' \in Int
      /\ Holders(p)' + One(call[t].old, p) + One(call[t].new, p)
           = Holders(p) + One(v.old, p) + One(v.new, p) + d
  BY <1>c, <1>6, HoldersMoved
<1> QED BY <1>2, <1>3, <1>4, <1>5, <1>7

\* A free takes its pointer from one holder.
LEMMA FreeCounts ==
  ASSUME TypeOK, NEW t \in Threads, NEW q \in Pointer, in_use' = [in_use EXCEPT ![q] = @ - 1],
         NEW v, v = call[t], call' = [call EXCEPT ![t] = v]
  PROVE  Dropped(q)
<1> SUFFICES ASSUME NEW p \in Pointer
             PROVE  Holders(p) \in Nat /\ Holders(p)' = Holders(p) - One(q, p)
  BY DEF Dropped
<1>1. One(q, p) \in {0, 1} /\ One(call[t].old, p) \in {0, 1} /\ One(call[t].new, p) \in {0, 1}
  BY OneIs
<1>2. PICK d : d = 0 - One(q, p)
  OBVIOUS
<1>4. in_use'[p] = in_use[p] + d /\ d \in Int
  BY <1>1, <1>2 DEF TypeOK, One
<1>5. /\ Holders(p) \in Nat /\ Holders(p)' \in Int
      /\ Holders(p)' + One(call[t].old, p) + One(call[t].new, p)
           = Holders(p) + One(v.old, p) + One(v.new, p) + d
  BY <1>4, HoldersMoved
<1> QED BY <1>1, <1>2, <1>5

\* A realloc that ends hands over the new block and holds the old one no longer.
LEMMA ReleaseCounts ==
  ASSUME TypeOK, CallsInOrder, NEW t \in Threads, ReallocRelease(t)
  PROVE  Dropped(call[t].old)
<1> SUFFICES ASSUME NEW p \in Pointer
             PROVE  Holders(p) \in Nat /\ Holders(p)' = Holders(p) - One(call[t].old, p)
  BY DEF Dropped
<1>1. call[t].old \in Pointer /\ call[t].new \in Pointer
  BY DEF CallsInOrder, ReallocRelease
<1>2. /\ One(NoPointer, p) = 0 /\ One(call[t].old, p) \in {0, 1} /\ One(call[t].new, p) \in {0, 1}
  BY OneIs, NoPointerIsNone DEF One
<1>3. PICK v, d : v = Idle /\ d = One(call[t].new, p)
  OBVIOUS
<1>4. v.old = NoPointer /\ v.new = NoPointer
  BY <1>3, IdleIs DEF ReallocRelease
<1>c. call' = [call EXCEPT ![t] = v]
  BY <1>3, IdleIs DEF ReallocRelease
<1>5. in_use'[p] = in_use[p] + d /\ d \in Int
  BY <1>1, <1>2, <1>3 DEF ReallocRelease, TypeOK, One
<1>6. /\ Holders(p) \in Nat /\ Holders(p)' \in Int
      /\ Holders(p)' + One(call[t].old, p) + One(call[t].new, p)
           = Holders(p) + One(v.old, p) + One(v.new, p) + d
  BY <1>c, <1>5, HoldersMoved
<1> QED BY <1>2, <1>3, <1>4, <1>6

-----------------------------------------------------------------------------
(* What a step does to the pointers held.                                  *)

\* Two pointers held in one chunk of small blocks differ in their blocks.
LEMMA BlocksApart ==
  ASSUME TypeOK, ChunksInOrder, NEW p \in Pointer, NEW q \in Pointer, Block(p), Block(q),
         p.chunk = q.chunk, chunks[p.chunk].large = 0, p # q
  PROVE  BitOf(p) # BitOf(q)
<1> DEFINE c == chunks[p.chunk].class
<1>1. c \in Classes
  BY ChunkAt, ChunkKinds DEF Block
<1>2. PICK i \in Blocks(c) : p.offset = i * class_to_size(c)
  BY DEF Block
<1>3. PICK j \in Blocks(c) : q.offset = j * class_to_size(c)
  BY DEF Block
<1>4. p.offset # q.offset
  BY DEF Pointer
<1>5. BitOf(p) = i /\ BitOf(q) = j
  <2>1. BitOf(p) = i
    BY <1>1, <1>2, BlockOffset, Zenon DEF BitOf
  <2>2. BitOf(q) = j
    BY <1>1, <1>3, BlockOffset, Zenon DEF BitOf
  <2> QED BY <2>1, <2>2
<1> QED BY <1>2, <1>3, <1>4, <1>5

\* The chunks of a step that makes none: one of them may have changed inside.
Changed(n, u) ==
  /\ chunks' = [chunks EXCEPT ![n] = u] /\ num_chunks' = num_chunks
  /\ u \in AnyChunk /\ u.class = chunks[n].class /\ u.large = chunks[n].large

\* A chunk that was changed is in order, keeps its class and all its blocks.
LEMMA ChunksChanged ==
  ASSUME TypeOK, ChunksInOrder, NEW n \in 1 .. num_chunks, NEW u, Changed(n, u)
  PROVE  /\ ChunksInOrder'
         /\ \A m \in 1 .. num_chunks :
              /\ chunks'[m] = IF m = n THEN u ELSE chunks[m]
              /\ chunks'[m].class = chunks[m].class /\ chunks'[m].large = chunks[m].large
         /\ \A p \in Pointer : Block(p) => Block(p)'
<1>1. /\ chunks \in Seq(AnyChunk) /\ Len(chunks) = num_chunks /\ num_chunks \in Nat
      /\ chunks' = [chunks EXCEPT ![n] = u] /\ num_chunks' = num_chunks
      /\ u \in AnyChunk /\ u.class = chunks[n].class /\ u.large = chunks[n].large
  BY DEF ChunksInOrder, Changed, TypeOK
<1>2. chunks' \in Seq(AnyChunk) /\ Len(chunks') = Len(chunks)
  BY <1>1, ExceptSeq
<1>3. \A m \in 1 .. num_chunks :
        /\ chunks'[m] = IF m = n THEN u ELSE chunks[m]
        /\ chunks'[m].class = chunks[m].class /\ chunks'[m].large = chunks[m].large
  BY <1>1
<1>4. ASSUME NEW p \in Pointer, Block(p) PROVE Block(p)'
  <2>1. /\ p.chunk \in 1 .. num_chunks'
        /\ chunks'[p.chunk].class = chunks[p.chunk].class
        /\ chunks'[p.chunk].large = chunks[p.chunk].large
    BY <1>1, <1>3, <1>4 DEF Block
  <2> QED BY <1>4, <2>1, Zenon DEF Block
<1> QED BY <1>1, <1>2, <1>3, <1>4 DEF ChunksInOrder

\* A pointer that is held has its block, its one holder and its bit.
LEMMA SitedFacts ==
  ASSUME Sited, NEW p \in Pointer, Holders(p) > 0
  PROVE  /\ Block(p)
         /\ ~chunks[p.chunk].overlaid =>
              /\ Holders(p) = 1
              /\ chunks[p.chunk].large = 0 => BitOf(p) \in BitsSet(chunks[p.chunk])
  BY DEF Sited

\* A step that changes neither chunks nor holders.
LEMMA SitedSame ==
  ASSUME TypeOK, ChunksInOrder, Sited, Unmoved, UNCHANGED <<chunks, num_chunks>>
  PROVE  Sited' /\ ChunksInOrder'
<1>1. ASSUME NEW p \in Pointer, Holders(p)' > 0
      PROVE  /\ Block(p)'
             /\ ~chunks'[p.chunk].overlaid =>
                  /\ Holders(p)' = 1
                  /\ chunks'[p.chunk].large = 0 => BitOf(p)' \in BitsSet(chunks'[p.chunk])
  <2>1. Holders(p)' = Holders(p)
    BY DEF Unmoved
  <2>2. Block(p)' = Block(p) /\ BitOf(p)' = BitOf(p)
    BY DEF Block, BitOf
  <2> QED BY <1>1, <2>1, <2>2, SitedFacts
<1> QED BY <1>1 DEF Sited, ChunksInOrder

\* A block is taken from chunk n.
LEMMA SitedTaken ==
  ASSUME TypeOK, ChunksInOrder, Sited, NEW n \in 1 .. num_chunks, NEW r, NEW c \in Classes,
         chunks[n].class = c, TookOne(chunks[n], r, c),
         chunks' = [chunks EXCEPT ![n] = r.chunk], num_chunks' = num_chunks,
         IF r.offset = -1 THEN Unmoved ELSE Gained(At(n, r.offset))
  PROVE  Sited' /\ Changed(n, r.chunk)
<1> DEFINE ch == chunks[n]
           u == r.chunk
<1>1. ch \in CountedChunk(c) /\ ch.large = 0
  BY ChunkAt, ChunkKinds
<1>2. u \in CountedChunk(c) /\ u.class = c /\ u.large = 0 /\ u \in AnyChunk
  BY ChunkParts, CountedIsAny DEF TookOne
<1>3. Changed(n, u)
  BY <1>1, <1>2 DEF Changed
<1>4. /\ \A m \in 1 .. num_chunks :
           /\ chunks'[m] = IF m = n THEN u ELSE chunks[m]
           /\ chunks'[m].class = chunks[m].class /\ chunks'[m].large = chunks[m].large
      /\ \A p \in Pointer : Block(p) => Block(p)'
  BY <1>3, ChunksChanged
<1>5. /\ ch.overlaid => u.overlaid
      /\ ~u.overlaid => BitsSet(ch) \subseteq BitsSet(u)
  BY DEF TookOne
<1> HIDE DEF ch, u
\* Those that were held before are still where they were.
<1>6. ASSUME NEW p \in Pointer, Holders(p) > 0
      PROVE  /\ Block(p)' /\ p.chunk \in 1 .. num_chunks
             /\ ~chunks'[p.chunk].overlaid =>
                  /\ Holders(p) = 1
                  /\ chunks'[p.chunk].large = 0 => BitOf(p)' \in BitsSet(chunks'[p.chunk])
  <2>1. Block(p) /\ p.chunk \in 1 .. num_chunks
    BY <1>6, SitedFacts DEF Block
  <2>2. BitOf(p)' = BitOf(p)
    BY <1>4, <2>1 DEF BitOf
  <2>3. CASE p.chunk = n
    <3>1. chunks'[p.chunk] = u /\ chunks[p.chunk] = ch
      BY <1>4, <2>1, <2>3 DEF ch
    <3> QED BY <1>1, <1>4, <1>5, <1>6, <2>1, <2>2, <3>1, SitedFacts
  <2>4. CASE p.chunk # n
    <3>1. chunks'[p.chunk] = chunks[p.chunk]
      BY <1>4, <2>1, <2>4
    <3> QED BY <1>4, <1>6, <2>1, <2>2, <3>1, SitedFacts
  <2> QED BY <2>3, <2>4
<1>7. CASE r.offset = -1
  <2>1. \A p \in Pointer : Holders(p)' = Holders(p)
    BY <1>7 DEF Unmoved
  <2> QED BY <1>3, <1>6, <2>1, Zenon DEF Sited, u
<1>8. CASE r.offset # -1
  <2>1. PICK i \in Blocks(c) :
          /\ r.offset = i * class_to_size(c)
          /\ ~u.overlaid => i \notin BitsSet(ch) /\ BitsSet(u) = BitsSet(ch) \union {i}
    BY <1>8 DEF TookOne, u, ch
  <2> DEFINE q == At(n, r.offset)
  <2>2. Gained(q)
    BY <1>8
  <2>3. q.chunk = n /\ q.offset = i * class_to_size(c)
    BY <2>1 DEF At
  <2>4. q.offset \in 0 .. RunSize - 1 /\ q.offset \div class_to_size(c) = i
    BY <2>1, <2>3, BlockOffset, Zenon
  <2>5. q \in Pointer
    <3>1. n \in 1 .. MaxChunks
      BY ArenaAssumption DEF TypeOK
    <3>2. q = [chunk |-> n, offset |-> r.offset] /\ r.offset \in 0 .. RunSize - 1
      BY <2>3, <2>4 DEF At
    <3>3. \A o \in 0 .. RunSize - 1 : [chunk |-> n, offset |-> o] \in Pointer
      BY <3>1 DEF Pointer
    <3> QED BY <3>2, <3>3, Zenon
  <2> HIDE DEF q
  <2>6. Block(q)' /\ chunks'[n] = u /\ Block(q) /\ BitOf(q) = i /\ BitOf(q)' = i
    <3>1. n \in 1 .. num_chunks' /\ chunks'[n] = u /\ u.class = c /\ ch.class = c
      BY <1>2, <1>4 DEF u, ch
    <3> QED BY <2>1, <2>3, <2>4, <3>1 DEF Block, BitOf, ch
  <2>7. ~u.overlaid => ~(Holders(q) > 0)
    <3> SUFFICES ASSUME ~u.overlaid, Holders(q) > 0 PROVE FALSE
      OBVIOUS
    <3>1. BitOf(q) \in BitsSet(ch)
      BY <1>1, <1>5, <2>3, <2>5, SitedFacts DEF ch
    <3> QED BY <2>1, <2>6, <3>1
  <2>8. ASSUME NEW p \in Pointer, Holders(p)' > 0
        PROVE  /\ Block(p)'
               /\ ~chunks'[p.chunk].overlaid =>
                    /\ Holders(p)' = 1
                    /\ chunks'[p.chunk].large = 0 => BitOf(p)' \in BitsSet(chunks'[p.chunk])
    <3>1. CASE p = q
      <4>1. Holders(q) \in Nat /\ Holders(q)' = Holders(q) + 1
        BY <2>2, <2>5 DEF Gained, One
      <4>2. ~u.overlaid => Holders(q)' = 1 /\ i \in BitsSet(u)
        BY <2>1, <2>7, <4>1
      <4> QED BY <2>3, <2>6, <3>1, <4>2
    <3>2. CASE p # q
      <4>1. Holders(p)' = Holders(p)
        BY <2>2, <3>2 DEF Gained, One
      <4> QED BY <1>6, <2>8, <4>1
    <3> QED BY <3>1, <3>2
  <2> QED BY <1>3, <2>8 DEF Sited, u
<1> QED BY <1>7, <1>8

\* What arena_free does to the chunk of a block that is held.
LEMMA ChunkFreed ==
  ASSUME TypeOK, ChunksInOrder, NEW q \in Pointer, Block(q), ArenaFree(q), num_chunks' = num_chunks
  PROVE  \E u : /\ Changed(q.chunk, u) /\ u.overlaid = chunks[q.chunk].overlaid
                /\ ~u.overlaid /\ u.large = 0 =>
                     BitsSet(chunks[q.chunk]) \ {BitOf(q)} \subseteq BitsSet(u)
                /\ u.large = 0 => Bits(u) >= Bits(chunks[q.chunk]) - 1
<1> DEFINE n == q.chunk
<1>1. PICK ch : ch = chunks[n]
  OBVIOUS
<1>2. ch \in AnyChunk /\ n \in 1 .. num_chunks
  BY <1>1, ChunkAt DEF Block
<1>3. chunks \in Seq(AnyChunk)
  BY DEF ChunksInOrder
<1>4. CASE ch.class \notin Classes
  <2>0. ch \in LargeChunk
    BY <1>2, <1>4, ChunkKinds, Zenon
  <2>1. ch.large > 0 /\ ch.large # 0
    BY <2>0, ArenaAssumption DEF LargeChunk
  <2>2. chunks' = chunks
    BY <1>1, <2>1, Zenon DEF ArenaFree
  <2>3. chunks' = [chunks EXCEPT ![n] = ch]
    BY <1>1, <1>2, <1>3, <2>2 DEF ChunksInOrder
  <2>4. Changed(n, ch)
    BY <1>1, <1>2, <2>3, Zenon DEF Changed
  <2> QED BY <1>1, <2>1, <2>4, Zenon
<1>5. CASE ch.class \in Classes
  <2>1. PICK c \in Classes : c = ch.class
    BY <1>5
  <2>0. ch \in CountedChunk(c) /\ ch.large = 0
    BY <1>2, <2>1, ChunkKinds, Zenon
  <2>2. ch \in CountedChunk(c) /\ ch.large = 0 /\ ~(ch.large > 0)
    BY <2>0
  <2>3. PICK i \in Blocks(c) : q.offset = i * class_to_size(c)
    BY <1>1, <2>1, <2>2 DEF Block
  <2>4. PICK g : g = Guess(q.offset)
    OBVIOUS
  <2>5. g \in Classes
    BY <2>3, <2>4, GuessedClass, Zenon
  <2>6. PICK u : u = FreeSmall(ch, q.offset, g)
    OBVIOUS
  <2>7. q.offset \in 0 .. RunSize - 1
    BY DEF Pointer
  <2>8. /\ u \in CountedChunk(c) /\ u.overlaid = ch.overlaid
        /\ ~ch.overlaid => BitsSet(ch) \ {q.offset \div class_to_size(c)} \subseteq BitsSet(u)
        /\ Bits(u) >= Bits(ch) - 1
    BY <2>2, <2>5, <2>6, <2>7, SmallFreed
  <2>9. chunks' = [chunks EXCEPT ![n] = u]
    BY <1>1, <2>2, <2>4, <2>6, Zenon DEF ArenaFree
  <2>10. u \in AnyChunk /\ u.class = c /\ u.large = 0
    BY <2>8, ChunkParts, CountedIsAny
  <2>11. Changed(n, u)
    BY <1>1, <2>1, <2>2, <2>9, <2>10, Zenon DEF Changed
  <2>12. BitOf(q) = q.offset \div class_to_size(c)
    BY <1>1, <2>1, Zenon DEF BitOf
  <2> QED BY <1>1, <2>8, <2>11, <2>12, Zenon
<1> QED BY <1>4, <1>5

\* A block is given up by one of its holders.
LEMMA SitedFreed ==
  ASSUME TypeOK, ChunksInOrder, Sited, NEW q \in Pointer, Holders(q) > 0,
         ArenaFree(q), num_chunks' = num_chunks, Dropped(q)
  PROVE  Sited' /\ q.chunk \in 1 .. num_chunks /\ \E u : Changed(q.chunk, u)
<1> DEFINE n == q.chunk
<1>1. Block(q) /\ n \in 1 .. num_chunks
  BY SitedFacts DEF Block
<1>2. PICK u : /\ Changed(n, u) /\ u.overlaid = chunks[n].overlaid
               /\ ~u.overlaid /\ u.large = 0 => BitsSet(chunks[n]) \ {BitOf(q)} \subseteq BitsSet(u)
  BY <1>1, ChunkFreed
<1>3. /\ \A m \in 1 .. num_chunks :
           /\ chunks'[m] = IF m = n THEN u ELSE chunks[m]
           /\ chunks'[m].class = chunks[m].class /\ chunks'[m].large = chunks[m].large
      /\ \A p \in Pointer : Block(p) => Block(p)'
  BY <1>1, <1>2, ChunksChanged
<1>4. ASSUME NEW p \in Pointer, Holders(p)' > 0
      PROVE  /\ Block(p)'
             /\ ~chunks'[p.chunk].overlaid =>
                  /\ Holders(p)' = 1
                  /\ chunks'[p.chunk].large = 0 => BitOf(p)' \in BitsSet(chunks'[p.chunk])
  <2>1. Holders(p) \in Nat /\ Holders(p)' = Holders(p) - One(q, p) /\ One(q, p) \in {0, 1}
    BY OneIs DEF Dropped
  <2>2. Holders(p) > 0
    BY <1>4, <2>1
  <2>3. Block(p) /\ p.chunk \in 1 .. num_chunks /\ Block(p)'
    BY <1>3, <2>2, SitedFacts DEF Block
  <2>4. BitOf(p)' = BitOf(p)
    BY <1>3, <2>3 DEF BitOf
  <2>5. chunks'[p.chunk].overlaid = chunks[p.chunk].overlaid
    BY <1>2, <1>3, <2>3
  <2> SUFFICES ASSUME ~chunks[p.chunk].overlaid
               PROVE  /\ Holders(p)' = 1
                      /\ chunks'[p.chunk].large = 0 => BitOf(p) \in BitsSet(chunks'[p.chunk])
    BY <2>3, <2>4, <2>5, Zenon
  <2>6. /\ Holders(p) = 1
        /\ chunks[p.chunk].large = 0 => BitOf(p) \in BitsSet(chunks[p.chunk])
    BY <2>2, SitedFacts
  <2>7. p # q /\ Holders(p)' = 1
    BY <1>4, <2>1, <2>6 DEF One
  <2>8. CASE p.chunk # n
    BY <1>3, <2>3, <2>6, <2>7, <2>8
  <2>9. CASE p.chunk = n
    <3> SUFFICES ASSUME chunks'[p.chunk].large = 0 PROVE BitOf(p) \in BitsSet(chunks'[p.chunk])
      BY <2>7
    <3>1. chunks[p.chunk].large = 0 /\ chunks'[p.chunk] = u
      BY <1>3, <2>3, <2>9
    <3>2. BitOf(p) # BitOf(q)
      BY <1>1, <2>3, <2>7, <2>9, <3>1, BlocksApart
    <3> QED BY <1>2, <2>6, <2>9, <3>1, <3>2
  <2> QED BY <2>8, <2>9
<1> QED BY <1>1, <1>2, <1>4 DEF Sited

-----------------------------------------------------------------------------
(* New chunks.                                                             *)

\* A new chunk of small blocks is in order.
LEMMA NewSmall ==
  ASSUME NEW c \in Classes, NEW u, u = NewChunk(c, 0)
  PROVE  u \in AnyChunk /\ u.class = c /\ u.large = 0
<1>1. <<>> \in Seq(CountedRun(c)) /\ Len(<<>>) = 0
  OBVIOUS
<1>2. PICK free, full, over, n : free = <<>> /\ full = <<>> /\ over = FALSE /\ n = 0
  OBVIOUS
<1>3. /\ free \in Seq(CountedRun(c)) /\ full \in Seq(CountedRun(c)) /\ over \in BOOLEAN
      /\ n = Len(free) + Len(full) /\ n <= 1
  <2>1. free \in Seq(CountedRun(c)) /\ full \in Seq(CountedRun(c)) /\ over \in BOOLEAN
    BY <1>1, <1>2
  <2>2. Len(free) = 0 /\ Len(full) = 0
    BY <1>1, <1>2, Zenon
  <2>3. n = 0
    BY <1>2
  <2>4. n = Len(free) + Len(full) /\ n <= 1
    BY <2>2, <2>3
  <2> QED BY <2>1, <2>4
<1>4. u = [class |-> c, large |-> 0, runs_free |-> free, runs_full |-> full, num_runs |-> n, overlaid |-> over]
  BY <1>2, Zenon DEF NewChunk
<1>5. u \in CountedChunk(c)
  BY <1>3, <1>4, ChunkMade, Zenon
<1> QED BY <1>5, CountedIsAny, ChunkParts

\* So is one of a large block.
LEMMA NewLarge ==
  ASSUME NEW size \in Nat \ {0}, NEW u \in chunk_alloc_large(size)
  PROVE  u \in AnyChunk /\ u \in LargeChunk /\ u.class = LargeClass /\ u.large > 0
<1>1. PICK n : n = AlignUp(size, RunSize)
  OBVIOUS
<1>2. n \in Nat \ {0}
  BY <1>1, Rounded
<1>3. n <= ChunkSize - UsableOffset /\ u = NewChunk(LargeClass, n)
  <2>1. u \in IF n > ChunkSize - UsableOffset THEN {} ELSE {NewChunk(LargeClass, n)}
    BY <1>1, Zenon DEF chunk_alloc_large
  <2>2. ~(n > ChunkSize - UsableOffset) /\ u = NewChunk(LargeClass, n)
    BY <2>1
  <2> QED BY <1>2, <2>2, ArenaAssumption
<1>4. n \in 1 .. ChunkSize
  BY <1>2, <1>3, ArenaAssumption
<1>5. u \in LargeChunk /\ u.class = LargeClass /\ u.large = n
  BY <1>3, <1>4 DEF NewChunk, LargeChunk
<1> QED BY <1>4, <1>5 DEF AnyChunk

\* A chunk added at the end changes none of the others.
LEMMA ChunkAdded ==
  ASSUME TypeOK, ChunksInOrder, NEW u \in AnyChunk,
         chunks' = Append(chunks, u), num_chunks' = num_chunks + 1
  PROVE  /\ ChunksInOrder'
         /\ \A m \in 1 .. num_chunks : m \in 1 .. num_chunks' /\ chunks'[m] = chunks[m]
         /\ chunks'[num_chunks + 1] = u /\ num_chunks + 1 \in 1 .. num_chunks'
         /\ num_chunks + 1 \notin 1 .. num_chunks
         /\ 1 .. num_chunks' = (1 .. num_chunks) \union {num_chunks + 1}
         /\ \A p \in Pointer : Block(p) => Block(p)' /\ BitOf(p)' = BitOf(p)
<1>1. num_chunks \in Nat /\ Len(chunks) = num_chunks /\ chunks \in Seq(AnyChunk)
  BY DEF TypeOK, ChunksInOrder
<1>2. /\ chunks' \in Seq(AnyChunk) /\ Len(chunks') = num_chunks'
      /\ \A m \in 1 .. num_chunks : chunks'[m] = chunks[m]
      /\ chunks'[num_chunks + 1] = u
  BY <1>1, AppendProperties
<1>3. 1 .. num_chunks' = (1 .. num_chunks) \union {num_chunks + 1} /\ num_chunks + 1 \notin 1 .. num_chunks
  BY <1>1
<1>4. ASSUME NEW p \in Pointer, Block(p) PROVE Block(p)' /\ BitOf(p)' = BitOf(p)
  <2>1. p.chunk \in 1 .. num_chunks /\ p.chunk \in 1 .. num_chunks' /\ chunks'[p.chunk] = chunks[p.chunk]
    BY <1>2, <1>3, <1>4, Zenon DEF Block
  <2> QED BY <1>4, <2>1, Zenon DEF Block, BitOf
<1> QED BY <1>2, <1>3, <1>4, Zenon DEF ChunksInOrder

\* A new chunk is empty, or has one large block with one holder.
LEMMA SitedAdded ==
  ASSUME TypeOK, ChunksInOrder, Sited, NEW u \in AnyChunk,
         chunks' = Append(chunks, u), num_chunks' = num_chunks + 1,
         \/ Unmoved
         \/ u.large > 0 /\ num_chunks < MaxChunks /\ Gained(At(num_chunks + 1, 0))
  PROVE  Sited' /\ ChunksInOrder'
<1>1. /\ ChunksInOrder'
      /\ \A m \in 1 .. num_chunks : m \in 1 .. num_chunks' /\ chunks'[m] = chunks[m]
      /\ chunks'[num_chunks + 1] = u /\ num_chunks + 1 \in 1 .. num_chunks'
      /\ num_chunks + 1 \notin 1 .. num_chunks
      /\ \A p \in Pointer : Block(p) => Block(p)' /\ BitOf(p)' = BitOf(p)
  BY ChunkAdded
<1>2. ASSUME NEW p \in Pointer, Holders(p) > 0, Holders(p)' = Holders(p)
      PROVE  /\ Block(p)'
             /\ ~chunks'[p.chunk].overlaid =>
                  /\ Holders(p)' = 1
                  /\ chunks'[p.chunk].large = 0 => BitOf(p)' \in BitsSet(chunks'[p.chunk])
  <2>1. Block(p) /\ p.chunk \in 1 .. num_chunks
    BY <1>2, SitedFacts DEF Block
  <2>2. chunks'[p.chunk] = chunks[p.chunk] /\ Block(p)' /\ BitOf(p)' = BitOf(p)
    BY <1>1, <2>1
  <2> QED BY <1>2, <2>2, SitedFacts
<1>3. CASE Unmoved
  <2>1. \A p \in Pointer : Holders(p)' = Holders(p)
    BY <1>3 DEF Unmoved
  <2> QED BY <1>1, <1>2, <2>1, Zenon DEF Sited
<1>4. CASE u.large > 0 /\ num_chunks < MaxChunks /\ Gained(At(num_chunks + 1, 0))
  <2>1. PICK q : q = At(num_chunks + 1, 0)
    OBVIOUS
  <2>2. q.chunk = num_chunks + 1
    BY <2>1 DEF At
  <2>3. q \in Pointer
    <3>1. num_chunks + 1 \in 1 .. MaxChunks /\ 0 \in 0 .. RunSize - 1
      BY <1>4, ArenaAssumption DEF TypeOK
    <3> QED BY <2>1, <3>1 DEF At, Pointer
  <2>4. /\ Holders(q) \in Nat /\ Holders(q)' = Holders(q) + 1
        /\ \A p \in Pointer : p # q => Holders(p)' = Holders(p) + 0 /\ Holders(p) \in Nat
    BY <1>4, <2>1, <2>3 DEF Gained, One
  <2>5. ~(Holders(q) > 0)
    BY <1>1, <2>2, <2>3, SitedFacts DEF Block
  <2>6. Holders(q)' = 1
    BY <2>4, <2>5
  <2>7. chunks'[q.chunk].large # 0 /\ q.chunk \in 1 .. num_chunks'
    <3>1. u.large # 0
      BY <1>4
    <3> QED BY <1>1, <2>2, <3>1, Zenon
  <2>8. Block(q)'
    BY <2>7, Zenon DEF Block
  <2>9. ASSUME NEW p \in Pointer, Holders(p)' > 0
        PROVE  /\ Block(p)'
               /\ ~chunks'[p.chunk].overlaid =>
                    /\ Holders(p)' = 1
                    /\ chunks'[p.chunk].large = 0 => BitOf(p)' \in BitsSet(chunks'[p.chunk])
    <3>1. CASE p = q
      BY <2>6, <2>7, <2>8, <3>1, Zenon
    <3>2. CASE p # q
      <4>1. Holders(p)' = Holders(p) /\ Holders(p) > 0
        BY <2>4, <2>9, <3>2
      <4> QED BY <1>2, <4>1, Zenon
    <3> QED BY <3>1, <3>2
  <2> QED BY <1>1, <2>9, Zenon DEF Sited
<1> QED BY <1>3, <1>4

-----------------------------------------------------------------------------
(* The bits of a chunk and the holders of its blocks.                      *)

Here(n) == {p \in Pointer : p.chunk = n}
HeldBy == [p \in Pointer |-> Holders(p)]

\* The pointers into a chunk can be counted.
LEMMA HereFinite == \A n : IsFiniteSet(Here(n))
<1> SUFFICES ASSUME NEW n PROVE IsFiniteSet(Here(n))
  OBVIOUS
<1>1. PICK T : T = 0 .. RunSize - 1
  OBVIOUS
<1>2. IsFiniteSet(T)
  BY <1>1, ArenaAssumption, FS_Interval
<1>3. PICK f : f = [p \in Here(n) |-> p.offset]
  OBVIOUS
<1>4. f \in [Here(n) -> T]
  BY <1>1, <1>3 DEF Here, Pointer
<1>5. \A p, q \in Here(n) : f[p] = f[q] => p = q
  BY <1>3 DEF Here, Pointer
<1>6. f \in Injection(Here(n), T)
  BY <1>4, <1>5 DEF Injection, IsInjective
<1> QED BY <1>2, <1>6, FS_Injection

\* The holders of a chunk are a sum over its pointers.
LEMMA HoldersOfIs == \A n : HoldersOf(n) = SumFunctionOnSet(HeldBy, Here(n))
  BY DEF HoldersOf, HeldBy, Here

\* The terms of that sum are the holders of each pointer.
LEMMA HeldByIs == \A p \in Pointer : HeldBy[p] = Holders(p)
  BY DEF HeldBy

\* A chunk nothing is held of.
LEMMA NothingHeld ==
  ASSUME NEW n, \A p \in Pointer : p.chunk = n => Holders(p) = 0
  PROVE  HoldersOf(n) = 0
<1>1. \A p \in Here(n) : HeldBy[p] = 0
  BY HeldByIs DEF Here
<1>2. SumFunctionOnSet(HeldBy, Here(n)) = 0
  BY <1>1, HereFinite, SumZero
<1> QED BY <1>2, HoldersOfIs

\* A chunk whose pointers keep their holders.
LEMMA SameHolders ==
  ASSUME NEW n, \A p \in Pointer : p.chunk = n => Holders(p)' = Holders(p)
  PROVE  HoldersOf(n)' = HoldersOf(n)
<1>1. PICK f, h : f = HeldBy /\ h = HeldBy'
  OBVIOUS
<1>2. \A p \in Here(n) : f[p] = h[p]
  <2>1. \A p \in Pointer : HeldBy'[p] = Holders(p)'
    BY DEF HeldBy
  <2> QED BY <1>1, <2>1, HeldByIs DEF Here
<1>3. SumFunctionOnSet(f, Here(n)) = SumFunctionOnSet(h, Here(n))
  BY <1>2, HereFinite, SumAgrees
<1>4. HoldersOf(n)' = SumFunctionOnSet(HeldBy', Here(n))
  BY DEF HoldersOf, HeldBy, Here
<1> QED BY <1>1, <1>3, <1>4, HoldersOfIs, Zenon

\* A chunk one of whose pointers does not.
LEMMA OneHolderMoved ==
  ASSUME NEW q \in Pointer, NEW n, n = q.chunk,
         \A p \in Pointer : Holders(p) \in Nat /\ Holders(p)' \in Nat,
         \A p \in Pointer : p # q => Holders(p)' = Holders(p)
  PROVE  /\ HoldersOf(n) \in Nat /\ HoldersOf(n)' \in Nat
         /\ HoldersOf(n)' + Holders(q) = HoldersOf(n) + Holders(q)'
<1>1. PICK f, h : f = HeldBy /\ h = HeldBy'
  OBVIOUS
<1>2. PICK A : A = Here(n)
  OBVIOUS
<1>3. \A p \in Pointer : f[p] = Holders(p) /\ h[p] = Holders(p)'
  BY <1>1 DEF HeldBy
<1>4. q \in A /\ IsFiniteSet(A) /\ \A p \in A : p \in Pointer
  BY <1>2, HereFinite DEF Here
<1>5. /\ \A p \in A : f[p] \in Nat /\ h[p] \in Nat
      /\ \A p \in A : p # q => f[p] = h[p]
  BY <1>3, <1>4
<1>6. SumFunctionOnSet(h, A) + f[q] = SumFunctionOnSet(f, A) + h[q]
  BY <1>4, <1>5, SumChanged
<1>7. SumFunctionOnSet(f, A) \in Nat /\ SumFunctionOnSet(h, A) \in Nat
  BY <1>4, <1>5, SumTyped
<1>8. HoldersOf(n) = SumFunctionOnSet(f, A) /\ HoldersOf(n)' = SumFunctionOnSet(h, A)
  BY <1>1, <1>2 DEF HoldersOf, HeldBy, Here
<1> QED BY <1>3, <1>6, <1>7, <1>8, Zenon

\* A pointer that gains a holder gives its chunk one more.
LEMMA OneGained ==
  ASSUME NEW q \in Pointer, Gained(q)
  PROVE  /\ HoldersOf(q.chunk) \in Nat /\ HoldersOf(q.chunk)' = HoldersOf(q.chunk) + 1
         /\ \A n : n # q.chunk => HoldersOf(n)' = HoldersOf(n)
<1>1. \A p \in Pointer : Holders(p) \in Nat /\ Holders(p)' = Holders(p) + (IF q = p THEN 1 ELSE 0)
  BY DEF Gained, One
<1>2. PICK m : m = q.chunk
  OBVIOUS
<1>3. /\ \A p \in Pointer : Holders(p) \in Nat /\ Holders(p)' \in Nat
      /\ \A p \in Pointer : p # q => Holders(p)' = Holders(p)
      /\ Holders(q)' = Holders(q) + 1
  BY <1>1
<1>4. /\ HoldersOf(m) \in Nat /\ HoldersOf(m)' \in Nat
      /\ HoldersOf(m)' + Holders(q) = HoldersOf(m) + Holders(q)'
  BY <1>2, <1>3, OneHolderMoved
<1>5. HoldersOf(m)' = HoldersOf(m) + 1
  <2>1. PICK a, b, x, y : a = HoldersOf(m) /\ b = HoldersOf(m)' /\ x = Holders(q) /\ y = Holders(q)'
    OBVIOUS
  <2>2. a \in Nat /\ b \in Nat /\ x \in Nat /\ y = x + 1 /\ b + x = a + y
    BY <1>3, <1>4, <2>1
  <2> QED BY <2>1, <2>2
<1>6. ASSUME NEW n, n # m PROVE HoldersOf(n)' = HoldersOf(n)
  <2>1. \A p \in Pointer : p.chunk = n => Holders(p)' = Holders(p)
    BY <1>2, <1>3, <1>6
  <2> QED BY <2>1, SameHolders
<1> QED BY <1>2, <1>4, <1>5, <1>6, Zenon

\* A pointer that loses a holder gives its chunk one less.
LEMMA OneDropped ==
  ASSUME NEW q \in Pointer, Dropped(q), Holders(q) > 0
  PROVE  /\ HoldersOf(q.chunk) \in Nat /\ HoldersOf(q.chunk)' = HoldersOf(q.chunk) - 1
         /\ \A n : n # q.chunk => HoldersOf(n)' = HoldersOf(n)
<1>1. \A p \in Pointer : Holders(p) \in Nat /\ Holders(p)' = Holders(p) - (IF q = p THEN 1 ELSE 0)
  BY DEF Dropped, One
<1>2. PICK m : m = q.chunk
  OBVIOUS
<1>3. /\ \A p \in Pointer : Holders(p) \in Nat /\ Holders(p)' \in Nat
      /\ \A p \in Pointer : p # q => Holders(p)' = Holders(p)
      /\ Holders(q)' = Holders(q) - 1
  BY <1>1
<1>4. /\ HoldersOf(m) \in Nat /\ HoldersOf(m)' \in Nat
      /\ HoldersOf(m)' + Holders(q) = HoldersOf(m) + Holders(q)'
  BY <1>2, <1>3, OneHolderMoved
<1>5. HoldersOf(m)' = HoldersOf(m) - 1
  <2>1. PICK a, b, x, y : a = HoldersOf(m) /\ b = HoldersOf(m)' /\ x = Holders(q) /\ y = Holders(q)'
    OBVIOUS
  <2>2. a \in Nat /\ b \in Nat /\ x \in Nat /\ y = x - 1 /\ b + x = a + y
    BY <1>3, <1>4, <2>1
  <2> QED BY <2>1, <2>2
<1>6. ASSUME NEW n, n # m PROVE HoldersOf(n)' = HoldersOf(n)
  <2>1. \A p \in Pointer : p.chunk = n => Holders(p)' = Holders(p)
    BY <1>2, <1>3, <1>6
  <2> QED BY <2>1, SameHolders
<1> QED BY <1>2, <1>4, <1>5, <1>6, Zenon

\* The holders of a chunk are a number.
LEMMA HoldersOfTyped ==
  ASSUME \A p \in Pointer : Holders(p) \in Nat, NEW n
  PROVE  HoldersOf(n) \in Nat
<1>1. \A p \in Here(n) : HeldBy[p] \in Nat
  BY HeldByIs DEF Here
<1>2. SumFunctionOnSet(HeldBy, Here(n)) \in Nat
  BY <1>1, HereFinite, SumTyped
<1> QED BY <1>2, HoldersOfIs

\* The bits of a chunk of small blocks.
LEMMA SmallBits ==
  ASSUME NEW ch \in AnyChunk, ch.large = 0
  PROVE  Bits(ch) \in Nat
<1>1. PICK c : c = ch.class
  OBVIOUS
<1>2. c \in Classes /\ ch \in CountedChunk(c)
  BY <1>1, ChunkKinds, Zenon
<1> QED BY <1>2, BitsTyped

\* What is held stays in place if neither holders nor chunks change.
LEMMA PlacedSame ==
  ASSUME TypeOK, ChunksInOrder, Placed, Unmoved, UNCHANGED <<chunks, num_chunks>>
  PROVE  Placed' /\ ChunksInOrder'
<1>1. Sited' /\ ChunksInOrder'
  BY SitedSame DEF Placed
<1>2. ASSUME NEW n PROVE HoldersOf(n)' = HoldersOf(n)
  <2>1. \A p \in Pointer : p.chunk = n => Holders(p)' = Holders(p)
    BY DEF Unmoved
  <2> QED BY <2>1, SameHolders
<1>3. Covered'
  BY <1>2, Zenon DEF Placed, Covered
<1> QED BY <1>1, <1>3 DEF Placed

\* It stays in place when a block of a chunk is taken.
LEMMA PlacedTaken ==
  ASSUME TypeOK, ChunksInOrder, Placed, NEW n \in 1 .. num_chunks, NEW r, NEW c \in Classes,
         chunks[n].class = c, TookOne(chunks[n], r, c),
         chunks' = [chunks EXCEPT ![n] = r.chunk], num_chunks' = num_chunks,
         IF r.offset = -1 THEN Unmoved ELSE Gained(At(n, r.offset))
  PROVE  Placed' /\ Changed(n, r.chunk)
<1>1. Sited' /\ Changed(n, r.chunk)
  BY SitedTaken DEF Placed
<1>2. PICK u, ch, o : u = r.chunk /\ ch = chunks[n] /\ o = r.offset
  OBVIOUS
<1>3. /\ \A m \in 1 .. num_chunks : chunks'[m] = IF m = n THEN u ELSE chunks[m]
      /\ \A m \in 1 .. num_chunks : chunks'[m].large = chunks[m].large
  BY <1>1, <1>2, ChunksChanged
<1>4. ch \in CountedChunk(c) /\ ch.large = 0 /\ u \in CountedChunk(c)
  BY <1>2, ChunkAt, ChunkKinds DEF TookOne
<1>5. /\ Bits(ch) \in Nat /\ Bits(u) \in Nat /\ Bits(u) >= Bits(ch) + (IF o = -1 THEN 0 ELSE 1)
      /\ o # -1 => o \in 0 .. RunSize - 1
  <2>1. Bits(u) >= Bits(ch) + (IF o = -1 THEN 0 ELSE 1)
    BY <1>2, Zenon DEF TookOne
  <2>2. o # -1 => \E i \in Blocks(c) : o = i * class_to_size(c)
    BY <1>2 DEF TookOne
  <2>3. o # -1 => o \in 0 .. RunSize - 1
    BY <2>2, BlockOffset, Zenon
  <2> QED BY <1>4, <2>1, <2>3, BitsTyped
<1>6. \A m : HoldersOf(m)' = HoldersOf(m) + (IF m = n /\ o # -1 THEN 1 ELSE 0) /\ HoldersOf(m) \in Nat
  <2> SUFFICES ASSUME NEW m
               PROVE  HoldersOf(m)' = HoldersOf(m) + (IF m = n /\ o # -1 THEN 1 ELSE 0) /\ HoldersOf(m) \in Nat
    OBVIOUS
  <2>1. HoldersOf(m) \in Nat
    <3>1. \A p \in Pointer : Holders(p) \in Nat
      BY <1>2 DEF Unmoved, Gained
    <3> QED BY <3>1, HoldersOfTyped
  <2>2. CASE o = -1
    <3>1. \A p \in Pointer : p.chunk = m => Holders(p)' = Holders(p)
      BY <1>2, <2>2 DEF Unmoved
    <3>2. HoldersOf(m)' = HoldersOf(m)
      BY <3>1, SameHolders
    <3> QED BY <2>1, <2>2, <3>2
  <2>3. CASE o # -1
    <3>1. PICK q : q = At(n, o)
      OBVIOUS
    <3>2. q \in Pointer /\ q.chunk = n
      <4>1. n \in 1 .. MaxChunks
        BY ArenaAssumption DEF TypeOK
      <4> QED BY <1>5, <2>3, <3>1, <4>1 DEF At, Pointer
    <3>3. Gained(q)
      BY <1>2, <2>3, <3>1
    <3>4. /\ HoldersOf(q.chunk)' = HoldersOf(q.chunk) + 1
          /\ \A k : k # q.chunk => HoldersOf(k)' = HoldersOf(k)
      BY <3>2, <3>3, OneGained
    <3> QED BY <2>1, <2>3, <3>2, <3>4
  <2> QED BY <2>2, <2>3
<1>7. ASSUME NEW m \in 1 .. num_chunks, chunks'[m].large = 0
      PROVE  HoldersOf(m)' <= Bits(chunks'[m])
  <2>1. chunks[m].large = 0 /\ HoldersOf(m) <= Bits(chunks[m]) /\ Bits(chunks[m]) \in Nat
    <3>1. chunks[m].large = 0
      BY <1>3, <1>7
    <3> QED BY <3>1, ChunkAt, SmallBits DEF Placed, Covered
  <2>2. CASE m = n
    <3>1. chunks'[m] = u /\ chunks[m] = ch
      BY <1>2, <1>3, <2>2
    <3>2. PICK a, b, x, y : a = HoldersOf(m) /\ b = HoldersOf(m)' /\ x = Bits(ch) /\ y = Bits(u)
      OBVIOUS
    <3>3. a \in Nat /\ b = a + (IF o # -1 THEN 1 ELSE 0) /\ x \in Nat /\ y \in Nat
          /\ y >= x + (IF o = -1 THEN 0 ELSE 1) /\ a <= x
      BY <1>5, <1>6, <2>1, <2>2, <3>1, <3>2
    <3>4. b <= y
      BY <3>3
    <3> QED BY <3>1, <3>2, <3>4
  <2>3. CASE m # n
    <3>1. chunks'[m] = chunks[m] /\ HoldersOf(m)' = HoldersOf(m)
      BY <1>3, <1>6, <2>3
    <3> QED BY <2>1, <3>1
  <2> QED BY <2>2, <2>3
<1>8. Covered'
  BY <1>7 DEF Covered
<1> QED BY <1>1, <1>8 DEF Placed

\* It does when one is freed, whether arena_free finds its bit or not.
LEMMA PlacedFreed ==
  ASSUME TypeOK, ChunksInOrder, Placed, NEW q \in Pointer, Holders(q) > 0,
         ArenaFree(q), num_chunks' = num_chunks, Dropped(q)
  PROVE  Placed' /\ q.chunk \in 1 .. num_chunks /\ \E u : Changed(q.chunk, u)
<1>1. Sited' /\ q.chunk \in 1 .. num_chunks
  BY SitedFreed DEF Placed
<1>2. PICK n : n = q.chunk
  OBVIOUS
<1>3. Block(q)
  BY SitedFacts DEF Placed
<1>4. PICK u : Changed(n, u) /\ (u.large = 0 => Bits(u) >= Bits(chunks[n]) - 1)
  BY <1>2, <1>3, ChunkFreed
<1>5. /\ \A m \in 1 .. num_chunks : chunks'[m] = IF m = n THEN u ELSE chunks[m]
      /\ \A m \in 1 .. num_chunks : chunks'[m].large = chunks[m].large
  BY <1>1, <1>2, <1>4, ChunksChanged
<1>6. /\ HoldersOf(n) \in Nat /\ HoldersOf(n)' = HoldersOf(n) - 1
      /\ \A m : m # n => HoldersOf(m)' = HoldersOf(m)
  BY <1>2, OneDropped
<1>7. ASSUME NEW m \in 1 .. num_chunks, chunks'[m].large = 0
      PROVE  HoldersOf(m)' <= Bits(chunks'[m])
  <2>1. chunks[m].large = 0 /\ HoldersOf(m) <= Bits(chunks[m]) /\ Bits(chunks[m]) \in Nat
    <3>1. chunks[m].large = 0
      BY <1>5, <1>7
    <3> QED BY <3>1, ChunkAt, SmallBits DEF Placed, Covered
  <2>2. CASE m = n
    <3>1. chunks'[m] = u
      BY <1>5, <2>2
    <3>2. Bits(u) >= Bits(chunks[n]) - 1 /\ Bits(u) \in Nat
      <4>1. u \in AnyChunk
        BY <1>4 DEF Changed
      <4> QED BY <1>4, <1>7, <3>1, <4>1, SmallBits
    <3>3. PICK a, b, x, y : a = HoldersOf(m) /\ b = HoldersOf(m)' /\ x = Bits(chunks[m]) /\ y = Bits(u)
      OBVIOUS
    <3>4. a \in Nat /\ b = a - 1 /\ x \in Nat /\ y \in Nat /\ y >= x - 1 /\ a <= x
      BY <1>6, <2>1, <2>2, <3>2, <3>3
    <3>5. b <= y
      BY <3>4
    <3> QED BY <3>1, <3>3, <3>5
  <2>3. CASE m # n
    <3>1. chunks'[m] = chunks[m] /\ HoldersOf(m)' = HoldersOf(m)
      BY <1>5, <1>6, <2>3
    <3> QED BY <2>1, <3>1
  <2> QED BY <2>2, <2>3
<1>8. Covered'
  BY <1>7 DEF Covered
<1> QED BY <1>1, <1>2, <1>4, <1>8 DEF Placed

\* It does when a chunk is made, for a large block or for small ones.
LEMMA PlacedAdded ==
  ASSUME TypeOK, ChunksInOrder, Placed, NEW u \in AnyChunk,
         chunks' = Append(chunks, u), num_chunks' = num_chunks + 1,
         \/ Unmoved
         \/ u.large > 0 /\ num_chunks < MaxChunks /\ Gained(At(num_chunks + 1, 0))
  PROVE  Placed' /\ ChunksInOrder'
<1>1. Sited' /\ ChunksInOrder'
  BY SitedAdded DEF Placed
<1>2. PICK n : n = num_chunks + 1
  OBVIOUS
<1>3. /\ \A m \in 1 .. num_chunks : chunks'[m] = chunks[m] /\ m # n
      /\ chunks'[n] = u
      /\ 1 .. num_chunks' = (1 .. num_chunks) \union {n}
  BY <1>2, ChunkAdded
<1>4. \A m : m # n => HoldersOf(m)' = HoldersOf(m)
  <2>1. CASE Unmoved
    <3>1. \A p \in Pointer : Holders(p)' = Holders(p)
      BY <2>1 DEF Unmoved
    <3> QED BY <3>1, SameHolders
  <2>2. CASE num_chunks < MaxChunks /\ Gained(At(n, 0))
    <3>1. PICK q : q = At(n, 0)
      OBVIOUS
    <3>2. q \in Pointer /\ q.chunk = n
      <4>1. n \in 1 .. MaxChunks /\ 0 \in 0 .. RunSize - 1
        BY <1>2, <2>2, ArenaAssumption DEF TypeOK
      <4> QED BY <3>1, <4>1 DEF At, Pointer
    <3> QED BY <2>2, <3>1, <3>2, OneGained
  <2> QED BY <1>2, <2>1, <2>2, Zenon
<1>5. u.large = 0 => HoldersOf(n)' = 0 /\ Bits(u) \in Nat
  <2> SUFFICES ASSUME u.large = 0 PROVE HoldersOf(n)' = 0 /\ Bits(u) \in Nat
    OBVIOUS
  <2>1. Unmoved
    <3>1. ~(u.large > 0)
      OBVIOUS
    <3> QED BY <3>1
  <2>2. ASSUME NEW p \in Pointer, p.chunk = n PROVE Holders(p) = 0
    <3>1. ~Block(p)
      BY <1>3, <2>2 DEF Block
    <3>2. ~(Holders(p) > 0)
      BY <3>1, SitedFacts DEF Placed
    <3>3. Holders(p) \in Nat
      BY <2>1 DEF Unmoved
    <3> QED BY <3>2, <3>3
  <2>3. HoldersOf(n) = 0
    BY <2>2, NothingHeld
  <2>4. \A p \in Pointer : p.chunk = n => Holders(p)' = Holders(p)
    BY <2>1 DEF Unmoved
  <2>5. HoldersOf(n)' = HoldersOf(n)
    BY <2>4, SameHolders
  <2> QED BY <2>3, <2>5, SmallBits
<1>6. ASSUME NEW m \in 1 .. num_chunks', chunks'[m].large = 0
      PROVE  HoldersOf(m)' <= Bits(chunks'[m])
  <2>1. CASE m = n
    <3>1. HoldersOf(n)' <= Bits(u)
      <4>1. chunks'[n].large = 0
        BY <1>6, <2>1, Zenon
      <4> QED BY <1>3, <1>5, <4>1
    <3> QED BY <1>3, <2>1, <3>1, Zenon
  <2>2. CASE m # n
    <3>1. m \in 1 .. num_chunks
      BY <1>3, <2>2
    <3>2. chunks'[m] = chunks[m] /\ HoldersOf(m)' = HoldersOf(m)
      BY <1>3, <1>4, <2>2, <3>1
    <3>3. HoldersOf(m) <= Bits(chunks[m])
      BY <1>6, <3>1, <3>2 DEF Placed, Covered
    <3> QED BY <3>2, <3>3
  <2> QED BY <2>1, <2>2
<1>7. Covered'
  BY <1>6 DEF Covered
<1> QED BY <1>1, <1>7 DEF Placed

-----------------------------------------------------------------------------
(* What a step does to the calls.                                          *)

Calls == [size : Requests \union {0}, chunk : 0 .. MaxChunks,
          old : Pointer \union {NoPointer}, new : Pointer \union {NoPointer}]

\* The calls and the chunks, as far as the rest of the invariant sees them.
Moves(t, x, v) == x \in Locations /\ v \in Calls /\ pc' = [pc EXCEPT ![t] = x] /\ call' = [call EXCEPT ![t] = v]

ClassesKept == \A m \in 1 .. num_chunks : m \in 1 .. num_chunks' /\ chunks'[m].class = chunks[m].class

InOrder(x, v) ==
  /\ x = "idle" => v = Idle
  /\ x \in {"find", "grow", "use"} => v.size \in Requests /\ v.new = NoPointer
  /\ x \in {"grow", "use"} => size_to_class(v.size) \in Classes
  /\ x = "release" => v.old \in Pointer /\ v.new \in Pointer

\* The calls stay in order when one of them moves.
LEMMA CallsMoved ==
  ASSUME TypeOK, CallsInOrder, NEW t \in Threads, NEW x, NEW v, Moves(t, x, v), ClassesKept, InOrder(x, v),
         x = "use" => v.chunk \in 1 .. num_chunks' /\ chunks'[v.chunk].class = size_to_class(v.size)
  PROVE  CallsInOrder'
<1> SUFFICES ASSUME NEW s \in Threads
             PROVE  /\ InOrder(pc'[s], call'[s])
                    /\ pc'[s] = "use" =>
                         /\ call'[s].chunk \in 1 .. num_chunks'
                         /\ chunks'[call'[s].chunk].class = size_to_class(call'[s].size)
  BY Zenon DEF CallsInOrder, InOrder
<1>1. CASE s = t
  <2>1. pc'[s] = x /\ call'[s] = v
    BY <1>1 DEF Moves, TypeOK
  <2> QED BY <2>1, Zenon
<1>2. CASE s # t
  <2>1. pc'[s] = pc[s] /\ call'[s] = call[s]
    BY <1>2 DEF Moves, TypeOK
  <2>2. /\ InOrder(pc[s], call[s])
        /\ pc[s] = "use" =>
             /\ call[s].chunk \in 1 .. num_chunks
             /\ chunks[call[s].chunk].class = size_to_class(call[s].size)
    BY Zenon DEF CallsInOrder, InOrder
  <2>3. pc[s] = "use" =>
             /\ call[s].chunk \in 1 .. num_chunks'
             /\ chunks'[call[s].chunk].class = size_to_class(call[s].size)
    BY <2>2, Zenon DEF ClassesKept
  <2> QED BY <2>1, <2>2, <2>3, Zenon
<1> QED BY <1>1, <1>2

\* The types stay when one call moves.
LEMMA StepTyped ==
  ASSUME TypeOK, ChunksInOrder', NEW t \in Threads, NEW x, NEW v, Moves(t, x, v),
         num_chunks' \in 0 .. MaxChunks, links' \in [next : [Nodes -> Nodes], prev : [Nodes -> Nodes]],
         in_use' \in [Pointer -> Nat]
  PROVE  TypeOK'
<1>1. pc' \in [Threads -> Locations] /\ call' \in [Threads -> Calls]
  BY DEF TypeOK, Moves, Calls
<1>2. \A n \in 1 .. Len(chunks') : chunks'[n] \in LargeChunk \/ \E c \in Classes : chunks'[n] \in SmallChunk(c)
  <2>1. (ChunksInOrder => \A n \in 1 .. Len(chunks) :
                     chunks[n] \in LargeChunk \/ \E c \in Classes : chunks[n] \in SmallChunk(c))'
    BY ChunksTyped, PTL
  <2> QED BY <2>1, Zenon
<1> QED BY <1>1, <1>2, Zenon DEF TypeOK, Calls

\* One thread more or less is about to make a chunk.
LEMMA GrowingMoved ==
  ASSUME TypeOK, NEW t \in Threads, NEW x, NEW v, Moves(t, x, v), NEW c \in Classes
  PROVE  /\ Cardinality(Growing(c)) \in Nat /\ Cardinality(Growing(c)') \in Nat
         /\ Cardinality(Growing(c)') + (IF pc[t] = "grow" /\ size_to_class(call[t].size) = c THEN 1 ELSE 0)
              = Cardinality(Growing(c)) + (IF x = "grow" /\ size_to_class(v.size) = c THEN 1 ELSE 0)
         /\ Cardinality(Growing(c)') <= Cardinality(Threads)
<1> DEFINE A == Growing(c)
           B == Growing(c)'
<1>1. /\ \A s \in Threads : s # t => pc'[s] = pc[s] /\ call'[s] = call[s]
      /\ pc'[t] = x /\ call'[t] = v
  BY DEF Moves, TypeOK
<1>2. A \in SUBSET Threads /\ B \in SUBSET Threads
  BY DEF Growing
<1>3. \A s \in Threads : s # t => (s \in A <=> s \in B)
  BY <1>1, Zenon DEF Growing
<1>4. /\ t \in A <=> pc[t] = "grow" /\ size_to_class(call[t].size) = c
      /\ t \in B <=> x = "grow" /\ size_to_class(v.size) = c
  BY <1>1, Zenon DEF Growing
<1> HIDE DEF A, B
<1>5. /\ Cardinality(A) \in Nat /\ Cardinality(B) \in Nat
      /\ Cardinality(B) + (IF t \in A THEN 1 ELSE 0) = Cardinality(A) + (IF t \in B THEN 1 ELSE 0)
  BY <1>2, <1>3, ThreadsFinite, CountOfOne
<1>6. Cardinality(B) <= Cardinality(Threads)
  BY <1>2, ThreadsFinite, FS_Subset, Zenon
<1> QED BY <1>4, <1>5, <1>6, Zenon DEF A, B

\* The chunks of a class are finitely many.
LEMMA OfClassFinite ==
  ASSUME TypeOK, NEW c \in Classes
  PROVE  IsFiniteSet(OfClass(c)) /\ Cardinality(OfClass(c)) \in Nat /\ OfClass(c) \subseteq 1 .. num_chunks
<1>1. IsFiniteSet(1 .. num_chunks)
  BY FS_Interval DEF TypeOK
<1>2. OfClass(c) \subseteq 1 .. num_chunks
  BY DEF OfClass
<1> QED BY <1>1, <1>2, FS_Subset, FS_CardinalityType

\* A thread that begins a call, ends one or goes on to free the old block.
Quiet(t) == \E x \in {"idle", "find", "release"} : \E v : Moves(t, x, v) /\ InOrder(x, v)

SameClasses == ClassesKept /\ \A c \in Classes : OfClass(c)' = OfClass(c)

\* A call that neither begins to make a chunk nor makes one keeps the bound on them.
LEMMA QuietStep ==
  ASSUME TypeOK, CallsInOrder, ChunksBounded, ChunksInOrder', NEW t \in Threads, Quiet(t), SameClasses,
         num_chunks' \in 0 .. MaxChunks, links' \in [next : [Nodes -> Nodes], prev : [Nodes -> Nodes]],
         in_use' \in [Pointer -> Nat]
  PROVE  TypeOK' /\ CallsInOrder' /\ ChunksBounded'
<1>1. PICK x, v : x \in {"idle", "find", "release"} /\ Moves(t, x, v) /\ InOrder(x, v)
  BY Zenon DEF Quiet
<1>2. x # "use" /\ x # "grow"
  BY <1>1
<1>3. TypeOK'
  BY <1>1, StepTyped
<1>4. CallsInOrder'
  BY <1>1, <1>2, CallsMoved DEF SameClasses
<1>5. ASSUME NEW c \in Classes
      PROVE  Cardinality(OfClass(c)') + Cardinality(Growing(c)') <= Cardinality(Threads)
  <2>1. PICK g, h, k, n : g = Cardinality(Growing(c)) /\ h = Cardinality(Growing(c)')
                       /\ k = Cardinality(OfClass(c)) /\ n = Cardinality(Threads)
    OBVIOUS
  <2>2. g \in Nat /\ h \in Nat /\ h <= g
    <3>1. PICK a : a = IF pc[t] = "grow" /\ size_to_class(call[t].size) = c THEN 1 ELSE 0
      OBVIOUS
    <3>2. g \in Nat /\ h \in Nat /\ h + a = g + 0
      BY <1>1, <1>2, <2>1, <3>1, GrowingMoved
    <3>3. a \in {0, 1}
      BY <3>1
    <3> QED BY <3>2, <3>3
  <2>3. k \in Nat /\ n \in Nat /\ k + g <= n
    BY <2>1, OfClassFinite, ThreadsFinite DEF ChunksBounded
  <2>4. OfClass(c)' = OfClass(c)
    BY Zenon DEF SameClasses
  <2>5. k + h <= n
    BY <2>2, <2>3
  <2> QED BY <2>1, <2>4, <2>5, Zenon
<1>6. ChunksBounded'
  BY <1>5, Zenon DEF ChunksBounded
<1> QED BY <1>3, <1>4, <1>6

\* A step that changes one chunk inside keeps the lists.
LEMMA ListsKept ==
  ASSUME TypeOK, Listed, ClassesKept, num_chunks' = num_chunks, links' = links
  PROVE  SameClasses /\ Listed'
<1>1. \A c \in Classes : OfClass(c)' = OfClass(c)
  BY DEF OfClass, ClassesKept
<1>2. links'.prev[ListHead] \in 0 .. num_chunks'
  BY DEF Listed
<1>3. ASSUME NEW c \in Classes
      PROVE  IF OfClass(c)' = {}
             THEN links'.next[FreeHead(c)] = FreeHead(c) /\ links'.prev[FreeHead(c)] = FreeHead(c)
             ELSE links'.next[FreeHead(c)] \in OfClass(c)' /\ links'.prev[FreeHead(c)] \in OfClass(c)'
  <2>1. PICK o : o = OfClass(c)
    OBVIOUS
  <2>2. OfClass(c)' = o
    BY <1>1, <2>1, Zenon
  <2>3. IF o = {}
        THEN links.next[FreeHead(c)] = FreeHead(c) /\ links.prev[FreeHead(c)] = FreeHead(c)
        ELSE links.next[FreeHead(c)] \in o /\ links.prev[FreeHead(c)] \in o
    BY <2>1, Zenon DEF Listed
  <2> QED BY <2>2, <2>3, Zenon
<1> QED BY <1>1, <1>2, <1>3, Zenon DEF Listed, SameClasses

\* k is l with node n at the end of the list at head.
WithTail(k, l, n, head) ==
  /\ k \in [next : [Nodes -> Nodes], prev : [Nodes -> Nodes]]
  /\ \A m \in Nodes :
       /\ k.next[m] = IF m = n THEN head ELSE IF m = l.prev[head] THEN n ELSE l.next[m]
       /\ k.prev[m] = IF m = head THEN n ELSE IF m = n THEN l.prev[head] ELSE l.prev[m]

\* What an addition to a list writes.
LEMMA TailAdded ==
  ASSUME NEW l \in [next : [Nodes -> Nodes], prev : [Nodes -> Nodes]], NEW n \in Nodes, NEW head \in Nodes
  PROVE  WithTail(AddTail(l, n, head), l, n, head)
<1>0. PICK k : k = AddTail(l, n, head)
  OBVIOUS
<1>1. PICK last, next, prev : last = l.prev[head] /\ next = l.next /\ prev = l.prev
  OBVIOUS
<1>2. next \in [Nodes -> Nodes] /\ prev \in [Nodes -> Nodes] /\ last \in Nodes
  BY <1>1
<1>3. /\ k.next = [next EXCEPT ![last] = n, ![n] = head]
      /\ k.prev = [prev EXCEPT ![n] = last, ![head] = n]
      /\ k = [next |-> k.next, prev |-> k.prev]
  BY <1>0, <1>1 DEF AddTail
<1>4. /\ k.next \in [Nodes -> Nodes] /\ k.prev \in [Nodes -> Nodes]
      /\ \A m \in Nodes :
           /\ k.next[m] = IF m = n THEN head ELSE IF m = last THEN n ELSE next[m]
           /\ k.prev[m] = IF m = head THEN n ELSE IF m = n THEN last ELSE prev[m]
  <2>1. PICK kn, kp : kn = k.next /\ kp = k.prev
    OBVIOUS
  <2>2. kn \in [Nodes -> Nodes] /\ kp \in [Nodes -> Nodes]
    BY <1>2, <1>3, <2>1
  <2>3. \A m \in Nodes : kn[m] = IF m = n THEN head ELSE IF m = last THEN n ELSE next[m]
    BY <1>2, <1>3, <2>1
  <2>4. \A m \in Nodes : kp[m] = IF m = head THEN n ELSE IF m = n THEN last ELSE prev[m]
    BY <1>2, <1>3, <2>1
  <2> QED BY <2>1, <2>2, <2>3, <2>4, Zenon
<1>5. k \in [next : [Nodes -> Nodes], prev : [Nodes -> Nodes]]
  <2>1. PICK kn, kp : kn = k.next /\ kp = k.prev
    OBVIOUS
  <2>2. k = [next |-> kn, prev |-> kp] /\ kn \in [Nodes -> Nodes] /\ kp \in [Nodes -> Nodes]
    BY <1>3, <1>4, <2>1, Zenon
  <2> QED BY <2>2
<1> QED BY <1>0, <1>1, <1>4, <1>5, Zenon DEF WithTail

\* A new chunk is one more of its class.
LEMMA NewOfClass ==
  ASSUME TypeOK, ChunksInOrder, NEW u \in AnyChunk,
         chunks' = Append(chunks, u), num_chunks' = num_chunks + 1
  PROVE  /\ ClassesKept
         /\ \A c \in Classes :
              OfClass(c)' = IF u.class = c THEN OfClass(c) \union {num_chunks + 1} ELSE OfClass(c)
<1>1. PICK n : n = num_chunks + 1
  OBVIOUS
<1>2. /\ \A m \in 1 .. num_chunks : m \in 1 .. num_chunks' /\ chunks'[m] = chunks[m]
      /\ chunks'[n] = u /\ n \notin 1 .. num_chunks
      /\ 1 .. num_chunks' = (1 .. num_chunks) \union {n}
  BY <1>1, ChunkAdded, Zenon
<1>3. ASSUME NEW c \in Classes
      PROVE  OfClass(c)' = IF u.class = c THEN OfClass(c) \union {n} ELSE OfClass(c)
  <2>1. \A m : m \in OfClass(c)' <=> m \in (1 .. num_chunks) \union {n} /\ chunks'[m].class = c
    BY <1>2, Zenon DEF OfClass
  <2>2. \A m : m \in OfClass(c) <=> m \in 1 .. num_chunks /\ chunks[m].class = c
    BY Zenon DEF OfClass
  <2> QED BY <1>2, <2>1, <2>2
<1> QED BY <1>1, <1>2, <1>3, Zenon DEF ClassesKept

\* The nodes of chunks and of heads are all different.
LEMMA NodesNumbered ==
  ASSUME TypeOK
  PROVE  /\ ListHead \in Nodes /\ \A n \in 0 .. num_chunks : n \in Nodes
         /\ num_chunks < MaxChunks => num_chunks + 1 \in Nodes
         /\ \A c \in Classes : FreeHead(c) \in Nodes /\ FreeHead(c) \notin 0 .. num_chunks + 1
         /\ \A c, d \in Classes : c # d => FreeHead(c) # FreeHead(d)
<1>1. NumClasses \in Nat /\ MaxChunks \in Nat /\ num_chunks \in 0 .. MaxChunks
  BY ClassFacts, ArenaAssumption DEF TypeOK
<1> QED BY <1>1 DEF Nodes, FreeHead, ListHead, Classes

\* A chunk at the end of arena->list leaves the lists of free chunks alone.
LEMMA ArenaListed ==
  ASSUME TypeOK, Listed, num_chunks < MaxChunks, NEW k, k = AddTail(links, num_chunks + 1, ListHead)
  PROVE  /\ k \in [next : [Nodes -> Nodes], prev : [Nodes -> Nodes]]
         /\ k.prev[ListHead] = num_chunks + 1
         /\ \A c \in Classes : /\ k.next[FreeHead(c)] = links.next[FreeHead(c)]
                               /\ k.prev[FreeHead(c)] = links.prev[FreeHead(c)]
<1>1. PICK n : n = num_chunks + 1
  OBVIOUS
<1>2. n \in Nodes /\ ListHead \in Nodes /\ ListHead # n
  BY <1>1, NodesNumbered DEF ListHead, TypeOK
<1>3. links \in [next : [Nodes -> Nodes], prev : [Nodes -> Nodes]]
  BY DEF TypeOK
<1>4. k = AddTail(links, n, ListHead)
  BY <1>1
<1>5. /\ k \in [next : [Nodes -> Nodes], prev : [Nodes -> Nodes]]
      /\ \A m \in Nodes :
           /\ k.next[m] = IF m = n THEN ListHead ELSE IF m = links.prev[ListHead] THEN n ELSE links.next[m]
           /\ k.prev[m] = IF m = ListHead THEN n ELSE IF m = n THEN links.prev[ListHead] ELSE links.prev[m]
  <2>1. WithTail(k, links, n, ListHead)
    BY <1>2, <1>3, <1>4, TailAdded, Zenon
  <2> QED BY <2>1 DEF WithTail
<1>6. k.prev[ListHead] = n
  BY <1>2, <1>5
<1>7. ASSUME NEW c \in Classes
      PROVE  k.next[FreeHead(c)] = links.next[FreeHead(c)] /\ k.prev[FreeHead(c)] = links.prev[FreeHead(c)]
  <2>1. PICK f : f = FreeHead(c)
    OBVIOUS
  <2>2. f \in Nodes /\ f \notin 0 .. num_chunks + 1
    BY <2>1, NodesNumbered
  <2>3. f # n /\ f # ListHead /\ f # links.prev[ListHead]
    BY <1>1, <2>2 DEF ListHead, Listed, TypeOK
  <2>4. k.next[f] = links.next[f] /\ k.prev[f] = links.prev[f]
    BY <1>5, <2>2, <2>3
  <2> QED BY <2>1, <2>4, Zenon
<1> QED BY <1>1, <1>5, <1>6, <1>7, Zenon

\* A chunk for one large block is of no class, one that a thread grows is the
\* last of its class.
LEMMA ListedLarge ==
  ASSUME TypeOK, ChunksInOrder, Listed, num_chunks < MaxChunks, NEW u \in AnyChunk, u.class = LargeClass,
         chunks' = Append(chunks, u), num_chunks' = num_chunks + 1, links' = InArena
  PROVE  SameClasses /\ Listed' /\ links' \in [next : [Nodes -> Nodes], prev : [Nodes -> Nodes]]
<1>1. \A c \in Classes : OfClass(c)' = OfClass(c)
  BY ClassFacts, NewOfClass
<1>2. ClassesKept
  BY NewOfClass, Zenon
<1>3. /\ links' \in [next : [Nodes -> Nodes], prev : [Nodes -> Nodes]]
      /\ links'.prev[ListHead] = num_chunks + 1
      /\ \A c \in Classes : /\ links'.next[FreeHead(c)] = links.next[FreeHead(c)]
                            /\ links'.prev[FreeHead(c)] = links.prev[FreeHead(c)]
  BY ArenaListed, Zenon DEF InArena
<1>4. links'.prev[ListHead] \in 0 .. num_chunks'
  BY <1>3 DEF TypeOK
<1>5. ASSUME NEW c \in Classes
      PROVE  IF OfClass(c)' = {}
             THEN links'.next[FreeHead(c)] = FreeHead(c) /\ links'.prev[FreeHead(c)] = FreeHead(c)
             ELSE links'.next[FreeHead(c)] \in OfClass(c)' /\ links'.prev[FreeHead(c)] \in OfClass(c)'
  <2>1. IF OfClass(c) = {}
        THEN links.next[FreeHead(c)] = FreeHead(c) /\ links.prev[FreeHead(c)] = FreeHead(c)
        ELSE links.next[FreeHead(c)] \in OfClass(c) /\ links.prev[FreeHead(c)] \in OfClass(c)
    BY Zenon DEF Listed
  <2> QED BY <1>1, <1>3, <2>1, Zenon
<1> QED BY <1>1, <1>2, <1>3, <1>4, <1>5, Zenon DEF SameClasses, Listed

\* The heads lead to the right chunks after an addition to both lists.
LEMMA ListedGrown ==
  ASSUME TypeOK, ChunksInOrder, Listed, num_chunks < MaxChunks, NEW e \in Classes, NEW u \in AnyChunk, u.class = e,
         chunks' = Append(chunks, u), num_chunks' = num_chunks + 1,
         links' = AddTail(InArena, num_chunks + 1, FreeHead(e))
  PROVE  Listed' /\ links' \in [next : [Nodes -> Nodes], prev : [Nodes -> Nodes]]
<1>1. PICK k, n, h, last : k = InArena /\ n = num_chunks + 1 /\ h = FreeHead(e) /\ last = k.prev[h]
  OBVIOUS
<1>2. /\ k \in [next : [Nodes -> Nodes], prev : [Nodes -> Nodes]]
      /\ k.prev[ListHead] = n
      /\ \A c \in Classes : /\ k.next[FreeHead(c)] = links.next[FreeHead(c)]
                            /\ k.prev[FreeHead(c)] = links.prev[FreeHead(c)]
  BY <1>1, ArenaListed, Zenon DEF InArena
<1>3. n \in Nodes /\ h \in Nodes /\ ListHead \in Nodes /\ h \notin 0 .. n /\ ListHead \in 0 .. n /\ ListHead # n
      /\ n \in 0 .. n
  BY <1>1, NodesNumbered DEF TypeOK, ListHead
<1>4. links' = AddTail(k, n, h)
  BY <1>1
<1>5. /\ links' \in [next : [Nodes -> Nodes], prev : [Nodes -> Nodes]]
      /\ \A m \in Nodes :
           /\ links'.next[m] = IF m = n THEN h ELSE IF m = last THEN n ELSE k.next[m]
           /\ links'.prev[m] = IF m = h THEN n ELSE IF m = n THEN last ELSE k.prev[m]
  <2>1. WithTail(links', k, n, h)
    BY <1>2, <1>3, <1>4, TailAdded, Zenon
  <2> QED BY <1>1, <2>1 DEF WithTail
<1>6. links'.prev[ListHead] \in 0 .. num_chunks'
  <2>1. links'.prev[ListHead] = n
    BY <1>2, <1>3, <1>5
  <2> QED BY <1>1, <1>3, <2>1, Zenon
<1>7. \A c \in Classes : OfClass(c)' = IF e = c THEN OfClass(c) \union {n} ELSE OfClass(c)
  BY <1>1, NewOfClass, Zenon
<1>8. last = h \/ last \in 1 .. num_chunks
  <2>1. last = links.prev[h]
    BY <1>1, <1>2, Zenon
  <2>2. OfClass(e) = {} => links.prev[h] = h
    BY <1>1, Zenon DEF Listed
  <2>3. OfClass(e) # {} => links.prev[h] \in OfClass(e)
    BY <1>1, Zenon DEF Listed
  <2> QED BY <2>1, <2>2, <2>3, OfClassFinite
<1>9. ASSUME NEW c \in Classes
      PROVE  IF OfClass(c)' = {}
             THEN links'.next[FreeHead(c)] = FreeHead(c) /\ links'.prev[FreeHead(c)] = FreeHead(c)
             ELSE links'.next[FreeHead(c)] \in OfClass(c)' /\ links'.prev[FreeHead(c)] \in OfClass(c)'
  <2>1. PICK f, o : f = FreeHead(c) /\ o = OfClass(c)
    OBVIOUS
  <2>2. IF o = {} THEN links.next[f] = f /\ links.prev[f] = f ELSE links.next[f] \in o /\ links.prev[f] \in o
    BY <2>1, Zenon DEF Listed
  <2>3. f \in Nodes /\ f # n /\ f \notin 1 .. num_chunks
    <3>1. f \in Nodes /\ f \notin 0 .. num_chunks + 1
      BY <2>1, NodesNumbered, Zenon
    <3>2. num_chunks \in Nat
      BY DEF TypeOK
    <3> QED BY <1>1, <3>1, <3>2
  <2>4. k.next[f] = links.next[f] /\ k.prev[f] = links.prev[f]
    BY <1>2, <2>1, Zenon
  <2>5. CASE c = e
    <3>1. f = h /\ OfClass(c)' = o \union {n}
      BY <1>1, <1>7, <2>1, <2>5, Zenon
    <3>2. links'.prev[f] = n
      BY <1>5, <2>3, <3>1
    <3>3. links'.next[f] = IF f = last THEN n ELSE links.next[f]
      BY <1>5, <2>3, <2>4
    <3>4. f = last \/ links.next[f] \in o
      <4>1. o = {} => f = last
        BY <1>1, <2>2, <2>4, <3>1, Zenon
      <4> QED BY <2>2, <4>1, Zenon
    <3> QED BY <2>1, <3>1, <3>2, <3>3, <3>4, Zenon
  <2>6. CASE c # e
    <3>1. OfClass(c)' = o
      BY <1>7, <2>1, <2>6, Zenon
    <3>2. f # h
      BY <1>1, <2>1, <2>6, NodesNumbered
    <3>3. f # last
      BY <1>8, <2>3, <3>2, Zenon
    <3>4. links'.next[f] = links.next[f] /\ links'.prev[f] = links.prev[f]
      BY <1>5, <2>3, <2>4, <3>2, <3>3
    <3> QED BY <2>1, <2>2, <3>1, <3>4, Zenon
  <2> QED BY <2>5, <2>6
<1> QED BY <1>5, <1>6, <1>9, Zenon DEF Listed

-----------------------------------------------------------------------------
(* The steps.                                                              *)

\* A thread in no call is in order.
LEMMA IdleTyped == Idle \in Calls /\ InOrder("idle", Idle)
<1>1. 0 \in 0 .. MaxChunks
  BY ArenaAssumption
<1> QED BY <1>1 DEF Idle, Calls, InOrder

\* A call that has its pointer ends quietly.
LEMMA ObtainedEnds ==
  ASSUME TypeOK, NEW t \in Threads, NEW q \in Pointer, Obtained(t, q)
  PROVE  Quiet(t) /\ in_use' \in [Pointer -> Nat]
<1>1. CASE call[t].old = NoPointer
  <2>1. Moves(t, "idle", Idle)
    BY <1>1, IdleTyped DEF Obtained, Moves, Locations
  <2>2. Quiet(t)
    BY <2>1, IdleTyped DEF Quiet
  <2>3. in_use' \in [Pointer -> Nat]
    BY <1>1 DEF Obtained, TypeOK
  <2> QED BY <2>2, <2>3
<1>2. CASE call[t].old # NoPointer
  <2>1. PICK v : v = [call[t] EXCEPT !.new = q]
    OBVIOUS
  <2>2. v \in Calls /\ v.old \in Pointer /\ v.new \in Pointer
    BY <1>2, <2>1 DEF TypeOK, Calls
  <2>3. pc' = [pc EXCEPT ![t] = "release"] /\ call' = [call EXCEPT ![t] = v] /\ in_use' = in_use
    BY <1>2, <2>1 DEF Obtained, TypeOK
  <2>4. PICK x : x = "release"
    OBVIOUS
  <2>5. Moves(t, x, v) /\ InOrder(x, v)
    BY <2>2, <2>3, <2>4 DEF Moves, InOrder, Locations
  <2>6. Quiet(t)
    BY <2>4, <2>5 DEF Quiet
  <2> QED BY <2>3, <2>6 DEF TypeOK
<1> QED BY <1>1, <1>2

\* So does one that failed.
LEMMA FailedEnds ==
  ASSUME TypeOK, NEW t \in Threads, Failed(t)
  PROVE  Quiet(t) /\ in_use' \in [Pointer -> Nat]
<1>1. Moves(t, "idle", Idle)
  BY IdleTyped DEF Failed, Moves, Locations
<1>2. Quiet(t)
  BY <1>1, IdleTyped DEF Quiet
<1>3. in_use' \in [Pointer -> Nat]
  BY DEF Failed, TypeOK
<1> QED BY <1>2, <1>3

\* A step that ends in one of the lists and takes or gives up a block there.
LEMMA InsideStep ==
  ASSUME ArenaInv, NEW t \in Threads, Quiet(t), in_use' \in [Pointer -> Nat], UNCHANGED links,
         Placed', NEW n \in 1 .. num_chunks, NEW u, Changed(n, u)
  PROVE  ArenaInv'
<1> USE DEF ArenaInv
<1>1. /\ ChunksInOrder'
      /\ \A m \in 1 .. num_chunks : chunks'[m].class = chunks[m].class
  BY ChunksChanged
<1>2. num_chunks' = num_chunks /\ num_chunks \in 0 .. MaxChunks
  BY DEF Changed, TypeOK
<1>3. ClassesKept
  BY <1>1, <1>2 DEF ClassesKept
<1>4. SameClasses /\ Listed'
  BY <1>2, <1>3, ListsKept
<1>5. links' \in [next : [Nodes -> Nodes], prev : [Nodes -> Nodes]]
  BY DEF TypeOK
<1>6. TypeOK' /\ CallsInOrder' /\ ChunksBounded'
  BY <1>1, <1>2, <1>4, <1>5, QuietStep
<1> QED BY <1>1, <1>4, <1>6

\* An allocation from a chunk of the right class keeps the invariant.
LEMMA AllocFromStep ==
  ASSUME ArenaInv, NEW t \in Threads, pc[t] \in {"find", "use"},
         NEW n \in 1 .. num_chunks, chunks[n].class \in Classes, AllocFrom(t, n)
  PROVE  ArenaInv'
<1>i. TypeOK /\ ChunksInOrder /\ CallsInOrder /\ Placed
  BY DEF ArenaInv
<1>1. PICK c, ch : c = chunks[n].class /\ ch = chunks[n]
  OBVIOUS
<1>2. c \in Classes /\ ch \in CountedChunk(c)
  BY <1>1, <1>i, ChunkAt, ChunkKinds
<1>3. PICK r \in AllocSmall(ch) :
        /\ chunks' = [chunks EXCEPT ![n] = r.chunk]
        /\ IF r.offset = -1 THEN Failed(t) ELSE Obtained(t, At(n, r.offset))
        /\ num_chunks' = num_chunks /\ links' = links
  BY <1>1 DEF AllocFrom
<1>4. TookOne(ch, r, c)
  BY <1>2, SmallAllocated
<1>5. CASE r.offset = -1
  <2>1. Failed(t)
    BY <1>3, <1>5
  <2>2. Unmoved
    BY <1>i, <2>1, FailedCounts
  <2>3. Placed' /\ Changed(n, r.chunk)
    BY <1>i, <1>1, <1>2, <1>3, <1>4, <1>5, <2>2, PlacedTaken
  <2> QED BY <1>i, <1>3, <2>1, <2>3, FailedEnds, InsideStep
<1>6. CASE r.offset # -1
  <2>1. PICK q : q = At(n, r.offset)
    OBVIOUS
  <2>2. Obtained(t, q)
    BY <1>3, <1>6, <2>1
  <2>3. q \in Pointer
    <3>1. PICK i \in Blocks(c) : r.offset = i * class_to_size(c)
      BY <1>4, <1>6 DEF TookOne
    <3>2. r.offset \in 0 .. RunSize - 1
      BY <1>2, <3>1, BlockOffset, Zenon
    <3>3. n \in 1 .. MaxChunks
      BY <1>i, ArenaAssumption DEF TypeOK
    <3> QED BY <2>1, <3>2, <3>3 DEF At, Pointer
  <2>4. Gained(q)
    BY <1>i, <2>2, <2>3, ObtainedCounts
  <2>5. Placed' /\ Changed(n, r.chunk)
    BY <1>i, <1>1, <1>2, <1>3, <1>4, <1>6, <2>1, <2>4, PlacedTaken
  <2> QED BY <1>i, <1>3, <2>2, <2>3, <2>5, ObtainedEnds, InsideStep
<1> QED BY <1>5, <1>6

\* So does a step that changes neither chunks nor holders.
LEMMA SameStep ==
  ASSUME ArenaInv, NEW t \in Threads, Quiet(t), in_use' \in [Pointer -> Nat], Unmoved,
         UNCHANGED <<chunks, num_chunks, links>>
  PROVE  ArenaInv'
<1>i. TypeOK /\ ChunksInOrder /\ CallsInOrder /\ Placed /\ Listed /\ ChunksBounded
  BY DEF ArenaInv
<1>1. Placed' /\ ChunksInOrder'
  BY <1>i, PlacedSame
<1>2. ClassesKept
  BY DEF ClassesKept
<1>3. SameClasses /\ Listed'
  BY <1>i, <1>2, ListsKept
<1>4. num_chunks' \in 0 .. MaxChunks /\ links' \in [next : [Nodes -> Nodes], prev : [Nodes -> Nodes]]
  BY <1>i DEF TypeOK
<1>5. TypeOK' /\ CallsInOrder' /\ ChunksBounded'
  BY <1>i, <1>1, <1>3, <1>4, QuietStep
<1> QED BY <1>1, <1>3, <1>5 DEF ArenaInv

\* The beginning of arena_malloc keeps it.
LEMMA CallMallocStep ==
  ASSUME ArenaInv, NEW t \in Threads, CallMalloc(t)
  PROVE  ArenaInv'
<1>i. TypeOK /\ CallsInOrder
  BY DEF ArenaInv
<1>1. PICK s \in Requests : call' = [call EXCEPT ![t].size = s]
  BY DEF CallMalloc
<1>2. PICK v : v = [call[t] EXCEPT !.size = s]
  OBVIOUS
<1>3. call[t] = Idle
  BY <1>i DEF CallMalloc, CallsInOrder
<1>4. /\ v \in Calls /\ call' = [call EXCEPT ![t] = v] /\ pc' = [pc EXCEPT ![t] = "find"] /\ in_use' = in_use
      /\ v.size = s /\ v.old = call[t].old /\ v.new = call[t].new
  <2>1. call[t] \in Calls /\ call \in [Threads -> Calls]
    BY <1>i DEF TypeOK, Calls
  <2>2. v \in Calls /\ v.size = s /\ v.old = call[t].old /\ v.new = call[t].new
    BY <1>2, <2>1 DEF Calls
  <2>3. call' = [call EXCEPT ![t] = v]
    BY <1>1, <1>2, <2>1
  <2> QED BY <2>2, <2>3 DEF CallMalloc
<1>5. v.new = NoPointer
  BY <1>3, <1>4, IdleIs
<1>6. PICK x : x = "find"
  OBVIOUS
<1>7. Moves(t, x, v) /\ InOrder(x, v)
  BY <1>4, <1>5, <1>6 DEF Moves, InOrder, Locations
<1>8. Quiet(t)
  BY <1>6, <1>7 DEF Quiet
<1>9. Unmoved
  BY <1>i, <1>4, NotedCounts
<1>10. in_use' \in [Pointer -> Nat] /\ UNCHANGED <<chunks, num_chunks, links>>
  BY <1>i DEF TypeOK, CallMalloc
<1> QED BY <1>8, <1>9, <1>10, SameStep

\* So does that of arena_realloc.
LEMMA CallReallocStep ==
  ASSUME ArenaInv, NEW t \in Threads, CallRealloc(t)
  PROVE  ArenaInv'
<1>i. TypeOK /\ CallsInOrder
  BY DEF ArenaInv
<1>1. PICK p \in Pointer, s \in Requests :
        /\ in_use[p] > 0 /\ in_use' = [in_use EXCEPT ![p] = @ - 1]
        /\ call' = [call EXCEPT ![t] = [Idle EXCEPT !.size = s, !.old = p]]
  BY DEF CallRealloc
<1>2. PICK v : v = [Idle EXCEPT !.size = s, !.old = p]
  OBVIOUS
<1>3. v \in Calls /\ v.size = s /\ v.new = NoPointer
  <2>1. v = [size |-> s, chunk |-> 0, old |-> p, new |-> NoPointer]
    BY <1>2 DEF Idle
  <2>2. 0 \in 0 .. MaxChunks
    BY ArenaAssumption
  <2> QED BY <2>1, <2>2 DEF Calls
<1>4. call' = [call EXCEPT ![t] = v] /\ pc' = [pc EXCEPT ![t] = "find"]
  BY <1>1, <1>2 DEF CallRealloc
<1>5. PICK x : x = "find"
  OBVIOUS
<1>6. Moves(t, x, v) /\ InOrder(x, v)
  BY <1>3, <1>4, <1>5 DEF Moves, InOrder, Locations
<1>7. Quiet(t)
  BY <1>5, <1>6 DEF Quiet
<1>8. Unmoved
  BY <1>i, ReallocCounts
<1>9. in_use' \in [Pointer -> Nat]
  BY <1>i, <1>1 DEF TypeOK
<1>10. UNCHANGED <<chunks, num_chunks, links>>
  BY DEF CallRealloc
<1> QED BY <1>7, <1>8, <1>9, <1>10, SameStep

\* So does a chunk that could not be mapped.
LEMMA GrowFailedStep ==
  ASSUME ArenaInv, NEW t \in Threads, GrowFailed(t)
  PROVE  ArenaInv'
<1>i. TypeOK /\ CallsInOrder
  BY DEF ArenaInv
<1>1. pc[t] \in {"find", "grow", "use"} /\ Failed(t) /\ UNCHANGED <<chunks, num_chunks, links>>
  BY DEF GrowFailed
<1>2. Unmoved
  BY <1>i, <1>1, FailedCounts
<1> QED BY <1>i, <1>1, <1>2, FailedEnds, SameStep

\* A block held is given up, by free or by the end of a realloc.
LEMMA GivenUp ==
  ASSUME ArenaInv, NEW t \in Threads, Quiet(t), in_use' \in [Pointer -> Nat],
         NEW q \in Pointer, ArenaFree(q), Dropped(q), UNCHANGED <<num_chunks, links>>
  PROVE  ArenaInv'
<1>i. TypeOK /\ ChunksInOrder /\ CallsInOrder /\ Placed
  BY DEF ArenaInv
<1>1. Holders(q) > 0
  <2>1. PICK v : call' = [call EXCEPT ![t] = v]
    BY DEF Quiet, Moves
  <2>2. InCalls(q)' \in Nat
    BY <1>i, <2>1, CallsCounted
  <2>3. Holders(q)' \in Nat
    <3>1. Holders(q)' = in_use'[q] + InCalls(q)' /\ in_use'[q] \in Nat
      BY DEF Holders
    <3> QED BY <2>2, <3>1
  <2>4. Holders(q) \in Nat /\ Holders(q)' = Holders(q) - 1
    BY DEF Dropped, One
  <2> QED BY <2>3, <2>4
<1>2. Placed' /\ q.chunk \in 1 .. num_chunks /\ \E u : Changed(q.chunk, u)
  BY <1>i, <1>1, PlacedFreed
<1> QED BY <1>2, InsideStep

\* arena_free keeps the invariant, whatever it finds.
LEMMA CallFreeStep ==
  ASSUME ArenaInv, NEW t \in Threads, CallFree(t)
  PROVE  ArenaInv'
<1>i. TypeOK /\ CallsInOrder
  BY DEF ArenaInv
<1>1. PICK q \in Pointer : in_use[q] > 0 /\ in_use' = [in_use EXCEPT ![q] = @ - 1] /\ ArenaFree(q)
  BY DEF CallFree
<1>2. PICK v : v = call[t]
  OBVIOUS
<1>3. v = Idle /\ call' = [call EXCEPT ![t] = v] /\ pc' = [pc EXCEPT ![t] = "idle"]
  BY <1>i, <1>2 DEF CallFree, CallsInOrder, TypeOK
<1>4. Quiet(t)
  <2>1. Moves(t, "idle", Idle)
    BY <1>3, IdleTyped DEF Moves, Locations
  <2> QED BY <2>1, IdleTyped DEF Quiet
<1>5. Dropped(q)
  BY <1>i, <1>1, <1>2, <1>3, FreeCounts
<1>6. in_use' \in [Pointer -> Nat]
  BY <1>i, <1>1 DEF TypeOK
<1>7. UNCHANGED <<num_chunks, links>>
  BY DEF CallFree
<1> QED BY <1>1, <1>4, <1>5, <1>6, <1>7, GivenUp

\* So does the free at the end of arena_realloc.
LEMMA ReallocReleaseStep ==
  ASSUME ArenaInv, NEW t \in Threads, ReallocRelease(t)
  PROVE  ArenaInv'
<1>i. TypeOK /\ CallsInOrder
  BY DEF ArenaInv
<1>1. PICK q : q = call[t].old
  OBVIOUS
<1>2. q \in Pointer /\ call[t].new \in Pointer
  BY <1>i, <1>1 DEF CallsInOrder, ReallocRelease
<1>3. ArenaFree(q) /\ UNCHANGED <<num_chunks, links>>
  BY <1>1 DEF ReallocRelease
<1>4. Quiet(t)
  <2>1. Moves(t, "idle", Idle)
    BY IdleTyped DEF ReallocRelease, Moves, Locations
  <2> QED BY <2>1, IdleTyped DEF Quiet
<1>5. Dropped(q)
  BY <1>i, <1>1, ReleaseCounts
<1>6. in_use' \in [Pointer -> Nat]
  BY <1>i, <1>2 DEF ReallocRelease, TypeOK
<1> QED BY <1>2, <1>3, <1>4, <1>5, <1>6, GivenUp

\* So does the allocation from the chunk that was made.
LEMMA MallocUseStep ==
  ASSUME ArenaInv, NEW t \in Threads, MallocUse(t)
  PROVE  ArenaInv'
<1>1. pc[t] = "use" /\ AllocFrom(t, call[t].chunk)
  BY DEF MallocUse
<1>2. call[t].chunk \in 1 .. num_chunks /\ chunks[call[t].chunk].class \in Classes
  BY <1>1 DEF ArenaInv, CallsInOrder
<1> QED BY <1>1, <1>2, AllocFromStep

\* A thread that found the list empty goes to make a chunk: its class has none.
LEMMA FindGrows ==
  ASSUME ArenaInv, NEW t \in Threads, NEW c \in Classes, c = size_to_class(call[t].size), pc[t] = "find",
         ListEmpty(FreeHead(c)), pc' = [pc EXCEPT ![t] = "grow"],
         UNCHANGED <<chunks, num_chunks, links, in_use, call>>
  PROVE  ArenaInv'
<1>i. TypeOK /\ ChunksInOrder /\ CallsInOrder /\ Placed /\ Listed /\ ChunksBounded
  BY DEF ArenaInv
<1>1. PICK x, v : x = "grow" /\ v = call[t]
  OBVIOUS
<1>2. call' = [call EXCEPT ![t] = v] /\ v \in Calls /\ pc' = [pc EXCEPT ![t] = x] /\ x \in Locations
  BY <1>i, <1>1 DEF TypeOK, Calls, Locations
<1>3. Moves(t, x, v)
  BY <1>2 DEF Moves
<1>4. v.size \in Requests /\ v.new = NoPointer /\ size_to_class(v.size) = c
  BY <1>i, <1>1 DEF CallsInOrder
<1>5. InOrder(x, v)
  BY <1>1, <1>4 DEF InOrder
<1>6. ClassesKept
  BY DEF ClassesKept
<1>7. CallsInOrder'
  <2>1. x # "use"
    BY <1>1
  <2> QED BY <1>i, <1>3, <1>5, <1>6, <2>1, CallsMoved
<1>8. SameClasses /\ Listed'
  BY <1>i, <1>6, ListsKept
<1>9. Unmoved
  <2>1. v.old = call[t].old /\ v.new = call[t].new
    BY <1>1
  <2> QED BY <1>i, <1>2, <2>1, NotedCounts
<1>10. Placed' /\ ChunksInOrder'
  BY <1>i, <1>9, PlacedSame
<1>11. TypeOK'
  <2>1. /\ num_chunks' \in 0 .. MaxChunks /\ in_use' \in [Pointer -> Nat]
        /\ links' \in [next : [Nodes -> Nodes], prev : [Nodes -> Nodes]]
    BY <1>i DEF TypeOK
  <2> QED BY <1>i, <1>3, <1>10, <2>1, StepTyped
<1>12. OfClass(c) = {}
  <2>1. links.next[FreeHead(c)] = FreeHead(c)
    BY DEF ListEmpty
  <2>2. FreeHead(c) \notin 0 .. num_chunks + 1
    BY <1>i, NodesNumbered
  <2>3. OfClass(c) \subseteq 1 .. num_chunks /\ num_chunks \in Nat
    BY <1>i, OfClassFinite DEF TypeOK
  <2>4. FreeHead(c) \notin OfClass(c)
    BY <2>2, <2>3
  <2> QED BY <1>i, <2>1, <2>4, Zenon DEF Listed
<1>13. ASSUME NEW d \in Classes
       PROVE  Cardinality(OfClass(d)') + Cardinality(Growing(d)') <= Cardinality(Threads)
  <2>1. PICK g, h, k, n : g = Cardinality(Growing(d)) /\ h = Cardinality(Growing(d)')
                       /\ k = Cardinality(OfClass(d)) /\ n = Cardinality(Threads)
    OBVIOUS
  <2>2. g \in Nat /\ h \in Nat /\ h <= n
    BY <1>i, <1>3, <2>1, GrowingMoved
  <2>3. k \in Nat /\ n \in Nat /\ k + g <= n
    BY <1>i, <2>1, OfClassFinite, ThreadsFinite DEF ChunksBounded
  <2>4. OfClass(d)' = OfClass(d)
    BY <1>8, Zenon DEF SameClasses
  <2>5. CASE d = c
    <3>1. k = 0
      BY <1>12, <2>1, <2>5, FS_EmptySet
    <3>2. k + h <= n
      BY <2>2, <2>3, <3>1
    <3> QED BY <2>1, <2>4, <3>2, Zenon
  <2>6. CASE d # c
    <3>1. h + 0 = g + 0
      <4>1. PICK a, b : /\ a = IF pc[t] = "grow" /\ size_to_class(call[t].size) = d THEN 1 ELSE 0
                        /\ b = IF x = "grow" /\ size_to_class(v.size) = d THEN 1 ELSE 0
        OBVIOUS
      <4>2. h + a = g + b
        BY <1>3, <1>i, <2>1, <4>1, GrowingMoved
      <4>3. a = 0 /\ b = 0
        BY <1>4, <2>6, <4>1
      <4> QED BY <4>2, <4>3
    <3>2. k + h <= n
      BY <2>2, <2>3, <3>1
    <3> QED BY <2>1, <2>4, <3>2, Zenon
  <2> QED BY <2>5, <2>6
<1>14. ChunksBounded'
  BY <1>13, Zenon DEF ChunksBounded
<1> QED BY <1>7, <1>8, <1>10, <1>11, <1>14 DEF ArenaInv

\* The search for a chunk keeps the invariant.
LEMMA MallocFindStep ==
  ASSUME ArenaInv, NEW t \in Threads, MallocFind(t)
  PROVE  ArenaInv'
<1>i. TypeOK /\ Listed
  BY DEF ArenaInv
<1>1. PICK c : c = size_to_class(call[t].size)
  OBVIOUS
<1>2. pc[t] = "find" /\ c \in Classes
  BY <1>1, RequestClass DEF MallocFind
<1>3. CASE ListEmpty(FreeHead(c))
  <2>1. pc' = [pc EXCEPT ![t] = "grow"] /\ UNCHANGED <<chunks, num_chunks, links, in_use, call>>
    BY <1>1, <1>3 DEF MallocFind
  <2> QED BY <1>1, <1>2, <1>3, <2>1, FindGrows
<1>4. CASE ~ListEmpty(FreeHead(c))
  <2>1. PICK n : n = First(FreeHead(c))
    OBVIOUS
  <2>2. AllocFrom(t, n)
    BY <1>1, <1>4, <2>1 DEF MallocFind
  <2>3. n = links.next[FreeHead(c)] /\ n # FreeHead(c)
    BY <1>4, <2>1 DEF First, ListEmpty
  <2>4. n \in OfClass(c)
    BY <1>i, <1>2, <2>3, Zenon DEF Listed
  <2>5. n \in 1 .. num_chunks /\ chunks[n].class = c
    BY <2>4 DEF OfClass
  <2> QED BY <1>2, <2>2, <2>5, AllocFromStep
<1> QED BY <1>3, <1>4

\* So does a large allocation.
LEMMA MallocLargeStep ==
  ASSUME ArenaInv, NEW t \in Threads, MallocLarge(t)
  PROVE  ArenaInv'
<1>i. TypeOK /\ ChunksInOrder /\ CallsInOrder /\ Placed /\ Listed /\ ChunksBounded
  BY DEF ArenaInv
<1>1. PICK n, q : n = num_chunks + 1 /\ q = At(n, 0)
  OBVIOUS
<1>2. call[t].size \in Nat \ {0}
  BY <1>i, ArenaAssumption DEF MallocLarge, CallsInOrder
<1>3. PICK u \in chunk_alloc_large(call[t].size) : chunks' = Append(chunks, u)
  BY DEF MallocLarge
<1>4. u \in AnyChunk /\ u.class = LargeClass /\ u.large > 0
  BY <1>2, NewLarge
<1>5. /\ num_chunks < MaxChunks /\ num_chunks' = num_chunks + 1 /\ links' = InArena
      /\ Obtained(t, q) /\ pc[t] = "find"
  BY <1>1 DEF MallocLarge
<1>6. q \in Pointer
  <2>1. n \in 1 .. MaxChunks /\ 0 \in 0 .. RunSize - 1
    BY <1>i, <1>1, <1>5, ArenaAssumption DEF TypeOK
  <2> QED BY <1>1, <2>1 DEF At, Pointer
<1>7. Gained(q)
  BY <1>i, <1>5, <1>6, ObtainedCounts
<1>8. Placed' /\ ChunksInOrder'
  BY <1>i, <1>1, <1>3, <1>4, <1>5, <1>7, PlacedAdded
<1>9. SameClasses /\ Listed' /\ links' \in [next : [Nodes -> Nodes], prev : [Nodes -> Nodes]]
  BY <1>i, <1>3, <1>4, <1>5, ListedLarge
<1>10. Quiet(t) /\ in_use' \in [Pointer -> Nat]
  BY <1>i, <1>5, <1>6, ObtainedEnds
<1>11. num_chunks' \in 0 .. MaxChunks
  BY <1>i, <1>5, ArenaAssumption DEF TypeOK
<1>12. TypeOK' /\ CallsInOrder' /\ ChunksBounded'
  BY <1>i, <1>8, <1>9, <1>10, <1>11, QuietStep
<1> QED BY <1>8, <1>9, <1>12 DEF ArenaInv

\* So does a new chunk in the lists.
LEMMA GrowStep ==
  ASSUME ArenaInv, NEW t \in Threads, Grow(t)
  PROVE  ArenaInv'
<1>i. TypeOK /\ ChunksInOrder /\ CallsInOrder /\ Placed /\ Listed /\ ChunksBounded
  BY DEF ArenaInv
<1>1. PICK n, c, u, v, x : /\ n = num_chunks + 1 /\ c = size_to_class(call[t].size) /\ u = NewChunk(c, 0)
                           /\ v = [call[t] EXCEPT !.chunk = n] /\ x = "use"
  OBVIOUS
<1>2. pc[t] = "grow" /\ num_chunks < MaxChunks
  BY DEF Grow
<1>3. c \in Classes /\ call[t].size \in Requests /\ call[t].new = NoPointer
  BY <1>i, <1>1, <1>2 DEF CallsInOrder
<1>4. u \in AnyChunk /\ u.class = c
  BY <1>1, <1>3, NewSmall
<1>5. /\ chunks' = Append(chunks, u) /\ num_chunks' = num_chunks + 1 /\ in_use' = in_use
      /\ links' = AddTail(InArena, num_chunks + 1, FreeHead(c)) /\ pc' = [pc EXCEPT ![t] = x]
  BY <1>1 DEF Grow, NewChunkIn
<1>6. call[t] \in Calls /\ call \in [Threads -> Calls] /\ num_chunks \in 0 .. MaxChunks /\ MaxChunks \in Nat
  BY <1>i, ArenaAssumption DEF TypeOK, Calls
<1>7. n \in 0 .. MaxChunks /\ num_chunks' \in 0 .. MaxChunks
  BY <1>1, <1>2, <1>5, <1>6
<1>8. /\ v \in Calls /\ v.chunk = n /\ v.size = call[t].size
      /\ v.old = call[t].old /\ v.new = call[t].new
  BY <1>1, <1>6, <1>7 DEF Calls
<1>9. call' = [call EXCEPT ![t] = v]
  <2>1. call' = [call EXCEPT ![t].chunk = n]
    BY <1>1 DEF Grow, NewChunkIn
  <2> QED BY <1>1, <1>6, <2>1
<1>10. Unmoved
  BY <1>i, <1>5, <1>8, <1>9, NotedCounts
<1>11. Placed' /\ ChunksInOrder'
  BY <1>i, <1>4, <1>5, <1>10, PlacedAdded
<1>12. Listed' /\ links' \in [next : [Nodes -> Nodes], prev : [Nodes -> Nodes]]
  BY <1>i, <1>2, <1>3, <1>4, <1>5, ListedGrown
<1>13. /\ ClassesKept
       /\ \A d \in Classes : OfClass(d)' = IF u.class = d THEN OfClass(d) \union {num_chunks + 1} ELSE OfClass(d)
  BY <1>i, <1>4, <1>5, NewOfClass
<1>14. Moves(t, x, v)
  BY <1>1, <1>5, <1>8, <1>9 DEF Moves, Locations
<1>15. InOrder(x, v) /\ size_to_class(v.size) = c
  BY <1>1, <1>3, <1>8 DEF InOrder
<1>16. CallsInOrder'
  <2>1. chunks'[n] = u /\ n \in 1 .. num_chunks'
    BY <1>i, <1>1, <1>4, <1>5, ChunkAdded, Zenon
  <2> QED BY <1>i, <1>4, <1>8, <1>13, <1>14, <1>15, <2>1, CallsMoved
<1>17. TypeOK'
  <2>1. in_use' \in [Pointer -> Nat]
    BY <1>i, <1>5 DEF TypeOK
  <2> QED BY <1>i, <1>7, <1>11, <1>12, <1>14, <2>1, StepTyped
<1>18. ASSUME NEW d \in Classes
       PROVE  Cardinality(OfClass(d)') + Cardinality(Growing(d)') <= Cardinality(Threads)
  <2>1. PICK g, h, k, m : g = Cardinality(Growing(d)) /\ h = Cardinality(Growing(d)')
                       /\ k = Cardinality(OfClass(d)) /\ m = Cardinality(Threads)
    OBVIOUS
  <2>2. PICK a, b : /\ a = IF pc[t] = "grow" /\ size_to_class(call[t].size) = d THEN 1 ELSE 0
                    /\ b = IF x = "grow" /\ size_to_class(v.size) = d THEN 1 ELSE 0
    OBVIOUS
  <2>3. g \in Nat /\ h \in Nat /\ h + a = g + b
    BY <1>i, <1>14, <2>1, <2>2, GrowingMoved
  <2>4. b = 0 /\ a = IF c = d THEN 1 ELSE 0
    <3>1. b = 0
      BY <1>1, <2>2
    <3>2. a = IF c = d THEN 1 ELSE 0
      BY <1>1, <1>2, <2>2
    <3> QED BY <3>1, <3>2
  <2>5. k \in Nat /\ m \in Nat /\ k + g <= m
    BY <1>i, <2>1, OfClassFinite, ThreadsFinite DEF ChunksBounded
  <2>6. PICK k2 : k2 = Cardinality(OfClass(d)')
    OBVIOUS
  <2>7. k2 = IF c = d THEN k + 1 ELSE k
    <3>1. num_chunks + 1 \notin OfClass(d) /\ IsFiniteSet(OfClass(d))
      BY <1>i, <1>6, OfClassFinite
    <3>2. Cardinality(OfClass(d) \union {num_chunks + 1}) = k + 1
      BY <2>1, <3>1, FS_AddElement
    <3>3. OfClass(d)' = IF c = d THEN OfClass(d) \union {num_chunks + 1} ELSE OfClass(d)
      BY <1>4, <1>13, Zenon
    <3> QED BY <2>1, <2>6, <3>2, <3>3, Zenon
  <2>8. k2 + h <= m
    BY <2>3, <2>4, <2>5, <2>7
  <2> QED BY <2>1, <2>6, <2>8
<1>19. ChunksBounded'
  BY <1>18, Zenon DEF ChunksBounded
<1> QED BY <1>11, <1>12, <1>16, <1>17, <1>19 DEF ArenaInv

-----------------------------------------------------------------------------
(* The theorems.                                                           *)

\* The invariant holds of a new arena.
LEMMA ArenaInit == Init => ArenaInv
<1> SUFFICES ASSUME Init PROVE ArenaInv
  OBVIOUS
<1>1. /\ chunks = <<>> /\ num_chunks = 0 /\ in_use = [p \in Pointer |-> 0]
      /\ links = [next |-> [n \in Nodes |-> n], prev |-> [n \in Nodes |-> n]]
      /\ pc = [t \in Threads |-> "idle"] /\ call = [t \in Threads |-> Idle]
  BY DEF Init
<1>2. ChunksInOrder
  BY <1>1 DEF ChunksInOrder
<1>3. TypeOK
  <2>1. num_chunks \in 0 .. MaxChunks
    BY <1>1, ArenaAssumption
  <2>2. \A n \in 1 .. Len(chunks) : chunks[n] \in LargeChunk \/ \E c \in Classes : chunks[n] \in SmallChunk(c)
    BY <1>2, ChunksTyped
  <2>3. pc \in [Threads -> Locations] /\ call \in [Threads -> Calls]
    BY <1>1, IdleTyped DEF Locations
  <2>4. in_use \in [Pointer -> Nat] /\ links \in [next : [Nodes -> Nodes], prev : [Nodes -> Nodes]]
    BY <1>1
  <2> QED BY <2>1, <2>2, <2>3, <2>4, Zenon DEF TypeOK, Calls
<1>4. CallsInOrder
  BY <1>1 DEF CallsInOrder
<1>5. Placed
  <2>1. ASSUME NEW p \in Pointer PROVE ~(Holders(p) > 0)
    <3>1. {t \in Threads : call[t].old = p} = {} /\ {t \in Threads : call[t].new = p} = {}
      BY <1>1, IdleIs, NoPointerIsNone
    <3>2. InCalls(p) = 0
      BY <3>1, FS_EmptySet DEF InCalls
    <3> QED BY <1>1, <3>2 DEF Holders
  <2>2. Sited
    BY <2>1, Zenon DEF Sited
  <2>3. Covered
    BY <1>1 DEF Covered
  <2> QED BY <2>2, <2>3 DEF Placed
<1>6. \A c \in Classes : OfClass(c) = {}
  BY <1>1 DEF OfClass
<1>7. Listed
  <2>1. links.prev[ListHead] = ListHead
    BY <1>1, <1>3, NodesNumbered
  <2>2. \A c \in Classes : links.next[FreeHead(c)] = FreeHead(c) /\ links.prev[FreeHead(c)] = FreeHead(c)
    BY <1>1, <1>3, NodesNumbered
  <2>3. ListHead \in 0 .. num_chunks
    BY <1>1 DEF ListHead
  <2> QED BY <1>6, <2>1, <2>2, <2>3, Zenon DEF Listed
<1>8. ChunksBounded
  <2>1. ASSUME NEW c \in Classes PROVE Growing(c) = {}
    BY <1>1 DEF Growing
  <2> QED BY <1>6, <2>1, FS_EmptySet, ThreadsFinite DEF ChunksBounded
<1> QED BY <1>2, <1>3, <1>4, <1>5, <1>7, <1>8 DEF ArenaInv

\* Every step keeps the invariant.
LEMMA ArenaStep == ArenaInv /\ [Next]_vars => ArenaInv'
<1>1. ASSUME ArenaInv, NEW t \in Threads,
             \/ CallMalloc(t) \/ CallRealloc(t) \/ CallFree(t)
             \/ MallocFind(t) \/ GrowFailed(t) \/ Grow(t) \/ MallocUse(t)
             \/ MallocLarge(t) \/ ReallocRelease(t)
      PROVE  ArenaInv'
  BY <1>1, CallMallocStep, CallReallocStep, CallFreeStep, MallocFindStep, GrowFailedStep, GrowStep,
     MallocUseStep, MallocLargeStep, ReallocReleaseStep, Zenon
<1>2. ASSUME ArenaInv, UNCHANGED vars PROVE ArenaInv'
  <2>1. /\ chunks' = chunks /\ num_chunks' = num_chunks /\ links' = links /\ in_use' = in_use
        /\ pc' = pc /\ call' = call
    BY <1>2 DEF vars
  <2>2. TypeOK' /\ ChunksInOrder'
    BY <1>2, <2>1 DEF ArenaInv, TypeOK, ChunksInOrder
  <2>3. CallsInOrder'
    BY <1>2, <2>1 DEF ArenaInv, CallsInOrder
  <2>4. Placed'
    <3>1. Placed' = Placed
      BY <2>1 DEF Placed, Sited, Covered, HoldersOf, Holders, InCalls, Block, BitOf
    <3> QED BY <1>2, <3>1 DEF ArenaInv
  <2>5. Listed' /\ ChunksBounded'
    <3>1. Listed' = Listed /\ ChunksBounded' = ChunksBounded
      BY <2>1 DEF Listed, ChunksBounded, OfClass, Growing
    <3> QED BY <1>2, <3>1 DEF ArenaInv
  <2> QED BY <2>2, <2>3, <2>4, <2>5 DEF ArenaInv
<1> QED BY <1>1, <1>2, Zenon DEF Next

\* Whatever arena_malloc, arena_realloc and arena_free do, and however their sections
\* under fast_lock and the mutex interleave, every chunk keeps its counts, what is
\* held lies in a chunk there is, and the list of a class starts with its chunks.
THEOREM ArenaCorrect == Spec => []ArenaInv
BY ArenaInit, ArenaStep, PTL DEF Spec

\* arena_malloc drops fast_lock between the search for a chunk and the new one, yet
\* the chunks of one class are never more than the threads.
THEOREM ChunksAreBounded == Spec => []OneChunkEach
<1>1. ArenaInv => OneChunkEach
  <2> SUFFICES ASSUME ArenaInv, NEW c \in Classes
               PROVE  Cardinality({n \in 1 .. Len(chunks) : chunks[n].class = c}) <= Cardinality(Threads)
    BY DEF OneChunkEach
  <2>1. TypeOK /\ Len(chunks) = num_chunks
    BY DEF ArenaInv, ChunksInOrder
  <2>2. {n \in 1 .. Len(chunks) : chunks[n].class = c} = OfClass(c)
    BY <2>1 DEF OfClass
  <2>3. Cardinality(OfClass(c)) \in Nat /\ Cardinality(Growing(c)) \in Nat /\ Cardinality(Threads) \in Nat
    <3>1. Growing(c) \subseteq Threads
      BY DEF Growing
    <3> QED BY <2>1, <3>1, OfClassFinite, ThreadsFinite, FS_Subset, FS_CardinalityType
  <2>4. Cardinality(OfClass(c)) + Cardinality(Growing(c)) <= Cardinality(Threads)
    BY DEF ArenaInv, ChunksBounded
  <2>5. \A a, b, m \in Nat : a + b <= m => a <= m
    OBVIOUS
  <2>6. Cardinality(OfClass(c)) <= Cardinality(Threads)
    BY <2>3, <2>4, <2>5, Zenon
  <2> QED BY <2>2, <2>6, Zenon
<1> QED BY <1>1, ArenaCorrect, PTL

\* The runs of a chunk are those of its two lists.
LEMMA RunsAre ==
  ASSUME NEW c \in Classes, NEW ch \in CountedChunk(c), NEW all, all = ch.runs_free \o ch.runs_full
  PROVE  /\ all \in Seq(CountedRun(c)) /\ Len(all) = ch.num_runs
         /\ \A i \in BitsSet(ch) : \E k \in 1 .. Len(all) : i \in all[k].alloc_bitmap
<1>1. PICK s, u : s = ch.runs_free /\ u = ch.runs_full
  OBVIOUS
<1>2. s \in Seq(CountedRun(c)) /\ u \in Seq(CountedRun(c)) /\ ch.num_runs = Len(s) + Len(u) /\ all = s \o u
  BY <1>1, ChunkParts
<1>3. Len(s) \in Nat /\ Len(u) \in Nat
  BY <1>2, LenProperties
<1>4. /\ all \in Seq(CountedRun(c)) /\ Len(all) = Len(s) + Len(u)
      /\ \A k \in 1 .. Len(s) : all[k] = s[k]
      /\ \A k \in 1 .. Len(u) : all[k + Len(s)] = u[k]
  BY <1>2, <1>3, ConcatProperties
<1>5. ASSUME NEW i \in BitsSet(ch)
      PROVE  \E k \in 1 .. Len(all) : i \in all[k].alloc_bitmap
  <2>1. DOMAIN s = 1 .. Len(s) /\ DOMAIN u = 1 .. Len(u)
    BY <1>2, LenProperties
  <2>2. i \in Shown(s) \/ i \in Shown(u)
    BY <1>1, Zenon DEF BitsSet
  <2>3. CASE i \in Shown(s)
    <3>1. PICK k \in 1 .. Len(s) : i \in s[k].alloc_bitmap
      BY <2>1, <2>3 DEF Shown
    <3>2. k \in 1 .. Len(all)
      BY <1>3, <1>4
    <3> QED BY <1>4, <3>1, <3>2
  <2>4. CASE i \in Shown(u)
    <3>1. PICK k \in 1 .. Len(u) : i \in u[k].alloc_bitmap
      BY <2>1, <2>4 DEF Shown
    <3>2. k + Len(s) \in 1 .. Len(all)
      BY <1>3, <1>4
    <3> QED BY <1>4, <3>1, <3>2
  <2> QED BY <2>2, <2>3, <2>4
<1> QED BY <1>2, <1>4, <1>5

\* chunk_alloc_small and chunk_free_small keep free_blocks_count and num_runs those of
\* the bitmaps and of the lists, whatever pointer arena_free is led to by its guess.
THEOREM RunsAreCounted == Spec => []RunsCounted
<1>1. ArenaInv => RunsCounted
  <2> SUFFICES ASSUME ArenaInv, NEW n \in 1 .. Len(chunks)
               PROVE  /\ chunks[n].num_runs = Len(Runs(n))
                      /\ \A run \in RunsOf(n) :
                           /\ run.free_blocks_count = num_blocks(chunks[n].class) - Cardinality(run.alloc_bitmap)
                           /\ num_blocks(chunks[n].class) > 0 => run.alloc_bitmap # {}
    BY DEF RunsCounted
  <2>1. PICK ch, c, all : ch = chunks[n] /\ c = ch.class /\ all = ch.runs_free \o ch.runs_full
    OBVIOUS
  <2>2. ch \in AnyChunk
    BY <2>1, ChunkAt DEF ArenaInv, ChunksInOrder
  <2>3. Runs(n) = all /\ RunsOf(n) = {all[k] : k \in 1 .. Len(all)}
    BY <2>1, Zenon DEF Runs, RunsOf
  <2>4. CASE c \in Classes
    <3>1. ch \in CountedChunk(c)
      BY <2>1, <2>2, <2>4, ChunkKinds
    <3>2. all \in Seq(CountedRun(c)) /\ Len(all) = ch.num_runs
      BY <2>1, <2>4, <3>1, RunsAre
    <3>3. \A k \in 1 .. Len(all) : all[k] \in CountedRun(c)
      BY <3>2, ElementOfSeq
    <3>4. ASSUME NEW run \in RunsOf(n)
          PROVE  /\ run.free_blocks_count = num_blocks(c) - Cardinality(run.alloc_bitmap)
                 /\ num_blocks(c) > 0 => run.alloc_bitmap # {}
      <4>1. run \in CountedRun(c)
        BY <2>3, <3>3, <3>4, Zenon
      <4> QED BY <4>1 DEF CountedRun
    <3> QED BY <2>1, <2>3, <3>2, <3>4, Zenon
  <2>5. CASE c \notin Classes
    <3>1. ch.runs_free = <<>> /\ ch.runs_full = <<>> /\ ch.num_runs = 0
      BY <2>1, <2>2, <2>5, ChunkKinds DEF LargeChunk
    <3>2. <<>> \o <<>> = <<>> /\ Len(<<>>) = 0
      OBVIOUS
    <3>3. Len(all) = 0
      BY <2>1, <3>1, <3>2, Zenon
    <3>4. RunsOf(n) = {}
      BY <2>3, <3>3
    <3> QED BY <2>1, <2>3, <3>1, <3>3, <3>4, Zenon
  <2> QED BY <2>4, <2>5
<1> QED BY <1>1, ArenaCorrect, PTL

\* Until chunk_alloc_small makes a second run over the first one of a chunk, no two
\* clients have the same block of it and the bit of every block held is set.
THEOREM BlocksHaveOneHolder == Spec => []OneHolderUntilFull
<1>1. ArenaInv => OneHolderUntilFull
  <2> SUFFICES ASSUME ArenaInv, NEW p \in Pointer, Holders(p) > 0, ~chunks[p.chunk].overlaid
               PROVE  /\ Holders(p) = 1
                      /\ chunks[p.chunk].large = 0 =>
                           \E run \in RunsOf(p.chunk) : BitOf(p) \in run.alloc_bitmap
    BY Zenon DEF OneHolderUntilFull, BitOf
  <2>1. TypeOK /\ ChunksInOrder /\ Sited
    BY DEF ArenaInv, Placed
  <2>2. /\ Block(p) /\ Holders(p) = 1
        /\ chunks[p.chunk].large = 0 => BitOf(p) \in BitsSet(chunks[p.chunk])
    BY <2>1, SitedFacts
  <2>3. ASSUME chunks[p.chunk].large = 0
        PROVE  \E run \in RunsOf(p.chunk) : BitOf(p) \in run.alloc_bitmap
    <3>1. PICK ch, all, n : n = p.chunk /\ ch = chunks[n] /\ all = ch.runs_free \o ch.runs_full
      OBVIOUS
    <3>2. ch \in AnyChunk /\ ch.large = 0 /\ BitOf(p) \in BitsSet(ch)
      BY <2>1, <2>2, <2>3, <3>1, ChunkAt DEF Block
    <3>3. ch.class \in Classes /\ ch \in CountedChunk(ch.class)
      BY <3>2, ChunkKinds
    <3>4. PICK k \in 1 .. Len(all) : BitOf(p) \in all[k].alloc_bitmap
      <4>1. PICK c : c = ch.class
        OBVIOUS
      <4>2. c \in Classes /\ ch \in CountedChunk(c) /\ all = ch.runs_free \o ch.runs_full
        BY <3>1, <3>3, <4>1, Zenon
      <4>3. \A i \in BitsSet(ch) : \E k \in 1 .. Len(all) : i \in all[k].alloc_bitmap
        BY <4>2, RunsAre
      <4> QED BY <3>2, <4>3, Zenon
    <3>5. RunsOf(n) = {all[m] : m \in 1 .. Len(all)}
      BY <3>1, Zenon DEF Runs, RunsOf
    <3> QED BY <3>1, <3>4, <3>5, Zenon
  <2> QED BY <2>2, <2>3
<1> QED BY <1>1, ArenaCorrect, PTL

\* A free clears one bit at most, in whatever run its guess and its offset lead it to, and
\* an allocation that succeeds sets one: the bitmaps of a chunk of small blocks never show
\* fewer blocks in use than the clients and the calls hold, even when two runs overlie.
THEOREM BitsCoverWhatIsHeld == Spec => []BitsCoverHolders
<1>1. ArenaInv => BitsCoverHolders
  <2> SUFFICES ASSUME ArenaInv, NEW n \in 1 .. Len(chunks), chunks[n].large = 0
               PROVE  HoldersOf(n) <= BitsOf(n)
    BY DEF BitsCoverHolders
  <2>1. n \in 1 .. num_chunks
    BY DEF ArenaInv, ChunksInOrder
  <2>2. HoldersOf(n) <= Bits(chunks[n])
    BY <2>1, Zenon DEF ArenaInv, Placed, Covered
  <2>3. BitsOf(n) = Bits(chunks[n])
    BY DEF BitsOf, Bits, Count
  <2> QED BY <2>2, <2>3, Zenon
<1> QED BY <1>1, ArenaCorrect, PTL
=============================================================================
