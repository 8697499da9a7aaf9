---------------------------- MODULE TcacheProofs ----------------------------
(***************************************************************************)
(* The thread caches for any threads, blocks, capacities and requests: a   *)
(* block is in one place, no bin overflows, a client's block is as large   *)
(* as it asked for, and the allocator knows every cache.                   *)
(***************************************************************************)

EXTENDS Tcache, SequenceTheorems, FiniteSetTheorems, FunctionTheorems, WellFoundedInduction, TLAPS

\* The least number of a set is in it and below the others.
LEMMA LeastIsIn ==
  ASSUME NEW S \in SUBSET Nat, S # {}
  PROVE  Min(S) \in S /\ \A y \in S : Min(S) <= y
<1> DEFINE R == {ss \in Nat \X Nat : ss[1] < ss[2]}
<1>a. IsWellFoundedOn(R, Nat)
  BY NatLessThanWellFounded, Zenon DEF OpToRel
<1>b. \A x, y \in Nat : <<y, x>> \notin R => x <= y
  OBVIOUS
<1> HIDE DEF R
<1>1. PICK x \in S : \A y \in S : <<y, x>> \notin R
  BY <1>a, WFMin, Zenon
<1>2. \A y \in S : x <= y
  BY <1>1, <1>b, Zenon
<1> QED BY <1>2 DEF Min

\* The classes of small blocks, and the entry the table does not name.
LEMMA SmallTable ==
  \A i \in 0 .. NumSmall - 1 :
    /\ small_size_classes[i] \in Nat /\ small_size_classes[i] <= SmallMax
    /\ i = 0 => small_size_classes[i] = 8
    /\ i = 28 => small_size_classes[i] = SmallMax
    /\ \E k \in Nat : small_size_classes[i] = 8 * k
<1> DEFINE Good(v) == v \in Nat /\ v <= SmallMax /\ \E k \in Nat : v = 8 * k
           Entry(i) == small_size_classes[i]
<1>1. \A i \in 1 .. 29 : Good(Small[i])
  <2>1. \A i \in 1 .. 29 : Small[i] \in Nat /\ Small[i] <= SmallMax /\ Small[i] % 8 = 0
    BY DEF Small, SmallMax
  <2>2. \A n \in Nat : n % 8 = 0 => \E k \in Nat : n = 8 * k
    OBVIOUS
  <2> QED BY <2>1, <2>2
<1>2. Small[1] = 8 /\ Small[29] = SmallMax /\ DOMAIN Small = 1 .. 29
  BY DEF Small, SmallMax
<1> HIDE DEF Small
<1>3. \A i \in 0 .. 28 : Entry(i) = Small[i + 1] /\ i + 1 \in 1 .. 29
  BY <1>2 DEF small_size_classes, NumSmall
<1>4. Good(Entry(29))
  <2>1. Entry(29) = 8 * 0
    BY <1>2 DEF small_size_classes, NumSmall
  <2> QED BY <2>1 DEF SmallMax
<1>5. Entry(0) = 8 /\ Entry(28) = SmallMax
  BY <1>2, <1>3
<1> HIDE DEF Good
<1>6. \A i \in 0 .. 28 : Good(Entry(i))
  BY <1>1, <1>3, Zenon
<1>7. \A i \in 0 .. NumSmall - 1 : i = 29 \/ i \in 0 .. 28
  BY DEF NumSmall
<1> HIDE DEF Entry
<1>8. \A i \in 0 .. NumSmall - 1 :
        Good(Entry(i)) /\ (i = 0 => Entry(i) = 8) /\ (i = 28 => Entry(i) = SmallMax)
  BY <1>4, <1>5, <1>6, <1>7
<1> QED BY <1>8, Zenon DEF Good, Entry

\* The medium sizes are multiples of 8 up to the largest.
LEMMA MediumTable ==
  \A i \in 0 .. NumMedium - 1 :
    /\ medium_size_classes[i] \in Nat /\ medium_size_classes[i] <= MediumMax
    /\ i = 16 => medium_size_classes[i] = MediumMax
    /\ \E k \in Nat : medium_size_classes[i] = 8 * k
<1>1. \A i \in 1 .. 17 : Medium[i] \in Nat /\ Medium[i] <= 1048576 /\ Medium[i] % 8 = 0
  BY DEF Medium
<1>2. \A n \in Nat : n % 8 = 0 => \E k \in Nat : n = 8 * k
  OBVIOUS
<1>3. Medium[17] = 1048576
  BY DEF Medium
<1> QED BY <1>1, <1>2, <1>3 DEF medium_size_classes, NumMedium, MediumMax

\* The first entry that a size does not exceed, when the table has one.
LEMMA FirstFitFits ==
  ASSUME NEW n \in Nat, NEW table \in [0 .. n -> Nat], NEW size \in Nat,
         NEW j \in 0 .. n, size <= table[j]
  PROVE  FirstFit(table, size) \in 0 .. n /\ size <= table[FirstFit(table, size)]
<1> DEFINE fit == {i \in DOMAIN table : size <= table[i]}
           all == fit \union {Max(DOMAIN table)}
<1>1. Max(DOMAIN table) = n
  <2>1. n \in DOMAIN table /\ \A y \in DOMAIN table : n >= y
    OBVIOUS
  <2>2. \A x \in DOMAIN table : (\A y \in DOMAIN table : x >= y) => x = n
    BY <2>1
  <2> QED BY <2>1, <2>2 DEF Max
<1>2. all \in SUBSET Nat /\ all # {} /\ j \in fit /\ \A i \in all : i <= n
  BY <1>1
<1>3. FirstFit(table, size) = Min(all)
  BY DEF FirstFit
<1>4. Min(all) \in all /\ \A y \in all : Min(all) <= y
  BY <1>2, LeastIsIn
<1>5. CASE Min(all) \in fit
  BY <1>3, <1>5
<1>6. CASE Min(all) = n
  <2>1. j = n
    BY <1>2, <1>4, <1>6
  <2> QED BY <1>3, <1>6, <2>1
<1> QED BY <1>1, <1>4, <1>5, <1>6

\* The class a request is given has blocks that hold it.
LEMMA ClassHolds ==
  ASSUME NEW size \in Nat \ {0}, ~is_large_class_idx(size_to_class(size))
  PROVE  /\ size_to_class(size) \in Classes
         /\ class_to_size(size_to_class(size)) \in Nat
         /\ class_to_size(size_to_class(size)) >= size
<1> USE DEF NumSmall, NumMedium, NumClasses, SmallMax, MediumMax
<1>1. small_size_classes \in [0 .. 29 -> Nat] /\ medium_size_classes \in [0 .. 16 -> Nat]
  <2>1. DOMAIN small_size_classes = 0 .. 29 /\ DOMAIN medium_size_classes = 0 .. 16
    BY SMT DEF small_size_classes, medium_size_classes
  <2>2. small_size_classes = [i \in 0 .. 29 |-> small_size_classes[i]]
        /\ medium_size_classes = [i \in 0 .. 16 |-> medium_size_classes[i]]
    BY SMT DEF small_size_classes, medium_size_classes
  <2> QED BY <2>2, SmallTable, MediumTable, SMT
<1>2. small_size_classes[28] = 4096 /\ small_size_classes[0] = 8 /\ medium_size_classes[16] = 1048576
  BY SmallTable, MediumTable, SMT
<1>3. CASE size <= 8
  <2>1. size_to_class(size) = 0
    BY <1>3, SMT DEF size_to_class, size_to_class_small
  <2>2. class_to_size(0) = 8
    BY <1>2, SMT DEF class_to_size
  <2> QED BY <1>3, <2>1, <2>2, SMT DEF Classes
<1>4. CASE size > 8 /\ size <= 4096
  <2> DEFINE i == FirstFit(small_size_classes, size)
  <2>1. i \in 0 .. 29 /\ size <= small_size_classes[i]
    <3>1. 28 \in 0 .. 29 /\ 29 \in Nat /\ size \in Nat /\ size <= small_size_classes[28]
      BY <1>2, <1>4, SMT
    <3> QED BY <1>1, <3>1, FirstFitFits, Zenon
  <2>2. size_to_class(size) = i
    BY <1>4, SMT DEF size_to_class, size_to_class_small
  <2> HIDE DEF i
  <2>3. class_to_size(i) = small_size_classes[i]
    BY <2>1, SMT DEF class_to_size
  <2> QED BY <1>1, <2>1, <2>2, <2>3, SMT DEF Classes
<1>5. CASE size > 4096 /\ size <= 1048576
  <2> DEFINE i == FirstFit(medium_size_classes, size)
  <2>1. i \in 0 .. 16 /\ size <= medium_size_classes[i]
    <3>1. 16 \in 0 .. 16 /\ 16 \in Nat /\ size \in Nat /\ size <= medium_size_classes[16]
      BY <1>2, <1>5, SMT
    <3> QED BY <1>1, <3>1, FirstFitFits, Zenon
  <2>2. size_to_class(size) = 30 + i
    BY <1>5, SMT DEF size_to_class, size_to_class_medium
  <2> HIDE DEF i
  <2>3. class_to_size(30 + i) = medium_size_classes[i]
    BY <2>1, SMT DEF class_to_size
  <2> QED BY <1>1, <2>1, <2>2, <2>3, SMT DEF Classes
<1>6. size <= 1048576
  BY SMT DEF is_large_class_idx, size_to_class
<1> QED BY <1>3, <1>4, <1>5, <1>6, SMT

\* Every size is a multiple of that of the first class.
LEMMA ClassSizes ==
  ASSUME NEW c \in Classes
  PROVE  class_to_size(c) \in Nat /\ class_to_size(0) = 8 /\ \E k \in Nat : class_to_size(c) = 8 * k
<1> USE DEF NumSmall, NumMedium, NumClasses
<1>1. class_to_size(0) = 8
  BY SmallTable, SMT DEF class_to_size
<1>2. CASE c < 30
  <2>1. c \in 0 .. 29 /\ class_to_size(c) = small_size_classes[c]
    BY <1>2, SMT DEF class_to_size, Classes
  <2> QED BY <1>1, <2>1, SmallTable, SMT
<1>3. CASE c >= 30
  <2>1. c - 30 \in 0 .. 16 /\ class_to_size(c) = medium_size_classes[c - 30]
    BY <1>3, SMT DEF class_to_size, Classes
  <2> QED BY <1>1, <2>1, MediumTable, SMT
<1> QED BY <1>2, <1>3, SMT DEF Classes

\* So the class that tcache_free guesses from an offset is always the first, and
\* has the smallest blocks of all.
LEMMA FreeClass ==
  ASSUME NEW o \in Nat
  PROVE  /\ ClassOf(o) = 0 /\ 0 \in Classes
         /\ \A c \in Classes : class_to_size(c) > 0 => class_to_size(0) <= class_to_size(c)
<1>1. 0 \in Classes /\ Classes \subseteq Nat
  BY DEF Classes, NumClasses, NumSmall, NumMedium
<1>2. \A c \in Classes : class_to_size(c) > 0 => class_to_size(0) <= class_to_size(c)
  BY ClassSizes, SMT
<1> DEFINE possible == {c \in Classes : class_to_size(c) # 0 /\ o % class_to_size(c) = 0}
<1>3. ASSUME possible # {} PROVE 0 \in possible
  <2>1. PICK c \in possible : TRUE
    BY <1>3
  <2>2. PICK k \in Nat : class_to_size(c) = 8 * k
    BY <2>1, ClassSizes
  <2>3. k # 0 /\ o % (8 * k) = 0
    BY <2>1, <2>2
  <2>4. o = (8 * k) * (o \div (8 * k)) /\ o \div (8 * k) \in Nat
    BY <2>2, <2>3, SMT
  <2> DEFINE q == o \div (8 * k)
  <2>5. (8 * k) * q = 8 * (k * q) /\ k * q \in Nat
    BY <2>2, <2>4, SMT
  <2> HIDE DEF q
  <2>6. \A m \in Nat : (8 * m) % 8 = 0
    BY SMT
  <2>7. o % 8 = 0
    BY <2>4, <2>5, <2>6 DEF q
  <2> QED BY <1>1, <2>7, ClassSizes
<1>4. possible # {} => Min(possible) = 0
  <2> SUFFICES ASSUME possible # {} PROVE Min(possible) = 0
    OBVIOUS
  <2>1. possible \in SUBSET Nat
    BY <1>1
  <2>2. Min(possible) \in possible /\ \A y \in possible : Min(possible) <= y
    BY <2>1, LeastIsIn
  <2>3. Min(possible) \in Nat /\ Min(possible) <= 0
    BY <1>3, <2>1, <2>2, Zenon
  <2> QED BY <2>3
<1>5. ClassOf(o) = 0
  BY <1>4 DEF ClassOf
<1> QED BY <1>1, <1>2, <1>5

-----------------------------------------------------------------------------

Caches == [Classes -> Seq(Blocks)]

Shape ==
  /\ arena \subseteq Blocks /\ num_arenas \in {0, 1}
  /\ bins \in [Threads -> {<<>>} \union Caches]
  /\ tcaches \in [0 .. MAX_THREADS - 1 -> Threads \union {NULL}]
  /\ counter \in Nat
  /\ DOMAIN request \subseteq Blocks /\ request \in [DOMAIN request -> Sizes]

\* A block is in the bin of a thread's cache for a class.
InBin(b, t, c) == HasCache(t) /\ b \in Range(bins[t][c])

\* One bin has it at most, and no bin has what the arena or a client has.
PlaceInv ==
  /\ \A b \in Blocks, t \in Threads, c \in Classes : InBin(b, t, c) =>
       /\ b \notin arena /\ b \notin DOMAIN request
       /\ \A u \in Threads, d \in Classes : InBin(b, u, d) => t = u /\ c = d
  /\ \A t \in Threads, c \in Classes : HasCache(t) => IsInjective(bins[t][c])
  /\ DOMAIN request \intersect arena = {}

\* Every block of a bin can serve the class of the bin.
BinsServe ==
  \A b \in Blocks, t \in Threads, c \in Classes : InBin(b, t, c) =>
    class_to_size(c) <= class_to_size(BlockClass[b])

\* What is registered is a cache, once, at an index that was drawn; and while there
\* were indices for all of them, every cache is.
RegisteredInv ==
  /\ \A i \in DOMAIN tcaches : tcaches[i] # NULL => HasCache(tcaches[i]) /\ i <= counter
  /\ \A i, j \in DOMAIN tcaches : tcaches[i] = tcaches[j] /\ tcaches[i] # NULL => i = j
  /\ counter < MAX_THREADS => \A t \in Threads : HasCache(t) => \E i \in DOMAIN tcaches : tcaches[i] = t

\* No block is lost.
KeptInv ==
  \A b \in Blocks :
    b \in arena \/ b \in DOMAIN request \/ \E t \in Threads, c \in Classes : InBin(b, t, c)

\* An arena without a chunk has given nothing, and there is none with a chunk after
\* a shutdown.
LifeInv == (chunked \/ arena = Blocks) /\ (num_arenas = 0 => ~chunked)

TcacheInv ==
  /\ Shape /\ PlaceInv /\ KeptInv /\ LifeInv
  /\ BinsBounded /\ BinsServe /\ Fits /\ RegisteredInv

\* A cache with no bins is told from a function on the classes by its domain.
LEMMA CacheIsNone ==
  ASSUME NEW S, NEW f \in [Classes -> S]
  PROVE  f # <<>>
<1>1. 0 \in DOMAIN f
  BY FreeClass DEF Classes, NumClasses, NumSmall, NumMedium
<1>2. DOMAIN <<>> = {}
  OBVIOUS
<1> QED BY <1>1, <1>2

\* What is in a list is at some place of it.
LEMMA InRange ==
  ASSUME NEW s \in Seq(Blocks), NEW b
  PROVE  (b \in Range(s) <=> \E i \in 1 .. Len(s) : s[i] = b) /\ Range(s) \subseteq Blocks
  BY DEF Range

\* The invariant holds before the allocator is initialized.
LEMMA TcacheInit == Init => TcacheInv
<1> SUFFICES ASSUME Init PROVE TcacheInv
  OBVIOUS
<1>1. /\ arena = Blocks /\ num_arenas = 1 /\ bins = [t \in Threads |-> <<>>]
      /\ tcaches = [i \in 0 .. MAX_THREADS - 1 |-> NULL] /\ counter = 0 /\ request = <<>>
  BY DEF Init
<1>2. \A t \in Threads : ~HasCache(t)
  BY <1>1 DEF HasCache
<1>3. DOMAIN request = {}
  BY <1>1
<1>4. Shape
  BY <1>1, <1>3 DEF Shape
<1>5. PlaceInv /\ BinsServe /\ BinsBounded
  BY <1>2, <1>3 DEF PlaceInv, BinsServe, BinsBounded, InBin
<1>6. Fits
  BY <1>3 DEF Fits
<1>7. RegisteredInv
  BY <1>1, <1>2 DEF RegisteredInv
<1>8. KeptInv /\ LifeInv
  BY <1>1 DEF KeptInv, LifeInv
<1> QED BY <1>4, <1>5, <1>6, <1>7, <1>8 DEF TcacheInv

\* A cached block comes and goes with the bin it is in.
LEMMA BinMoves ==
  ASSUME TcacheInv, NEW t \in Threads, NEW c \in Classes, HasCache(t), NEW s \in Seq(Blocks),
         bins' = [bins EXCEPT ![t][c] = s],
         IsInjective(s), Len(s) <= Capacity(c),
         \A b \in Range(s) :
           /\ b \in Range(bins[t][c]) \union arena \union DOMAIN request
           /\ b \notin arena' /\ b \notin DOMAIN request'
           /\ class_to_size(c) <= class_to_size(BlockClass[b]),
         arena' \subseteq arena \union Range(bins[t][c]) \union DOMAIN request,
         DOMAIN request' \subseteq DOMAIN request \union Range(bins[t][c]),
         DOMAIN request' \intersect arena' = {},
         request' \in [DOMAIN request' -> Sizes],
         \A b \in DOMAIN request' : class_to_size(BlockClass[b]) >= request'[b],
         \A b \in arena \union Range(bins[t][c]) \union DOMAIN request :
           b \in arena' \union Range(s) \union DOMAIN request',
         LifeInv',
         UNCHANGED <<num_arenas, tcaches, counter>>
  PROVE  TcacheInv'
<1>0. Shape /\ PlaceInv /\ KeptInv /\ BinsBounded /\ BinsServe /\ RegisteredInv
  BY DEF TcacheInv
<1>1. /\ bins[t] \in Caches
      /\ bins'[t] = [bins[t] EXCEPT ![c] = s]
      /\ \A u \in Threads \ {t} : bins'[u] = bins[u]
  BY <1>0 DEF Shape, HasCache
<1>2. bins'[t] \in Caches
  BY <1>1 DEF Caches
<1>3. bins' \in [Threads -> {<<>>} \union Caches]
  <2>1. bins' = [u \in Threads |-> bins'[u]]
    BY <1>0 DEF Shape
  <2>2. \A u \in Threads : bins'[u] \in {<<>>} \union Caches
    BY <1>0, <1>1, <1>2 DEF Shape
  <2> QED BY <2>1, <2>2
<1>4. \A u \in Threads : HasCache(u)' <=> HasCache(u)
  BY <1>1, <1>2, CacheIsNone DEF HasCache, Caches
<1>5. bins'[t][c] = s /\ \A d \in Classes \ {c} : bins'[t][d] = bins[t][d]
  BY <1>1 DEF Caches
<1>6. Range(bins[t][c]) \subseteq Blocks /\ Range(s) \subseteq Blocks
  <2>1. bins[t][c] \in Seq(Blocks)
    BY <1>1 DEF Caches
  <2> QED BY <2>1, InRange
<1>7. Shape'
  <2>1. arena' \subseteq Blocks /\ DOMAIN request' \subseteq Blocks
    BY <1>0, <1>6 DEF Shape
  <2> QED BY <1>0, <1>3, <2>1 DEF Shape
<1>8. ASSUME NEW b \in Blocks, NEW u \in Threads, NEW d \in Classes, InBin(b, u, d)'
      PROVE  \/ InBin(b, u, d) /\ ~(u = t /\ d = c)
             \/ b \in Range(s) /\ u = t /\ d = c
  <2>1. HasCache(u) /\ b \in Range(bins'[u][d])
    BY <1>4, <1>8 DEF InBin
  <2>2. CASE u = t /\ d = c
    BY <1>5, <2>1, <2>2
  <2>3. CASE ~(u = t /\ d = c)
    <3>1. bins'[u][d] = bins[u][d]
      BY <1>1, <1>5, <2>3
    <3> QED BY <2>1, <2>3, <3>1 DEF InBin
  <2> QED BY <2>2, <2>3
<1>9. \A b \in Blocks : b \in Range(bins[t][c]) => InBin(b, t, c)
  BY DEF InBin
<1>10. PlaceInv'
  <2>1. ASSUME NEW b \in Blocks, NEW u \in Threads, NEW d \in Classes, InBin(b, u, d), ~(u = t /\ d = c)
        PROVE  b \notin Range(s) /\ b \notin arena' /\ b \notin DOMAIN request'
    <3>1. b \notin arena /\ b \notin DOMAIN request /\ ~InBin(b, t, c)
      BY <1>0, <2>1 DEF PlaceInv
    <3>2. b \notin Range(bins[t][c])
      BY <1>9, <3>1
    <3> QED BY <3>1, <3>2
  <2>2. ASSUME NEW b \in Blocks, NEW u \in Threads, NEW d \in Classes, InBin(b, u, d)'
        PROVE  /\ b \notin arena' /\ b \notin DOMAIN request'
               /\ \A v \in Threads, e \in Classes : InBin(b, v, e)' => u = v /\ d = e
    <3>1. b \notin arena' /\ b \notin DOMAIN request'
      BY <1>8, <2>1, <2>2
    <3>2. ASSUME NEW v \in Threads, NEW e \in Classes, InBin(b, v, e)' PROVE u = v /\ d = e
      <4>1. CASE InBin(b, u, d) /\ ~(u = t /\ d = c)
        <5>1. b \notin Range(s)
          BY <2>1, <4>1
        <5>2. InBin(b, v, e)
          BY <1>8, <3>2, <5>1
        <5> QED BY <1>0, <4>1, <5>2 DEF PlaceInv
      <4>2. CASE b \in Range(s) /\ u = t /\ d = c
        <5>1. ~(InBin(b, v, e) /\ ~(v = t /\ e = c))
          BY <2>1, <4>2
        <5> QED BY <1>8, <3>2, <4>2, <5>1
      <4> QED BY <1>8, <2>2, <4>1, <4>2
    <3> QED BY <3>1, <3>2
  <2>3. \A u \in Threads, d \in Classes : HasCache(u)' => IsInjective(bins'[u][d])
    BY <1>0, <1>1, <1>4, <1>5 DEF PlaceInv
  <2> QED BY <2>2, <2>3 DEF PlaceInv
<1>11. BinsBounded'
  BY <1>0, <1>1, <1>4, <1>5 DEF BinsBounded
<1>12. BinsServe'
  BY <1>0, <1>8 DEF BinsServe
<1>13. Fits'
  BY <1>0 DEF Fits
<1>14. RegisteredInv'
  BY <1>0, <1>4 DEF RegisteredInv, Shape
<1>15. KeptInv'
  <2> SUFFICES ASSUME NEW b \in Blocks
               PROVE  \/ b \in arena' \/ b \in DOMAIN request'
                      \/ \E u \in Threads, d \in Classes : InBin(b, u, d)'
    BY DEF KeptInv
  <2>1. CASE b \in arena \/ b \in DOMAIN request \/ b \in Range(bins[t][c])
    <3>1. b \in arena' \/ b \in DOMAIN request' \/ b \in Range(s)
      BY <2>1
    <3>2. b \in Range(s) => InBin(b, t, c)'
      BY <1>4, <1>5 DEF InBin
    <3> QED BY <3>1, <3>2
  <2>2. CASE \E u \in Threads, d \in Classes : InBin(b, u, d) /\ ~(u = t /\ d = c)
    <3>1. PICK u \in Threads, d \in Classes : InBin(b, u, d) /\ ~(u = t /\ d = c)
      BY <2>2
    <3>2. bins'[u][d] = bins[u][d]
      BY <1>1, <1>5, <3>1
    <3> QED BY <1>4, <3>1, <3>2 DEF InBin
  <2> QED BY <1>0, <2>1, <2>2 DEF KeptInv, InBin
<1> QED BY <1>7, <1>10, <1>11, <1>12, <1>13, <1>14, <1>15 DEF TcacheInv

-----------------------------------------------------------------------------

\* A bin cut in two.
LEMMA CutBin ==
  ASSUME NEW s \in Seq(Blocks), IsInjective(s), NEW k \in 0 .. Len(s)
  PROVE  LET lower == SubSeq(s, 1, k)
             upper == SubSeq(s, k + 1, Len(s))
         IN /\ lower \in Seq(Blocks) /\ Len(lower) = k /\ IsInjective(lower)
            /\ Range(lower) \subseteq Range(s) /\ Range(upper) \subseteq Range(s)
            /\ Range(lower) \intersect Range(upper) = {}
            /\ Range(s) = Range(lower) \union Range(upper)
<1> DEFINE lower == SubSeq(s, 1, k)
           upper == SubSeq(s, k + 1, Len(s))
<1>0. Len(s) \in Nat /\ DOMAIN s = 1 .. Len(s)
  OBVIOUS
<1>1. lower \in Seq(Blocks) /\ Len(lower) = k /\ \A i \in 1 .. k : lower[i] = s[i] /\ i \in 1 .. Len(s)
  BY <1>0, SubSeqProperties
<1>2. upper \in Seq(Blocks) /\ Len(upper) = Len(s) - k
      /\ \A i \in 1 .. Len(s) - k : upper[i] = s[k + i] /\ k + i \in 1 .. Len(s)
  <2>1. k + 1 \in Int /\ Len(s) \in Int /\ \A i \in k + 1 .. Len(s) : s[i] \in Blocks
    BY <1>0
  <2>2. /\ upper \in Seq(Blocks) /\ Len(upper) = IF k + 1 <= Len(s) THEN Len(s) - (k + 1) + 1 ELSE 0
        /\ \A i \in 1 .. Len(s) - (k + 1) + 1 : upper[i] = s[k + 1 + i - 1]
    BY <2>1, SubSeqProperties
  <2>3. Len(s) - (k + 1) + 1 = Len(s) - k /\ \A i \in Int : k + 1 + i - 1 = k + i
    BY <1>0
  <2>4. \A i \in 1 .. Len(s) - k : k + i \in 1 .. Len(s) /\ i \in Int
    BY <1>0
  <2> HIDE DEF upper
  <2>5. Len(upper) = Len(s) - k
    <3>1. \A n \in Nat : \A i \in 0 .. n : (IF i + 1 <= n THEN n - (i + 1) + 1 ELSE 0) = n - i
      OBVIOUS
    <3> QED BY <1>0, <2>2, <3>1, Zenon
  <2> QED BY <2>2, <2>3, <2>4, <2>5
<1> HIDE DEF lower, upper
<1>3. IsInjective(lower)
  BY <1>0, <1>1 DEF IsInjective
<1>4. ASSUME NEW b \in Range(lower) PROVE b \in Range(s) /\ b \notin Range(upper)
  <2>1. PICK i \in 1 .. k : lower[i] = b
    BY <1>1, <1>4, InRange
  <2>2. ASSUME NEW j \in 1 .. Len(s) - k, upper[j] = b PROVE FALSE
    <3>1. k + j \in DOMAIN s /\ i \in DOMAIN s /\ s[k + j] = s[i] /\ k + j # i
      BY <1>0, <1>1, <1>2, <2>1, <2>2
    <3> QED BY <3>1 DEF IsInjective
  <2>3. b \notin Range(upper)
    BY <1>2, <2>2, InRange
  <2> QED BY <1>1, <2>1, <2>3, InRange
<1>5. ASSUME NEW b \in Range(upper) PROVE b \in Range(s)
  <2>1. PICK j \in 1 .. Len(s) - k : upper[j] = b
    BY <1>2, <1>5, InRange
  <2> QED BY <1>2, <2>1, InRange
<1>6. ASSUME NEW b \in Range(s) PROVE b \in Range(lower) \/ b \in Range(upper)
  <2>1. PICK i \in 1 .. Len(s) : s[i] = b
    BY <1>6, InRange
  <2>2. CASE i <= k
    BY <1>1, <2>1, <2>2, InRange
  <2>3. CASE i > k
    <3>1. PICK j : j = i - k
      OBVIOUS
    <3>2. j \in 1 .. Len(s) - k /\ k + j = i
      BY <1>0, <2>1, <2>3, <3>1
    <3>3. upper[j] = b /\ j \in 1 .. Len(upper)
      BY <1>2, <2>1, <3>2
    <3> QED BY <1>2, <3>3, InRange
  <2> QED BY <2>1, <2>2, <2>3
<1>7. Range(s) = Range(lower) \union Range(upper)
  BY <1>4, <1>5, <1>6
<1> QED BY <1>1, <1>3, <1>4, <1>5, <1>7 DEF lower, upper

\* What tcache_alloc takes is the last, and then no more in the bin.
LEMMA PopBin ==
  ASSUME NEW s \in Seq(Blocks), IsInjective(s), s # <<>>
  PROVE  /\ Front(s) \in Seq(Blocks) /\ Len(Front(s)) = Len(s) - 1 /\ IsInjective(Front(s))
         /\ Range(Front(s)) \subseteq Range(s) /\ Last(s) \in Range(s)
         /\ Last(s) \notin Range(Front(s))
         /\ \A x \in Range(s) : x \in Range(Front(s)) \/ x = Last(s)
<1>1. Len(s) \in Nat \ {0} /\ Len(s) - 1 \in 0 .. Len(s)
  OBVIOUS
<1>2. Last(s) \in Range(s)
  BY <1>1, InRange DEF Last
<1>3. /\ Front(s) \in Seq(Blocks) /\ Len(Front(s)) = Len(s) - 1 /\ IsInjective(Front(s))
      /\ Range(Front(s)) \subseteq Range(s)
  BY <1>1, CutBin DEF Front
<1>4. Last(s) \notin Range(Front(s))
  <2>1. \A i \in 1 .. Len(s) - 1 : Front(s)[i] = s[i]
    BY <1>1, SubSeqProperties DEF Front
  <2>2. \A i \in 1 .. Len(s) - 1 : s[i] # s[Len(s)]
    BY <1>1 DEF IsInjective
  <2> QED BY <1>3, <2>1, <2>2, InRange DEF Last
<1>5. ASSUME NEW x \in Range(s), x # Last(s) PROVE x \in Range(Front(s))
  <2>1. PICK i \in 1 .. Len(s) : s[i] = x
    BY <1>5, InRange
  <2>2. i \in 1 .. Len(s) - 1
    BY <1>1, <1>5, <2>1 DEF Last
  <2>3. Front(s)[i] = s[i]
    BY <1>1, <2>2, SubSeqProperties DEF Front
  <2>4. i \in 1 .. Len(Front(s))
    BY <1>3, <2>2
  <2> QED BY <1>3, <2>1, <2>3, <2>4, InRange
<1> QED BY <1>2, <1>3, <1>4, <1>5

\* Blocks that are not in the bin are put on top of it.
LEMMA PushBin ==
  ASSUME NEW s \in Seq(Blocks), IsInjective(s), NEW o \in Seq(Blocks), IsInjective(o),
         Range(s) \intersect Range(o) = {}
  PROVE  /\ s \o o \in Seq(Blocks) /\ Len(s \o o) = Len(s) + Len(o) /\ IsInjective(s \o o)
         /\ Range(s \o o) = Range(s) \union Range(o)
<1> DEFINE r == s \o o
<1>1. /\ r \in Seq(Blocks) /\ Len(r) = Len(s) + Len(o) /\ Len(s) \in Nat /\ Len(o) \in Nat
      /\ \A i \in 1 .. Len(r) : r[i] = IF i <= Len(s) THEN s[i] ELSE o[i - Len(s)]
  BY ConcatProperties
<1> HIDE DEF r
<1>2. \A i \in 1 .. Len(r) : i \in 1 .. Len(s) \/ i - Len(s) \in 1 .. Len(o)
  BY <1>1
<1>3. \A i \in 1 .. Len(s), j \in 1 .. Len(o) : s[i] # o[j]
  BY InRange
<1>4. IsInjective(r)
  <2>1. DOMAIN r = 1 .. Len(r) /\ DOMAIN s = 1 .. Len(s) /\ DOMAIN o = 1 .. Len(o)
    BY <1>1
  <2> SUFFICES ASSUME NEW i \in 1 .. Len(r), NEW j \in 1 .. Len(r), r[i] = r[j] PROVE i = j
    BY <2>1 DEF IsInjective
  <2>2. CASE i <= Len(s) /\ j <= Len(s)
    BY <1>1, <2>1, <2>2 DEF IsInjective
  <2>3. CASE i > Len(s) /\ j > Len(s)
    <3>1. i - Len(s) \in 1 .. Len(o) /\ j - Len(s) \in 1 .. Len(o) /\ o[i - Len(s)] = o[j - Len(s)]
      BY <1>1, <2>3
    <3>2. i - Len(s) = j - Len(s)
      BY <2>1, <3>1 DEF IsInjective
    <3> QED BY <1>1, <3>2
  <2>4. \A l, m \in 1 .. Len(r) : l <= Len(s) /\ m > Len(s) => r[l] # r[m]
    <3> SUFFICES ASSUME NEW l \in 1 .. Len(r), NEW m \in 1 .. Len(r), l <= Len(s), m > Len(s)
                 PROVE  r[l] # r[m]
      OBVIOUS
    <3>1. l \in 1 .. Len(s) /\ m - Len(s) \in 1 .. Len(o)
      BY <1>1
    <3>2. r[l] = s[l] /\ r[m] = o[m - Len(s)]
      BY <1>1
    <3> QED BY <1>3, <3>1, <3>2
  <2> QED BY <1>1, <2>2, <2>3, <2>4
<1>5. ASSUME NEW b PROVE b \in Range(r) <=> b \in Range(s) \/ b \in Range(o)
  <2>1. b \in Range(r) => b \in Range(s) \/ b \in Range(o)
    BY <1>1, <1>2, InRange
  <2>2. ASSUME b \in Range(s) PROVE b \in Range(r)
    <3>1. PICK i \in 1 .. Len(s) : s[i] = b
      BY <2>2, InRange
    <3> QED BY <1>1, <3>1, InRange
  <2>3. ASSUME b \in Range(o) PROVE b \in Range(r)
    <3>1. PICK j \in 1 .. Len(o) : o[j] = b
      BY <2>3, InRange
    <3>2. Len(s) + j \in 1 .. Len(r) /\ r[Len(s) + j] = b
      <4> DEFINE i == Len(s) + j
      <4>1. i \in 1 .. Len(r) /\ ~(i <= Len(s)) /\ i - Len(s) = j
        BY <1>1, <3>1
      <4> HIDE DEF i
      <4>2. r[i] = o[j]
        BY <1>1, <4>1
      <4> QED BY <3>1, <4>1, <4>2 DEF i
    <3> QED BY <1>1, <3>2, InRange
  <2> QED BY <2>1, <2>2, <2>3
<1>6. Range(r) = Range(s) \union Range(o)
  BY <1>5
<1> QED BY <1>1, <1>4, <1>6 DEF r

-----------------------------------------------------------------------------

\* What the steps need of the state and of the constants.
LEMMA CacheFacts ==
  ASSUME TcacheInv, NEW t \in Threads, HasCache(t), NEW c \in Classes
  PROVE  /\ bins[t][c] \in Seq(Blocks) /\ IsInjective(bins[t][c]) /\ Len(bins[t][c]) <= Capacity(c)
         /\ Range(bins[t][c]) \subseteq Blocks
         /\ \A b \in Range(bins[t][c]) : /\ b \notin arena /\ b \notin DOMAIN request
                                       /\ class_to_size(c) <= class_to_size(BlockClass[b])
<1>1. bins[t][c] \in Seq(Blocks)
  BY DEF TcacheInv, Shape, HasCache, Caches
<1>2. Range(bins[t][c]) \subseteq Blocks
  BY <1>1, InRange
<1>3. IsInjective(bins[t][c]) /\ Len(bins[t][c]) <= Capacity(c)
  BY DEF TcacheInv, PlaceInv, BinsBounded
<1>4. ASSUME NEW b \in Range(bins[t][c])
      PROVE  b \notin arena /\ b \notin DOMAIN request /\ class_to_size(c) <= class_to_size(BlockClass[b])
  <2>1. b \in Blocks /\ InBin(b, t, c)
    BY <1>2, <1>4 DEF InBin
  <2> QED BY <2>1 DEF TcacheInv, PlaceInv, BinsServe
<1> QED BY <1>1, <1>2, <1>3, <1>4

\* Bins have room for a block.
LEMMA CapacityPositive ==
  /\ \A c \in Classes : Capacity(c) \in Nat \ {0}
  /\ FillLimit \in Nat
  BY TcacheAssumption DEF Capacity, FillLimit

\* A request that a cache can serve has a class of its own.
LEMMA RequestClass ==
  ASSUME NEW t \in Threads, NEW size \in Sizes, Serves(t, size)
  PROVE  /\ HasCache(t) /\ size_to_class(size) \in Classes
         /\ class_to_size(size_to_class(size)) \in Nat /\ class_to_size(size_to_class(size)) >= size
         /\ Bin(t, size) = bins[t][size_to_class(size)] /\ size \in Nat
  BY TcacheAssumption, ClassHolds DEF Serves, Bin

\* A block is of a class with a positive size.
LEMMA BlockFacts ==
  ASSUME NEW b \in Blocks
  PROVE  /\ BlockClass[b] \in Classes /\ class_to_size(BlockClass[b]) \in Nat
         /\ class_to_size(BlockClass[b]) > 0 /\ Offset[b] \in Nat
<1>1. BlockClass[b] \in Classes
  BY TcacheAssumption DEF Classes
<1> QED BY <1>1, TcacheAssumption, ClassSizes

\* A cached block goes to a client whose request it serves.
LEMMA AllocKeeps ==
  ASSUME TcacheInv, NEW t \in Threads, NEW size \in Sizes, tcache_alloc(t, size)
  PROVE  TcacheInv'
<1> DEFINE c == size_to_class(size)
           s == bins[t][c]
           b == Last(s)
<1>1. /\ HasCache(t) /\ c \in Classes /\ s # <<>> /\ class_to_size(c) \in Nat /\ class_to_size(c) >= size
      /\ size \in Nat
      /\ request' = Given(b, size) /\ bins' = [bins EXCEPT ![t][c] = Front(s)]
      /\ UNCHANGED <<arena, num_arenas, tcaches, counter>>
  BY RequestClass DEF tcache_alloc, Put, Serves, Life
<1> HIDE DEF c
<1>2. /\ s \in Seq(Blocks) /\ IsInjective(s) /\ Len(s) <= Capacity(c) /\ Range(s) \subseteq Blocks
      /\ \A x \in Range(s) : /\ x \notin arena /\ x \notin DOMAIN request
                            /\ class_to_size(c) <= class_to_size(BlockClass[x])
  BY <1>1, CacheFacts
<1>3. /\ Front(s) \in Seq(Blocks) /\ Len(Front(s)) = Len(s) - 1 /\ IsInjective(Front(s))
      /\ Range(Front(s)) \subseteq Range(s) /\ b \in Range(s) /\ b \notin Range(Front(s))
  BY <1>1, <1>2, PopBin
<1> HIDE DEF s, b
<1>4. /\ DOMAIN request' = DOMAIN request \union {b} /\ request'[b] = size
      /\ \A x \in DOMAIN request \ {b} : request'[x] = request[x]
  BY <1>1 DEF Given
<1>5. Shape /\ PlaceInv /\ Fits
  BY DEF TcacheInv
<1>6. request' \in [DOMAIN request' -> Sizes]
  BY <1>1, <1>5 DEF Given, Shape
<1>7. class_to_size(BlockClass[b]) >= size
  BY <1>1, <1>2, <1>3, BlockFacts
<1>8. \A x \in DOMAIN request' : class_to_size(BlockClass[x]) >= request'[x]
  BY <1>4, <1>5, <1>7 DEF Fits
<1>9. Len(Front(s)) <= Capacity(c)
  BY <1>1, <1>2, <1>3, CapacityPositive
<1>10. DOMAIN request' \intersect arena' = {}
  BY <1>1, <1>2, <1>3, <1>4, <1>5 DEF PlaceInv
<1>11. \A x \in Range(Front(s)) :
         /\ x \in Range(s) \union arena \union DOMAIN request
         /\ x \notin arena' /\ x \notin DOMAIN request'
         /\ class_to_size(c) <= class_to_size(BlockClass[x])
  BY <1>1, <1>2, <1>3, <1>4
<1>12. /\ arena' \subseteq arena \union Range(s) \union DOMAIN request
       /\ DOMAIN request' \subseteq DOMAIN request \union Range(s)
       /\ UNCHANGED <<num_arenas, tcaches, counter>>
  BY <1>1, <1>2, <1>3, <1>4
<1>13. \A q : q = Front(s) => bins' = [bins EXCEPT ![t][c] = q]
  BY <1>1 DEF s
<1>14. \A x \in Range(s) : x \in Range(Front(s)) \/ x = b
  BY <1>1, <1>2, PopBin DEF s, b
<1>15. \A x \in arena \union Range(s) \union DOMAIN request :
         x \in arena' \union Range(Front(s)) \union DOMAIN request'
  BY <1>1, <1>4, <1>14
<1>16. LifeInv'
  BY DEF tcache_alloc, TcacheInv, LifeInv, Life
<1> QED BY <1>1, <1>3, <1>6, <1>8, <1>9, <1>10, <1>11, <1>12, <1>13, <1>15, <1>16, BinMoves DEF s

\* A client's block goes to the first bin, which has the smallest class.
LEMMA FreeKeeps ==
  ASSUME TcacheInv, NEW t \in Threads, NEW b \in Blocks, tcache_free(t, b)
  PROVE  TcacheInv'
<1>0. Shape /\ PlaceInv /\ Fits
  BY DEF TcacheInv
<1>1. ClassOf(Offset[b]) = 0 /\ 0 \in Classes
  BY BlockFacts, FreeClass
<1> DEFINE s == bins[t][0]
           r == s \o <<b>>
<1>2. /\ HasCache(t) /\ b \in DOMAIN request /\ Len(s) < Capacity(0)
      /\ bins' = [bins EXCEPT ![t][0] = Append(s, b)]
      /\ request' = Freed(b)
      /\ UNCHANGED <<arena, num_arenas, tcaches, counter>>
  BY <1>1 DEF tcache_free, Put, Life
<1>3. /\ s \in Seq(Blocks) /\ IsInjective(s) /\ Range(s) \subseteq Blocks
      /\ \A x \in Range(s) : /\ x \notin arena /\ x \notin DOMAIN request
                            /\ class_to_size(0) <= class_to_size(BlockClass[x])
  BY <1>1, <1>2, CacheFacts
<1>4. <<b>> \in Seq(Blocks) /\ Len(<<b>>) = 1 /\ IsInjective(<<b>>) /\ Range(<<b>>) = {b}
  BY DEF IsInjective, Range
<1>5. b \notin Range(s) /\ b \notin arena
  BY <1>0, <1>2, <1>3 DEF PlaceInv
<1>6. Range(s) \intersect Range(<<b>>) = {}
  BY <1>4, <1>5
<1>7. /\ r \in Seq(Blocks) /\ Len(r) = Len(s) + 1 /\ IsInjective(r) /\ Range(r) = Range(s) \union {b}
  BY <1>3, <1>4, <1>6, PushBin
<1>8. Append(s, b) = r
  BY <1>3, AppendIsConcat
<1>a. bins' = [bins EXCEPT ![t][0] = r]
  BY <1>2, <1>8
<1> HIDE DEF r
<1>9. Len(r) <= Capacity(0)
  BY <1>1, <1>2, <1>3, <1>7, CapacityPositive
<1>10. class_to_size(0) <= class_to_size(BlockClass[b])
  BY BlockFacts, FreeClass
<1>11. /\ DOMAIN request' = DOMAIN request \ {b}
       /\ \A x \in DOMAIN request' : request'[x] = request[x]
       /\ request' \in [DOMAIN request' -> Sizes]
  BY <1>0, <1>2 DEF Freed, Restrict, Shape
<1>12. \A x \in DOMAIN request' : class_to_size(BlockClass[x]) >= request'[x]
  BY <1>0, <1>11 DEF Fits
<1>13. \A x \in Range(r) :
         /\ x \in Range(s) \union arena \union DOMAIN request
         /\ x \notin arena' /\ x \notin DOMAIN request'
         /\ class_to_size(0) <= class_to_size(BlockClass[x])
  BY <1>2, <1>3, <1>5, <1>7, <1>10, <1>11
<1>14. /\ arena' \subseteq arena \union Range(s) \union DOMAIN request
       /\ DOMAIN request' \subseteq DOMAIN request \union Range(s)
       /\ DOMAIN request' \intersect arena' = {}
  BY <1>0, <1>2, <1>11 DEF PlaceInv
<1>15. UNCHANGED <<num_arenas, tcaches, counter>> /\ HasCache(t)
  BY <1>2
<1>16. \A x \in arena \union Range(s) \union DOMAIN request :
         x \in arena' \union Range(r) \union DOMAIN request'
  BY <1>2, <1>7, <1>11
<1>17. LifeInv'
  BY DEF tcache_free, TcacheInv, LifeInv, Life
<1> QED BY <1>1, <1>7, <1>a, <1>9, <1>11, <1>12, <1>13, <1>14, <1>15, <1>16, <1>17, BinMoves

\* The sequences tcache_fill puts on the bin.
LEMMA Orders ==
  ASSUME NEW taken \in SUBSET Blocks, NEW order \in SetToSeqs(taken)
  PROVE  /\ order \in Seq(Blocks) /\ Len(order) = Cardinality(taken) /\ Cardinality(taken) \in Nat
         /\ IsInjective(order) /\ Range(order) = taken
<1>1. Cardinality(taken) \in Nat
  BY TcacheAssumption, FS_Subset, FS_CardinalityType
<1>2. order \in [1 .. Cardinality(taken) -> taken]
      /\ \A i, j \in 1 .. Cardinality(taken) : i # j => order[i] # order[j]
  BY DEF SetToSeqs
<1>3. order \in Seq(Blocks) /\ Len(order) = Cardinality(taken)
  <2>1. order \in [1 .. Cardinality(taken) -> Blocks]
    BY <1>2
  <2> QED BY <1>1, <2>1, IsASeq
<1>4. IsInjective(order) /\ Range(order) \subseteq taken
  BY <1>1, <1>2 DEF IsInjective, Range
<1>5. taken \subseteq Range(order)
  <2> DEFINE n == Cardinality(taken)
  <2>a. IsFiniteSet(taken)
    BY TcacheAssumption, FS_Subset
  <2>b. \A m \in Nat : IsFiniteSet(1 .. m) /\ Cardinality(1 .. m) = m
    BY FS_Interval
  <2>1. IsFiniteSet(taken) /\ IsFiniteSet(1 .. n) /\ Cardinality(1 .. n) = n
    BY <1>1, <2>a, <2>b
  <2> HIDE DEF n
  <2>2. order \in [1 .. n -> taken] /\ \A i, j \in 1 .. n : order[i] = order[j] => i = j
    BY <1>2 DEF n
  <2>3. order \in Injection(1 .. n, taken)
    BY <2>2, Fun_IsInj, Zenon
  <2>4. Cardinality(1 .. n) = Cardinality(taken)
    BY <2>1 DEF n
  <2>5. order \in Surjection(1 .. n, taken)
    BY <2>1, <2>3, <2>4, FS_Injection, Zenon
  <2>6. \A x \in taken : \E i \in 1 .. n : order[i] = x
    BY <2>5 DEF Surjection
  <2> QED BY <2>2, <2>6 DEF Range
<1> QED BY <1>1, <1>3, <1>4, <1>5

\* tcache_fill keeps the invariant.
LEMMA FillKeeps ==
  ASSUME TcacheInv, NEW t \in Threads, NEW size \in Sizes, tcache_fill(t, size)
  PROVE  TcacheInv'
<1>0. Shape /\ PlaceInv /\ Fits
  BY DEF TcacheInv
<1> DEFINE c == size_to_class(size)
           s == bins[t][c]
           most == Min({Capacity(c) - Len(s), FillLimit})
           given == {b \in arena : BlockClass[b] = c}
<1>1. /\ HasCache(t) /\ c \in Classes
      /\ UNCHANGED <<num_arenas, tcaches, counter, request>>
  BY RequestClass DEF tcache_fill
<1>2. PICK taken \in SUBSET given :
        /\ Cardinality(taken) <= most
        /\ \E order \in SetToSeqs(taken) : Put(t, c, s \o order)
        /\ arena' = arena \ taken
        /\ chunked' \in IF most = 0 THEN {chunked} ELSE IF taken = {} THEN {chunked, TRUE} ELSE {TRUE}
  BY DEF tcache_fill, Fill, arena_malloc
<1>b. arena_get_current
  BY DEF tcache_fill
<1>3. PICK order \in SetToSeqs(taken) : Put(t, c, s \o order)
  BY <1>2
<1> HIDE DEF c
<1>4. /\ s \in Seq(Blocks) /\ IsInjective(s) /\ Len(s) <= Capacity(c) /\ Range(s) \subseteq Blocks
      /\ \A x \in Range(s) : /\ x \notin arena /\ x \notin DOMAIN request
                            /\ class_to_size(c) <= class_to_size(BlockClass[x])
  BY <1>1, CacheFacts
<1>5. taken \subseteq arena /\ taken \in SUBSET Blocks /\ \A b \in taken : BlockClass[b] = c
  BY <1>0, <1>2 DEF Shape
<1>6. /\ order \in Seq(Blocks) /\ Len(order) = Cardinality(taken) /\ Cardinality(taken) \in Nat
      /\ IsInjective(order) /\ Range(order) = taken
  BY <1>3, <1>5, Orders
<1>7. Range(s) \intersect Range(order) = {}
  BY <1>4, <1>5, <1>6
<1> DEFINE r == s \o order
<1>8. /\ r \in Seq(Blocks) /\ Len(r) = Len(s) + Len(order) /\ IsInjective(r)
      /\ Range(r) = Range(s) \union Range(order)
  BY <1>4, <1>6, <1>7, PushBin
<1>9. Len(r) <= Capacity(c)
  <2>1. Capacity(c) - Len(s) \in Nat /\ FillLimit \in Nat /\ Len(s) \in Nat
    BY <1>1, <1>4, CapacityPositive
  <2>2. most <= Capacity(c) - Len(s) /\ most \in Nat
    <3>1. {Capacity(c) - Len(s), FillLimit} \in SUBSET Nat
      BY <2>1
    <3> QED BY <3>1, LeastIsIn
  <2> HIDE DEF most
  <2> QED BY <1>1, <1>2, <1>6, <1>8, <2>1, <2>2, CapacityPositive
<1>10. bins' = [bins EXCEPT ![t][c] = r]
  BY <1>3 DEF Put
<1> HIDE DEF r
<1>11. \A x \in Range(r) :
         /\ x \in Range(s) \union arena \union DOMAIN request
         /\ x \notin arena' /\ x \notin DOMAIN request'
         /\ class_to_size(c) <= class_to_size(BlockClass[x])
  <2>1. \A x \in Range(s) : x \notin arena' /\ x \notin DOMAIN request'
    BY <1>1, <1>2, <1>4
  <2>2. ASSUME NEW x \in Range(order)
        PROVE  /\ x \in arena /\ x \notin arena' /\ x \notin DOMAIN request'
               /\ class_to_size(c) <= class_to_size(BlockClass[x])
    <3>1. x \in taken /\ x \in arena /\ x \in Blocks /\ BlockClass[x] = c
      BY <1>5, <1>6
    <3>2. class_to_size(c) \in Nat
      BY <1>1, ClassSizes
    <3> QED BY <1>0, <1>1, <1>2, <3>1, <3>2 DEF PlaceInv
  <2> QED BY <1>4, <1>8, <2>1, <2>2
<1>12. /\ arena' \subseteq arena \union Range(s) \union DOMAIN request
       /\ DOMAIN request' \subseteq DOMAIN request \union Range(s)
       /\ DOMAIN request' \intersect arena' = {} /\ request' \in [DOMAIN request' -> Sizes]
       /\ \A b \in DOMAIN request' : class_to_size(BlockClass[b]) >= request'[b]
  BY <1>0, <1>1, <1>2 DEF PlaceInv, Fits, Shape
<1>13. UNCHANGED <<num_arenas, tcaches, counter>>
  BY <1>1
<1>14. \A x \in arena \union Range(s) \union DOMAIN request :
         x \in arena' \union Range(r) \union DOMAIN request'
  BY <1>1, <1>2, <1>6, <1>8
<1>15. LifeInv'
  <2>a. num_arenas' # 0
    BY <1>0, <1>1, <1>b DEF arena_get_current, Shape
  <2>b. chunked => chunked'
    BY <1>2, Zenon
  <2>1. num_arenas' # 0 /\ (chunked => chunked')
    BY <2>a, <2>b
  <2>2. ASSUME ~chunked' PROVE taken = {}
    <3>1. CASE most = 0
      <4>1. Cardinality(taken) = 0 /\ IsFiniteSet(taken)
        BY <1>2, <1>5, <1>6, <3>1, TcacheAssumption, FS_Subset
      <4> QED BY <4>1, FS_EmptySet
    <3>2. CASE most # 0
      BY <1>2, <2>2, <3>2
    <3> QED BY <3>1, <3>2
  <2>3. chunked \/ arena = Blocks
    BY DEF TcacheInv, LifeInv
  <2> QED BY <1>2, <2>1, <2>2, <2>3 DEF LifeInv
<1> HIDE DEF given, most
<1> QED BY <1>1, <1>8, <1>9, <1>10, <1>11, <1>12, <1>13, <1>14, <1>15, BinMoves

\* The upper half of a bin leaves it, and is the arena's again while there is one.
LEMMA FlushKeeps ==
  ASSUME TcacheInv, NEW t \in Threads, NEW size \in Sizes, tcache_flush(t, size)
  PROVE  TcacheInv'
<1>0. Shape /\ PlaceInv /\ Fits
  BY DEF TcacheInv
<1> DEFINE c == size_to_class(size)
           s == bins[t][c]
           kept == Len(s) - Len(s) \div 2
           lower == SubSeq(s, 1, kept)
           upper == SubSeq(s, kept + 1, Len(s))
<1>1. /\ HasCache(t) /\ c \in Classes
      /\ bins' = [bins EXCEPT ![t][c] = lower]
      /\ arena' = IF arena_get_current THEN arena \union Range(upper) ELSE arena
      /\ UNCHANGED <<num_arenas, tcaches, counter, request>>
  BY RequestClass DEF tcache_flush, Put, arena_free, Serves, Life
<1> HIDE DEF c
<1>2. /\ s \in Seq(Blocks) /\ IsInjective(s) /\ Len(s) <= Capacity(c) /\ Range(s) \subseteq Blocks
      /\ \A x \in Range(s) : /\ x \notin arena /\ x \notin DOMAIN request
                            /\ class_to_size(c) <= class_to_size(BlockClass[x])
  BY <1>1, CacheFacts
<1>3. kept \in 0 .. Len(s)
  <2>1. \A n \in Nat : n - n \div 2 \in 0 .. n
    OBVIOUS
  <2>2. Len(s) \in Nat
    BY <1>2
  <2> QED BY <2>1, <2>2, Zenon
<1> HIDE DEF kept
<1>4. /\ lower \in Seq(Blocks) /\ Len(lower) = kept /\ IsInjective(lower)
      /\ Range(lower) \subseteq Range(s) /\ Range(upper) \subseteq Range(s)
      /\ Range(lower) \intersect Range(upper) = {}
      /\ Range(s) = Range(lower) \union Range(upper)
  BY <1>2, <1>3, CutBin
<1>5. Len(lower) <= Capacity(c)
  BY <1>1, <1>2, <1>3, <1>4, CapacityPositive
<1> HIDE DEF lower, upper
<1>6. \A x \in arena' : x \in arena \/ x \in Range(upper)
  BY <1>1
<1>7. \A x \in Range(lower) :
        /\ x \in Range(s) \union arena \union DOMAIN request
        /\ x \notin arena' /\ x \notin DOMAIN request'
        /\ class_to_size(c) <= class_to_size(BlockClass[x])
  BY <1>1, <1>2, <1>4, <1>6
<1>8. /\ arena' \subseteq arena \union Range(s) \union DOMAIN request
      /\ DOMAIN request' \subseteq DOMAIN request \union Range(s)
      /\ DOMAIN request' \intersect arena' = {}
  BY <1>0, <1>1, <1>2, <1>4, <1>6 DEF PlaceInv
<1>9. request' \in [DOMAIN request' -> Sizes]
      /\ \A b \in DOMAIN request' : class_to_size(BlockClass[b]) >= request'[b]
  BY <1>0, <1>1 DEF Fits, Shape
<1>10. UNCHANGED <<num_arenas, tcaches, counter>>
  BY <1>1
<1>11. LifeInv'
  <2>1. arena' = Blocks \/ chunked
    BY <1>1, <1>2, <1>4 DEF TcacheInv, LifeInv
  <2> QED BY <2>1 DEF tcache_flush, TcacheInv, LifeInv, Life
<1>12. arena' = arena \union Range(upper)
  <2>1. CASE arena_get_current
    BY <1>1, <2>1
  <2>2. CASE ~arena_get_current
    <3>1. arena = Blocks
      BY <1>0, <2>2 DEF TcacheInv, Shape, LifeInv, arena_get_current
    <3>2. Range(s) = {}
      BY <1>2, <3>1
    <3> QED BY <1>1, <1>4, <3>2
  <2> QED BY <2>1, <2>2
<1>13. \A x \in arena \union Range(s) \union DOMAIN request :
         x \in arena' \union Range(lower) \union DOMAIN request'
  BY <1>1, <1>4, <1>12
<1> QED BY <1>1, <1>4, <1>5, <1>7, <1>8, <1>9, <1>10, <1>11, <1>13, BinMoves

\* A client gives a block to the arena.
LEMMA ClientFreeKeeps ==
  ASSUME TcacheInv, NEW b \in Blocks, ClientFree(b)
  PROVE  TcacheInv'
<1>0. Shape /\ PlaceInv /\ BinsBounded /\ BinsServe /\ Fits /\ RegisteredInv
  BY DEF TcacheInv
<1>1. /\ b \in DOMAIN request /\ request' = Freed(b)
      /\ arena' = arena \union {b}
      /\ UNCHANGED <<num_arenas, bins, tcaches, counter>>
  BY DEF ClientFree, arena_free, Life
<1>2. /\ DOMAIN request' = DOMAIN request \ {b}
      /\ \A x \in DOMAIN request' : request'[x] = request[x]
      /\ request' \in [DOMAIN request' -> Sizes]
  BY <1>0, <1>1 DEF Freed, Restrict, Shape
<1>3. \A x \in arena' : x \in arena \/ x = b
  BY <1>1
<1>4. Shape'
  <2>1. arena' \subseteq Blocks /\ DOMAIN request' \subseteq Blocks
    BY <1>0, <1>2, <1>3 DEF Shape
  <2> QED BY <1>0, <1>1, <1>2, <2>1 DEF Shape
<1>5. \A x, t, c : InBin(x, t, c)' <=> InBin(x, t, c)
  BY <1>1 DEF InBin, HasCache
<1>6. PlaceInv'
  <2>1. \A x \in Blocks, t \in Threads, c \in Classes : InBin(x, t, c) => x # b
    BY <1>0, <1>1 DEF PlaceInv
  <2>2. \A t \in Threads, c \in Classes : HasCache(t)' => IsInjective(bins'[t][c])
    BY <1>0, <1>1 DEF PlaceInv, HasCache
  <2>3. DOMAIN request' \intersect arena' = {}
    BY <1>0, <1>2, <1>3 DEF PlaceInv
  <2> QED BY <1>0, <1>2, <1>3, <1>5, <2>1, <2>2, <2>3 DEF PlaceInv
<1>7. BinsBounded' /\ BinsServe'
  BY <1>0, <1>1, <1>5 DEF BinsBounded, BinsServe, HasCache
<1>8. Fits'
  BY <1>0, <1>2 DEF Fits
<1>9. RegisteredInv'
  BY <1>0, <1>1 DEF RegisteredInv, HasCache
<1>10. KeptInv'
  BY <1>1, <1>2, <1>5 DEF TcacheInv, KeptInv
<1>11. LifeInv'
  BY <1>1, <1>4 DEF ClientFree, Life, TcacheInv, LifeInv, Shape
<1> QED BY <1>4, <1>6, <1>7, <1>8, <1>9, <1>10, <1>11 DEF TcacheInv

\* A new cache is empty, and registered when there is an index for it.
LEMMA GetKeeps ==
  ASSUME TcacheInv, NEW t \in Threads, allocator_get_tcache(t)
  PROVE  TcacheInv'
<1>0. Shape /\ PlaceInv /\ BinsBounded /\ BinsServe /\ Fits /\ RegisteredInv
  BY DEF TcacheInv
<1> DEFINE none == [c \in Classes |-> <<>>]
<1>1. /\ num_arenas > 0 /\ ~HasCache(t)
      /\ bins' = [bins EXCEPT ![t] = none] /\ counter' = counter + 1
      /\ tcaches' = [i \in DOMAIN tcaches |-> IF i = counter' THEN t ELSE tcaches[i]]
      /\ UNCHANGED <<arena, num_arenas, request>>
  BY DEF allocator_get_tcache, arena_get_current, Life
<1>2. none \in Caches /\ \A c \in Classes : none[c] = <<>>
  BY DEF Caches
<1> HIDE DEF none
<1>3. bins'[t] = none /\ \A u \in Threads \ {t} : bins'[u] = bins[u]
  BY <1>0, <1>1 DEF Shape
<1>4. HasCache(t)' /\ \A u \in Threads \ {t} : HasCache(u)' <=> HasCache(u)
  BY <1>2, <1>3, CacheIsNone DEF HasCache, Caches
<1>5. tcaches' \in [0 .. MAX_THREADS - 1 -> Threads \union {NULL}] /\ counter' \in Nat
      /\ DOMAIN tcaches = 0 .. MAX_THREADS - 1 /\ counter \in Nat
  BY <1>0, <1>1 DEF Shape
<1>6. Shape'
  <2>1. bins' \in [Threads -> {<<>>} \union Caches]
    BY <1>0, <1>1, <1>2 DEF Shape
  <2> QED BY <1>0, <1>1, <1>5, <2>1 DEF Shape
<1>7. Range(<<>>) = {} /\ IsInjective(<<>>) /\ Len(<<>>) = 0
  BY DEF Range, IsInjective
<1>8. ASSUME NEW b \in Blocks, NEW u \in Threads, NEW c \in Classes, InBin(b, u, c)'
      PROVE  InBin(b, u, c)
  <2>1. u # t
    BY <1>2, <1>3, <1>7, <1>8 DEF InBin
  <2> QED BY <1>3, <1>4, <1>8, <2>1 DEF InBin
<1>9. PlaceInv'
  <2>1. \A u \in Threads, c \in Classes : HasCache(u)' => IsInjective(bins'[u][c])
    BY <1>0, <1>2, <1>3, <1>4, <1>7 DEF PlaceInv
  <2> QED BY <1>0, <1>1, <1>8, <2>1 DEF PlaceInv
<1>10. BinsServe'
  BY <1>0, <1>8 DEF BinsServe
<1>11. BinsBounded'
  BY <1>0, <1>2, <1>3, <1>4, <1>7, CapacityPositive DEF BinsBounded
<1>12. Fits'
  BY <1>0, <1>1 DEF Fits
<1>13. RegisteredInv'
  <2>1. /\ \A i \in DOMAIN tcaches : tcaches[i] # NULL => HasCache(tcaches[i]) /\ i <= counter
        /\ \A i, j \in DOMAIN tcaches : tcaches[i] = tcaches[j] /\ tcaches[i] # NULL => i = j
        /\ counter < MAX_THREADS =>
             \A u \in Threads : HasCache(u) => \E i \in DOMAIN tcaches : tcaches[i] = u
    BY <1>0 DEF RegisteredInv
  <2>2. DOMAIN tcaches' = DOMAIN tcaches
        /\ \A i \in DOMAIN tcaches : tcaches'[i] = IF i = counter + 1 THEN t ELSE tcaches[i]
    BY <1>1
  <2>3. \A i \in DOMAIN tcaches : tcaches[i] # t /\ (tcaches[i] # NULL => tcaches[i] \in Threads)
    BY <1>0, <1>1, <2>1, TcacheAssumption DEF Shape
  <2>4. ASSUME NEW i \in DOMAIN tcaches', tcaches'[i] # NULL
        PROVE  HasCache(tcaches[i])' /\ i <= counter'
    <3>1. CASE i = counter + 1
      BY <1>1, <1>4, <1>5, <2>2, <3>1
    <3>2. CASE i # counter + 1
      <4>1. /\ tcaches'[i] = tcaches[i] /\ tcaches[i] \in Threads \ {t} /\ HasCache(tcaches[i])
            /\ i <= counter /\ i \in Int
        BY <1>5, <2>1, <2>2, <2>3, <2>4, <3>2
      <4>2. HasCache(tcaches[i])'
        BY <1>4, <4>1 DEF HasCache
      <4> QED BY <1>1, <1>5, <4>1, <4>2
    <3> QED BY <3>1, <3>2
  <2>5. \A i, j \in DOMAIN tcaches' : tcaches'[i] = tcaches'[j] /\ tcaches'[i] # NULL => i = j
    BY <2>1, <2>2, <2>3
  <2>6. ASSUME counter' < MAX_THREADS, NEW u \in Threads, HasCache(u)'
        PROVE  \E i \in DOMAIN tcaches' : tcaches'[i] = u
    <3>1. CASE u = t
      <4>1. counter + 1 \in DOMAIN tcaches
        BY <1>1, <1>5, <2>6, TcacheAssumption
      <4> QED BY <2>2, <3>1, <4>1
    <3>2. CASE u # t
      <4>1. PICK i \in DOMAIN tcaches : tcaches[i] = u
        BY <1>1, <1>4, <1>5, <2>1, <2>6, <3>2, TcacheAssumption
      <4>2. i # counter + 1
        <5>1. i <= counter /\ i \in Int
          BY <1>5, <2>1, <4>1, TcacheAssumption
        <5> QED BY <1>5, <5>1
      <4> QED BY <2>2, <4>1, <4>2
    <3> QED BY <3>1, <3>2
  <2> QED BY <2>4, <2>5, <2>6 DEF RegisteredInv
<1>14. KeptInv'
  <2>1. \A b \in Blocks, u \in Threads, c \in Classes : InBin(b, u, c) => InBin(b, u, c)'
    BY <1>1, <1>3 DEF InBin, HasCache
  <2> QED BY <1>1, <2>1 DEF TcacheInv, KeptInv
<1>15. LifeInv'
  BY <1>1 DEF allocator_get_tcache, Life, TcacheInv, LifeInv
<1> QED BY <1>6, <1>9, <1>10, <1>11, <1>12, <1>13, <1>14, <1>15 DEF TcacheInv

\* The arena comes and goes, and the caches and what is held do not.
LEMMA OnlyLife ==
  ASSUME TcacheInv, num_arenas' \in {0, 1}, LifeInv',
         UNCHANGED <<arena, bins, tcaches, counter, request>>
  PROVE  TcacheInv'
<1>1. Shape' /\ RegisteredInv' /\ Fits' /\ BinsBounded'
  BY DEF TcacheInv, Shape, RegisteredInv, Fits, BinsBounded, HasCache
<1>2. \A b, t, c : InBin(b, t, c)' <=> InBin(b, t, c)
  BY DEF InBin, HasCache
<1>3. PlaceInv' /\ BinsServe' /\ KeptInv'
  BY <1>2 DEF TcacheInv, PlaceInv, BinsServe, KeptInv, HasCache
<1> QED BY <1>1, <1>3 DEF TcacheInv

\* A shutdown that ends has no arena left to give the caches' blocks to, and forgets
\* the caches; one that does not end has not come to them.
LEMMA ShutdownKeeps == TcacheInv /\ allocator_shutdown => TcacheInv'
<1> SUFFICES ASSUME TcacheInv, allocator_shutdown PROVE TcacheInv'
  OBVIOUS
<1>0. Shape /\ PlaceInv /\ Fits /\ LifeInv
  BY DEF TcacheInv
<1>1. /\ num_arenas > 0 /\ counter' = counter /\ request' = request /\ ended' = chunked
      /\ num_arenas' = IF chunked THEN num_arenas ELSE num_arenas - 1
      /\ chunked' = chunked
  BY DEF allocator_shutdown, arena_manager_shutdown, arena_destroy
<1>2. num_arenas = 1 /\ num_arenas' = IF chunked THEN 1 ELSE 0
  BY <1>0, <1>1 DEF Shape
<1>3. CASE chunked
  <2>1. UNCHANGED <<arena, bins, tcaches>>
    BY <1>1, <1>3 DEF allocator_shutdown
  <2>2. LifeInv'
    BY <1>1, <1>2, <1>3 DEF LifeInv
  <2> QED BY <1>1, <1>2, <1>3, <2>1, <2>2, OnlyLife
<1>4. CASE ~chunked
  <2>1. /\ arena' = arena \union UNION {tcache_destroy(t, num_arenas') : t \in Range(tcaches) \ {NULL}}
        /\ bins' = [t \in Threads |-> <<>>]
        /\ tcaches' = [i \in DOMAIN tcaches |-> NULL]
    BY <1>1, <1>4 DEF allocator_shutdown
  <2>2. num_arenas' = 0
    BY <1>2, <1>4
  <2>3. \A t : tcache_destroy(t, num_arenas') = {}
    BY <2>2 DEF tcache_destroy
  <2>4. arena' = arena
    BY <2>1, <2>3
  <2>5. \A t \in Threads : ~HasCache(t)'
    BY <2>1 DEF HasCache
  <2>6. Shape'
    <3>1. bins' \in [Threads -> {<<>>} \union Caches]
      BY <2>1
    <3>2. tcaches' \in [0 .. MAX_THREADS - 1 -> Threads \union {NULL}]
      BY <1>0, <2>1 DEF Shape
    <3> QED BY <1>0, <1>1, <2>2, <2>4, <3>1, <3>2 DEF Shape
  <2>7. PlaceInv' /\ BinsServe' /\ BinsBounded'
    BY <1>0, <1>1, <2>4, <2>5 DEF PlaceInv, BinsServe, BinsBounded, InBin
  <2>8. Fits' /\ RegisteredInv'
    BY <1>0, <1>1, <2>1, <2>5 DEF Fits, RegisteredInv
  <2>9. KeptInv' /\ LifeInv'
    BY <1>0, <1>1, <1>4, <2>4 DEF KeptInv, LifeInv
  <2> QED BY <2>6, <2>7, <2>8, <2>9 DEF TcacheInv
<1> QED BY <1>3, <1>4

\* allocator_init keeps the invariant.
LEMMA InitKeeps == TcacheInv /\ allocator_init => TcacheInv'
<1> SUFFICES ASSUME TcacheInv, allocator_init PROVE TcacheInv'
  OBVIOUS
<1>1. /\ num_arenas' = 1 /\ num_arenas \in {0, 1} /\ ~(num_arenas > 0)
      /\ UNCHANGED <<arena, bins, tcaches, counter, request>>
  BY DEF allocator_init, arena_create, arena_manager_init, arena_get_current, TcacheInv, Shape
<1>2. LifeInv'
  BY <1>1 DEF TcacheInv, LifeInv
<1> QED BY <1>1, <1>2, OnlyLife

\* So does every step.
LEMMA TcacheStep == TcacheInv /\ [Next]_vars => TcacheInv'
<1> SUFFICES ASSUME TcacheInv, [Next]_vars PROVE TcacheInv'
  OBVIOUS
<1>1. CASE UNCHANGED vars
  <2>1. UNCHANGED <<arena, num_arenas, bins, tcaches, counter, request>>
    BY <1>1 DEF vars
  <2>2. num_arenas' \in {0, 1} /\ LifeInv'
    BY <1>1, <2>1 DEF TcacheInv, Shape, LifeInv, vars
  <2> QED BY <2>1, <2>2, OnlyLife
<1>2. ASSUME NEW t \in Threads, allocator_get_tcache(t) PROVE TcacheInv'
  BY <1>2, GetKeeps
<1>3. ASSUME NEW t \in Threads, NEW size \in Sizes,
             tcache_alloc(t, size) \/ tcache_fill(t, size) \/ tcache_flush(t, size)
      PROVE  TcacheInv'
  BY <1>3, AllocKeeps, FillKeeps, FlushKeeps
<1>4. ASSUME NEW b \in Blocks, ClientFree(b) \/ \E t \in Threads : tcache_free(t, b)
      PROVE  TcacheInv'
  BY <1>4, ClientFreeKeeps, FreeKeeps
<1>5. CASE allocator_shutdown \/ allocator_init
  BY <1>5, ShutdownKeeps, InitKeeps
<1> QED BY <1>1, <1>2, <1>3, <1>4, <1>5 DEF Next

\* So it holds in every reachable state.
LEMMA TcacheCorrect == Spec => []TcacheInv
  BY TcacheInit, TcacheStep, PTL DEF Spec

\* What the arena gives once is in one place until it has it back, whatever caches it
\* goes through: they hand nothing to two clients, and lose nothing.  (The arena may
\* give one address twice; then two blocks of the model have it.)
THEOREM BlocksInOnePlace == Spec => []OnePlace
<1>1. TcacheInv => OnePlace
  <2> SUFFICES ASSUME TcacheInv PROVE OnePlace
    OBVIOUS
  <2>1. ASSUME NEW t \in Threads, NEW b \in Cached(t)
        PROVE  b \in Blocks /\ \E c \in Classes : InBin(b, t, c)
    <3>1. HasCache(t)
      BY <2>1 DEF Cached
    <3>2. PICK c \in Classes : b \in Range(bins[t][c])
      BY <2>1, <3>1 DEF Cached
    <3> QED BY <3>1, <3>2, CacheFacts DEF InBin
  <2>2. \A t, u \in Threads : t # u => Cached(t) \intersect Cached(u) = {}
    BY <2>1 DEF TcacheInv, PlaceInv
  <2>3. \A t \in Threads : Cached(t) \intersect (DOMAIN request \union arena) = {}
    BY <2>1 DEF TcacheInv, PlaceInv
  <2>4. ASSUME NEW t \in Threads, HasCache(t), NEW c \in Classes, NEW d \in Classes
        PROVE  /\ IsInjective(bins[t][c])
               /\ c # d => Range(bins[t][c]) \intersect Range(bins[t][d]) = {}
    <3>1. \A b : b \in Range(bins[t][c]) => b \in Blocks /\ InBin(b, t, c)
      BY <2>4, CacheFacts DEF InBin
    <3>2. \A b : b \in Range(bins[t][d]) => InBin(b, t, d)
      BY <2>4 DEF InBin
    <3>3. \A b \in Blocks : InBin(b, t, c) /\ InBin(b, t, d) => c = d
      BY DEF TcacheInv, PlaceInv
    <3> QED BY <2>4, <3>1, <3>2, <3>3 DEF TcacheInv, PlaceInv
  <2>5. DOMAIN request \intersect arena = {}
    BY DEF TcacheInv, PlaceInv
  <2>6. arena \union DOMAIN request \union UNION {Cached(t) : t \in Threads} = Blocks
    <3>1. \A b \in Blocks, t \in Threads, c \in Classes : InBin(b, t, c) => b \in Cached(t)
      BY DEF InBin, Cached
    <3>2. \A t \in Threads : Cached(t) \subseteq Blocks
      BY <2>1
    <3>3. arena \subseteq Blocks /\ DOMAIN request \subseteq Blocks
      BY DEF TcacheInv, Shape
    <3>4. ASSUME NEW b \in Blocks
          PROVE  b \in arena \/ b \in DOMAIN request \/ \E t \in Threads : b \in Cached(t)
      BY <3>1 DEF TcacheInv, KeptInv
    <3> QED BY <3>2, <3>3, <3>4
  <2> QED BY <2>2, <2>3, <2>4, <2>5, <2>6 DEF OnePlace
<1> QED BY <1>1, TcacheCorrect, PTL

\* No bin overflows, although each of a fill, a free and a flush looks at the room
\* in it only once, and they come in any order.
THEOREM BinsAreBounded == Spec => []BinsBounded
<1>1. TcacheInv => BinsBounded
  BY DEF TcacheInv
<1> QED BY <1>1, TcacheCorrect, PTL

\* A block is as large as its client asked for, although tcache_free takes the class
\* of a block from its offset and is nearly always wrong: its guess is the smallest.
THEOREM BlocksFit == Spec => []Fits
<1>1. TcacheInv => Fits
  BY DEF TcacheInv
<1> QED BY <1>1, TcacheCorrect, PTL

\* While the array had an index for every cache it has each of them, once, in every
\* state: a shutdown that gets past the arena finds them all, and one that does not
\* has not touched them.
THEOREM CachesAreRegistered == Spec => []CachesRegistered
<1>1. TcacheInv => CachesRegistered
  <2> SUFFICES ASSUME TcacheInv, counter < MAX_THREADS, NEW t \in Threads, HasCache(t)
               PROVE  \E i \in DOMAIN tcaches : {j \in DOMAIN tcaches : tcaches[j] = t} = {i}
    BY DEF CachesRegistered
  <2>1. PICK i \in DOMAIN tcaches : tcaches[i] = t
    BY DEF TcacheInv, RegisteredInv
  <2>2. \A j \in DOMAIN tcaches : tcaches[j] = t => j = i
    BY <2>1, TcacheAssumption DEF TcacheInv, RegisteredInv
  <2> QED BY <2>1, <2>2
<1> QED BY <1>1, TcacheCorrect, PTL

-----------------------------------------------------------------------------
(* The size classes of core/size_class.h.                                  *)

\* A table whose neighbours are in order is in order.
LEMMA InOrder ==
  ASSUME NEW n \in Nat, NEW f, \A i \in 1 .. n : f[i] \in Nat,
         \A i \in 1 .. n : i + 1 \in 1 .. n => f[i] <= f[i + 1],
         NEW i \in 1 .. n, NEW j \in 1 .. n, i <= j
  PROVE  f[i] <= f[j]
<1> DEFINE Bad == {k \in i .. n : ~(f[i] <= f[k])}
<1> SUFFICES ASSUME Bad # {} PROVE FALSE
  OBVIOUS
<1>1. Bad \in SUBSET Nat
  OBVIOUS
<1>2. PICK m : m = Min(Bad)
  OBVIOUS
<1>3. m \in Bad /\ \A k \in Bad : m <= k
  BY <1>1, <1>2, LeastIsIn
<1>4. m # i
  BY <1>3
<1>5. m - 1 \in i .. n /\ m - 1 \notin Bad
  <2> HIDE DEF Bad
  <2>1. m \in i .. n
    BY <1>3 DEF Bad
  <2>2. m - 1 \in Nat /\ ~(m <= m - 1)
    BY <1>4, <2>1
  <2> QED BY <1>3, <1>4, <2>1, <2>2
<1>6. f[i] <= f[m - 1]
  BY <1>5
<1>7. f[m - 1] <= f[(m - 1) + 1] /\ (m - 1) + 1 = m
  BY <1>3, <1>5
<1> QED BY <1>3, <1>5, <1>6, <1>7

\* The block sizes of the two tables.
LEMMA SmallOrder ==
  /\ \A i \in 1 .. 29 : Small[i] \in Nat /\ 8 <= Small[i] /\ Small[i] <= 4096
  /\ \A i, j \in 1 .. 29 : i <= j => Small[i] <= Small[j]
  /\ DOMAIN Small = 1 .. 29 /\ Small[1] = 8 /\ Small[29] = 4096
<1>1. \A i \in 1 .. 29 : Small[i] \in Nat /\ 8 <= Small[i] /\ Small[i] <= 4096
  BY SMT DEF Small
<1>2. \A i \in 1 .. 29 : i + 1 \in 1 .. 29 => Small[i] <= Small[i + 1]
  BY SMT DEF Small
<1>3. DOMAIN Small = 1 .. 29 /\ Small[1] = 8 /\ Small[29] = 4096
  BY SMT DEF Small
<1> HIDE DEF Small
<1>4. \A i \in 1 .. 29 : Small[i] \in Nat
  BY <1>1
<1>5. \A i, j \in 1 .. 29 : i <= j => Small[i] <= Small[j]
  <2>1. 29 \in Nat
    OBVIOUS
  <2> QED BY <1>2, <1>4, <2>1, InOrder, Zenon
<1> QED BY <1>1, <1>3, <1>5, SMT

\* Those of the medium blocks are in order as well.
LEMMA MediumOrder ==
  /\ \A i \in 1 .. 17 : Medium[i] \in Nat /\ 8192 <= Medium[i] /\ Medium[i] <= 1048576
  /\ \A i, j \in 1 .. 17 : i <= j => Medium[i] <= Medium[j]
  /\ DOMAIN Medium = 1 .. 17 /\ Medium[17] = 1048576
<1>1. \A i \in 1 .. 17 : Medium[i] \in Nat /\ 8192 <= Medium[i] /\ Medium[i] <= 1048576
  BY SMT DEF Medium
<1>2. \A i \in 1 .. 17 : i + 1 \in 1 .. 17 => Medium[i] <= Medium[i + 1]
  BY SMT DEF Medium
<1>3. DOMAIN Medium = 1 .. 17 /\ Medium[17] = 1048576
  BY SMT DEF Medium
<1> HIDE DEF Medium
<1>4. \A i \in 1 .. 17 : Medium[i] \in Nat
  BY <1>1, SMT
<1>5. \A i, j \in 1 .. 17 : i <= j => Medium[i] <= Medium[j]
  <2>1. 17 \in Nat
    OBVIOUS
  <2> QED BY <1>2, <1>4, <2>1, InOrder, Zenon
<1> QED BY <1>1, <1>3, <1>5, SMT

\* The entry that is found is the smallest that holds the size.
LEMMA FirstFitLeast ==
  ASSUME NEW n \in Nat, NEW table \in [0 .. n -> Nat], NEW size \in Nat,
         NEW j \in 0 .. n, size <= table[j]
  PROVE  FirstFit(table, size) <= j
<1> DEFINE fit == {i \in DOMAIN table : size <= table[i]}
           all == fit \union {Max(DOMAIN table)}
<1>1. Max(DOMAIN table) = n
  <2>1. n \in DOMAIN table /\ \A y \in DOMAIN table : n >= y
    OBVIOUS
  <2>2. \A x \in DOMAIN table : (\A y \in DOMAIN table : x >= y) => x = n
    BY <2>1
  <2> QED BY <2>1, <2>2 DEF Max
<1>2. all \in SUBSET Nat /\ j \in all
  BY <1>1
<1>3. Min(all) <= j
  BY <1>2, LeastIsIn
<1> QED BY <1>3 DEF FirstFit

\* The least of a set is the one that is in it and below the others.
LEMMA MinIs ==
  ASSUME NEW S \in SUBSET Nat, NEW m \in S, \A y \in S : m <= y
  PROVE  Min(S) = m
<1>1. Min(S) \in S /\ \A y \in S : Min(S) <= y
  BY LeastIsIn
<1>2. Min(S) \in Nat /\ m \in Nat /\ Min(S) <= m /\ m <= Min(S)
  BY <1>1
<1> QED BY <1>2

\* The sizes that TightestFit compares with are those of the two tables.
LEMMA BoundariesAre ==
  /\ Boundaries \in SUBSET Nat
  /\ \A i \in 1 .. 29 : Small[i] \in Boundaries
  /\ \A i \in 1 .. 17 : Medium[i] \in Boundaries
  /\ \A b \in Boundaries : (\E i \in 1 .. 29 : b = Small[i]) \/ (\E i \in 1 .. 17 : b = Medium[i])
<1>1. DOMAIN Small = 1 .. 29 /\ DOMAIN Medium = 1 .. 17
  BY SmallOrder, MediumOrder, SMT
<1>2. \A b \in Boundaries : b \in Nat
  BY SmallOrder, MediumOrder, SMT DEF Boundaries
<1> QED BY <1>1, <1>2, SMT DEF Boundaries

\* The entries of the tables, by their index.
LEMMA Entries ==
  /\ small_size_classes \in [0 .. 29 -> Nat] /\ medium_size_classes \in [0 .. 16 -> Nat]
  /\ \A i \in 0 .. 28 : small_size_classes[i] = Small[i + 1]
  /\ \A i \in 0 .. 16 : medium_size_classes[i] = Medium[i + 1]
  /\ small_size_classes[29] = 0
<1> USE DEF NumSmall, NumMedium
<1>1. DOMAIN Small = 1 .. 29 /\ \A i \in 1 .. 29 : Small[i] \in Nat
  BY SmallOrder, SMT
<1>2. \A i \in 1 .. 17 : Medium[i] \in Nat
  BY MediumOrder, SMT
<1>3. /\ \A i \in 0 .. 28 : small_size_classes[i] = Small[i + 1]
      /\ small_size_classes[29] = 0
  BY <1>1, SMT DEF small_size_classes
<1>4. \A i \in 0 .. 16 : medium_size_classes[i] = Medium[i + 1]
  BY SMT DEF medium_size_classes
<1>5. small_size_classes = [i \in 0 .. 29 |-> small_size_classes[i]]
      /\ medium_size_classes = [i \in 0 .. 16 |-> medium_size_classes[i]]
  BY SMT DEF small_size_classes, medium_size_classes
<1>6. \A i \in 0 .. 29 : small_size_classes[i] \in Nat
  <2>1. \A i \in 0 .. 29 : i = 29 \/ (i \in 0 .. 28 /\ i + 1 \in 1 .. 29)
    OBVIOUS
  <2> QED BY <1>1, <1>3, <2>1, SMT
<1>7. \A i \in 0 .. 16 : medium_size_classes[i] \in Nat
  BY <1>2, <1>4, SMT
<1> QED BY <1>3, <1>4, <1>5, <1>6, <1>7, SMT

\* A small request is given the smallest block size that holds it.
LEMMA TightSmall ==
  ASSUME NEW size \in Nat \ {0}, size <= SmallMax
  PROVE  /\ class_to_size(size_to_class(size)) = Min({b \in Boundaries : b >= size})
         /\ size_class_align(size) = class_to_size(size_to_class(size))
<1> DEFINE Fitting == {b \in Boundaries : b >= size}
<1> USE DEF NumSmall, NumClasses
<1>1. PICK c : c = size_to_class_small(size)
  OBVIOUS
<1>2. Fitting \in SUBSET Nat
  <2>1. Boundaries \in SUBSET Nat
    BY BoundariesAre, SMT
  <2> QED BY <2>1, Zenon
<1>3. c \in 0 .. 28 /\ size <= Small[c + 1] /\ \A k \in 1 .. 29 : size <= Small[k] => Small[c + 1] <= Small[k]
  <2>1. CASE size <= 8
    <3>1. c = 0
      BY <1>1, <2>1, SMT DEF size_to_class_small
    <3>2. \A k \in 1 .. 29 : 8 <= Small[k]
      BY SmallOrder, SMT
    <3> QED BY <2>1, <3>1, <3>2, SmallOrder, SMT
  <2>2. CASE size > 8
    <3>1. c = FirstFit(small_size_classes, size)
      BY <1>1, <2>2, SMT DEF size_to_class_small
    <3>2. 28 \in 0 .. 29 /\ 29 \in Nat /\ size \in Nat /\ size <= small_size_classes[28]
      <4>1. 28 \in 0 .. 28 /\ small_size_classes[28] = Small[28 + 1] /\ 28 + 1 = 29
        BY Entries, SMT
      <4> QED BY <4>1, SmallOrder, SMT DEF SmallMax
    <3>3. small_size_classes \in [0 .. 29 -> Nat]
      BY Entries, SMT
    <3>a. /\ FirstFit(small_size_classes, size) \in 0 .. 29
          /\ size <= small_size_classes[FirstFit(small_size_classes, size)]
      BY <3>2, <3>3, FirstFitFits, Zenon
    <3>4. c \in 0 .. 29 /\ size <= small_size_classes[c]
      BY <3>1, <3>a
    <3>b. FirstFit(small_size_classes, size) <= 28
      BY <3>2, <3>3, FirstFitLeast, Zenon
    <3>5. c <= 28
      BY <3>1, <3>b
    <3>6. c \in 0 .. 28 /\ small_size_classes[c] = Small[c + 1]
      BY <3>4, <3>5, Entries, SMT
    <3>7. ASSUME NEW k \in 1 .. 29, size <= Small[k]
          PROVE  Small[c + 1] <= Small[k]
      <4>1. PICK j \in 0 .. 29 : j = k - 1
        OBVIOUS
      <4>2. j \in 0 .. 28 /\ k = j + 1
        BY <4>1
      <4>3. size <= small_size_classes[j]
        BY <3>7, <4>2, Entries, SMT
      <4>a. FirstFit(small_size_classes, size) <= j
        BY <3>2, <3>3, <4>3, FirstFitLeast, Zenon
      <4>4. c <= j
        BY <3>1, <4>a
      <4>5. c + 1 \in 1 .. 29 /\ c + 1 <= k
        BY <3>6, <4>2, <4>4
      <4> QED BY <4>5, SmallOrder, SMT
    <3> QED BY <3>4, <3>6, <3>7, SMT
  <2> QED BY <2>1, <2>2, SMT
<1>4. PICK s : s = Small[c + 1]
  OBVIOUS
<1>5. s \in Fitting /\ s \in Nat /\ s <= 4096
  <2>1. c + 1 \in 1 .. 29
    BY <1>3
  <2>2. s \in Boundaries /\ s \in Nat /\ s <= 4096
    BY <2>1, <1>4, BoundariesAre, SmallOrder, SMT
  <2> QED BY <1>3, <1>4, <2>2, SMT
<1>6. ASSUME NEW b \in Fitting
      PROVE  s <= b
  <2>1. CASE \E k \in 1 .. 29 : b = Small[k]
    <3>1. PICK k \in 1 .. 29 : b = Small[k]
      BY <2>1
    <3>2. size <= Small[k]
      BY <3>1, <1>2
    <3> QED BY <1>3, <1>4, <3>1, <3>2
  <2>2. CASE \E k \in 1 .. 17 : b = Medium[k]
    <3>1. b \in Nat /\ 8192 <= b
      BY <2>2, MediumOrder, SMT
    <3> QED BY <1>5, <3>1, SMT
  <2>3. b \in Boundaries
    BY <1>6
  <2> QED BY <2>1, <2>2, <2>3, BoundariesAre, SMT
<1>7. Min(Fitting) = s
  <2> HIDE DEF Fitting
  <2> QED BY <1>2, <1>5, <1>6, MinIs, SMT
<1>8. size_to_class(size) = c
  BY <1>1, Zenon DEF size_to_class
<1>9. class_to_size(c) = small_size_classes[c]
  BY <1>3, SMT DEF class_to_size
<1>10. small_size_classes[c] = s
  BY <1>3, <1>4, Entries, SMT
<1>11. size_class_align(size) = small_size_classes[c]
  BY <1>1, Zenon DEF size_class_align
<1> QED BY <1>7, <1>8, <1>9, <1>10, <1>11, Zenon

\* And so is a medium one.
LEMMA TightMedium ==
  ASSUME NEW size \in Nat \ {0}, size > SmallMax, size <= MediumMax
  PROVE  /\ class_to_size(size_to_class(size)) = Min({b \in Boundaries : b >= size})
         /\ size_class_align(size) = class_to_size(size_to_class(size))
<1> DEFINE Fitting == {b \in Boundaries : b >= size}
<1> USE DEF NumSmall, NumMedium, NumClasses
<1>1. PICK c : c = FirstFit(medium_size_classes, size)
  BY Zenon
<1>2. Fitting \in SUBSET Nat
  <2>1. Boundaries \in SUBSET Nat
    BY BoundariesAre, SMT
  <2> QED BY <2>1, Zenon
<1>3. 16 \in 0 .. 16 /\ 16 \in Nat /\ size \in Nat /\ size <= medium_size_classes[16]
  <2>1. 16 \in 0 .. 16 /\ medium_size_classes[16] = Medium[16 + 1] /\ 16 + 1 = 17
    BY Entries, SMT
  <2> QED BY <2>1, MediumOrder, SMT DEF MediumMax
<1>4. medium_size_classes \in [0 .. 16 -> Nat]
  BY Entries, SMT
<1>5. c \in 0 .. 16 /\ size <= medium_size_classes[c]
  <2>1. /\ FirstFit(medium_size_classes, size) \in 0 .. 16
        /\ size <= medium_size_classes[FirstFit(medium_size_classes, size)]
    BY <1>3, <1>4, FirstFitFits, Zenon
  <2> QED BY <1>1, <2>1, SMT
<1>6. PICK s : s = medium_size_classes[c]
  BY Zenon
<1>7. s = Medium[c + 1] /\ c + 1 \in 1 .. 17
  BY <1>5, <1>6, Entries, SMT
<1>8. s \in Fitting
  BY <1>5, <1>6, <1>7, BoundariesAre, MediumOrder, SMT
<1>9. ASSUME NEW b \in Fitting
      PROVE  s <= b
  <2>1. CASE \E k \in 1 .. 29 : b = Small[k]
    <3>1. b \in Nat /\ b <= 4096
      BY <2>1, SmallOrder, SMT
    <3> QED BY <3>1, SMT DEF SmallMax
  <2>2. CASE \E k \in 1 .. 17 : b = Medium[k]
    <3>1. PICK k \in 1 .. 17 : b = Medium[k]
      BY <2>2, SMT
    <3>2. PICK j \in 0 .. 16 : j = k - 1
      BY SMT
    <3>3. k = j + 1 /\ size <= medium_size_classes[j]
      BY <3>1, <3>2, <1>2, Entries, SMT
    <3>a. FirstFit(medium_size_classes, size) <= j
      BY <1>3, <1>4, <3>3, FirstFitLeast, Zenon
    <3>4. c <= j
      BY <1>1, <3>a, SMT
    <3>5. c + 1 <= k
      BY <1>5, <3>3, <3>4, SMT
    <3> QED BY <1>7, <3>1, <3>5, MediumOrder, SMT
  <2>3. b \in Boundaries
    BY <1>9, SMT
  <2> QED BY <2>1, <2>2, <2>3, BoundariesAre, SMT
<1>10. Min(Fitting) = s
  <2> HIDE DEF Fitting
  <2> QED BY <1>2, <1>8, <1>9, MinIs, SMT
<1>11. size_to_class(size) = 30 + c
  BY <1>1, SMT DEF size_to_class, size_to_class_medium, SmallMax, MediumMax
<1>12. class_to_size(30 + c) = s
  <2>1. ~(30 + c < 30) /\ 30 + c < 47 /\ (30 + c) - 30 = c
    BY <1>5, SMT
  <2> QED BY <2>1, <1>6, SMT DEF class_to_size
<1>13. size_class_align(size) = s
  <2>1. (30 + c) - 30 = c
    BY <1>5, SMT
  <2>2. size_to_class_medium(size) = 30 + c
    BY <1>1, SMT DEF size_to_class_medium
  <2> QED BY <1>6, <2>1, <2>2, SMT DEF size_class_align, SmallMax, MediumMax
<1> QED BY <1>10, <1>11, <1>12, <1>13, SMT

\* A number of pages that holds the size, and less than a page more.
LEMMA WholePages ==
  ASSUME NEW n \in Nat \ {0}, NEW p \in Nat \ {0}
  PROVE  /\ ((n + p - 1) \div p) * p \in n .. n + p - 1
         /\ (((n + p - 1) \div p) * p) % p = 0
<1>1. PICK a \in Nat : a = n + p - 1
  OBVIOUS
<1>2. PICK q : q = a \div p
  OBVIOUS
<1>3. PICK r : r = a % p
  OBVIOUS
<1>4. q \in Int /\ r \in 0 .. p - 1 /\ a = p * q + r
  BY <1>1, <1>2, <1>3
<1>a. q * p \in Int
  BY <1>4
<1>b. PICK m : m = q * p
  OBVIOUS
<1>5. m \in Int
  BY <1>a, <1>b
<1>6. m \in Int /\ m = p * q
  BY <1>4, <1>b
<1>7. m \in n .. n + p - 1
  BY <1>1, <1>4, <1>6
<1>8. m % p = 0
  <2>1. PICK d : d = m \div p
    OBVIOUS
  <2>2. PICK e : e = m % p
    OBVIOUS
  <2>3. d \in Int /\ e \in 0 .. p - 1 /\ m = p * d + e
    BY <1>5, <2>1, <2>2
  <2>4. PICK z : z = q - d
    OBVIOUS
  <2>5. z \in Int /\ p * z = e
    BY <1>4, <1>6, <2>3, <2>4
  <2>6. ~(z >= 1)
    <3> SUFFICES ASSUME z >= 1 PROVE FALSE
      OBVIOUS
    <3>1. p * (z - 1) >= 0
      BY <2>5
    <3>2. p * (z - 1) = p * z - p
      BY <2>5
    <3> QED BY <2>3, <2>5, <3>1, <3>2
  <2>7. ~(z <= -1)
    <3> SUFFICES ASSUME z <= -1 PROVE FALSE
      OBVIOUS
    <3>1. p * (-1 - z) >= 0
      BY <2>5
    <3>2. p * (-1 - z) = -p - p * z
      BY <2>5
    <3> QED BY <2>3, <2>5, <3>1, <3>2
  <2>8. z = 0
    BY <2>5, <2>6, <2>7
  <2> QED BY <2>2, <2>5, <2>8
<1> QED BY <1>1, <1>2, <1>b, <1>7, <1>8

\* A request is a positive number.
LEMMA RequestsPositive == Requests \in SUBSET (Nat \ {0})
<1>1. \A b \in Boundaries : b \in Nat /\ 8 <= b
  BY BoundariesAre, SmallOrder, MediumOrder, SMT
<1>2. \A s \in {b + d : b \in Boundaries, d \in {-1, 0, 1}} : s \in Nat \ {0}
  BY <1>1, SMT
<1>3. \A s \in LargeSizes \union SmallSizes : s \in Nat \ {0}
  <2>1. SmallSizes \subseteq Nat \ {0}
    BY SizeClassAssumption, SMT
  <2>2. \A s \in LargeSizes : s \in Nat /\ s # 0
    BY SizeClassAssumption, SMT
  <2>3. \A s \in LargeSizes : s \in Nat \ {0}
    BY <2>2
  <2> QED BY <2>1, <2>3, Zenon
<1> QED BY <1>2, <1>3, SMT DEF Requests

\* Every request is given the smallest block size that holds it, on any page size,
\* and one above 1 MB the fewest whole pages.
LEMMA TightAlways == page_size \in PageSizes => TightestFit
<1> SUFFICES ASSUME page_size \in PageSizes PROVE TightestFit
  OBVIOUS
<1>1. page_size \in Nat \ {0}
  BY SizeClassAssumption, SMT
<1>2. ASSUME NEW size \in Requests, size <= MediumMax
      PROVE  /\ class_to_size(size_to_class(size)) = Min({b \in Boundaries : b >= size})
             /\ size_class_align(size) = class_to_size(size_to_class(size))
  <2>1. size \in Nat \ {0}
    BY RequestsPositive, SMT
  <2>2. size <= SmallMax \/ size > SmallMax
    BY <2>1, SMT DEF SmallMax
  <2> QED BY <1>2, <2>1, <2>2, TightSmall, TightMedium, Zenon
<1>3. ASSUME NEW size \in Requests, ~(size <= MediumMax)
      PROVE  /\ is_large_class_idx(size_to_class(size)) /\ class_to_size(size_to_class(size)) = 0
             /\ size_class_align(size) \in size .. size + page_size - 1
             /\ size_class_align(size) % page_size = 0
  <2>1. size \in Nat \ {0}
    BY RequestsPositive, SMT
  <2>2. ~(size <= SmallMax)
    BY <1>3, <2>1, SMT DEF SmallMax, MediumMax
  <2>3. size_to_class(size) = 47
    BY <1>3, <2>2, SMT DEF size_to_class, NumClasses, NumSmall, NumMedium
  <2>4. is_large_class_idx(47) /\ class_to_size(47) = 0
    BY SMT DEF is_large_class_idx, class_to_size, NumClasses, NumSmall, NumMedium
  <2>5. size_class_align(size) = ((size + page_size - 1) \div page_size) * page_size
    BY <1>3, <2>2, Zenon DEF size_class_align, Pages
  <2> QED BY <1>1, <2>1, <2>3, <2>4, <2>5, WholePages, Zenon
<1> QED BY <1>2, <1>3, Zenon DEF TightestFit

\* size_to_class and size_class_align, which each search the tables on their own,
\* agree on the smallest block that holds the request, for any page size and any
\* sizes besides those around the boundaries.
THEOREM RequestsFitTightly == Spec => []TightestFit
<1>1. Init => page_size \in PageSizes
  BY DEF Init
<1>2. page_size \in PageSizes /\ [Next]_vars => (page_size \in PageSizes)'
  BY DEF Next, vars
<1> QED BY <1>1, <1>2, TightAlways, PTL DEF Spec

=============================================================================
