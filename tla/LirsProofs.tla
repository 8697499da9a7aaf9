----------------------------- MODULE LirsProofs -----------------------------
(***************************************************************************)
(* The lists and the counters of a LIRS cache, and the owners of the       *)
(* blocks of a bin, proved for every set of keys and threads and every     *)
(* capacity.                                                               *)
(*                                                                         *)
(* What is said of a cache is kept by every helper, which takes one cache  *)
(* and returns another; an operation is a composition of helpers.  That    *)
(* the queue is not too long between operations is what keeps a block that *)
(* was promoted, or demoted, from being evicted by the same call.          *)
(***************************************************************************)
EXTENDS LirsManager, SumTheorems, SequenceTheorems

-----------------------------------------------------------------------------
(* The invariant of a cache.                                               *)

AnyBlocks == UNION {[D -> Block] : D \in SUBSET Keys}

AnyCache == [S : Seq(Keys), Q : Seq(Keys), blocks : AnyBlocks,
             lir : Int, hir : Int, total : 0 .. Word - 1]

Kind(c, type) == {k \in DOMAIN c.blocks : c.blocks[k].type = type}

\* Neither list holds a key twice.  Q has the resident HIR blocks, S all the
\* others and some of those, and there is nothing else in the table.
Listed(c) ==
  /\ IsInjective(c.S) /\ IsInjective(c.Q)
  /\ Range(c.S) \subseteq DOMAIN c.blocks
  /\ Range(c.Q) = Kind(c, HIR_RESIDENT)
  /\ DOMAIN c.blocks = Range(c.S) \union Range(c.Q)

Counted(c) == c.lir = Cardinality(Kind(c, LIR)) /\ c.hir = Cardinality(Kind(c, HIR_RESIDENT))

Sound(c) == c \in AnyCache /\ Listed(c) /\ Counted(c)

ResidentIn(c) == {k \in DOMAIN c.blocks : c.blocks[k].type # HIR_NON_RESIDENT}

\* total_size is right.
Weighed(c) == c.total = Wrap(SizesOf(c, ResidentIn(c)))

\* Between two operations nothing is left to evict.
Settled(c) == Len(c.Q) <= hir_capacity

\* The invariant of a cache that was created, and an empty one before.
LirsInv ==
  /\ status \in {"none", "live", "stuck", "fault"}
  /\ capacity \in Capacities \union {0}
  /\ status = "live" => capacity \in Capacities
  /\ status # "live" => Cache = Empty
  /\ miscounted \in BOOLEAN
  /\ Sound(Cache) /\ Settled(Cache)
  /\ ~miscounted => Weighed(Cache)

-----------------------------------------------------------------------------
(* Numbers, sets and lists.                                                *)

\* What is assumed of the constants.
LEMMA Constants == hir_capacity \in Nat \ {0} /\ Word \in Nat \ {0}
  BY LirsAssumption DEF hir_capacity

\* A value of total_size is below the modulus.
LEMMA WrapRange ==
  ASSUME NEW n \in Int
  PROVE  Wrap(n) \in 0 .. Word - 1
  BY Constants DEF Wrap

\* The least of a set of numbers is in it.
LEMMA MinIsIn ==
  ASSUME NEW A \in SUBSET Nat, A # {}
  PROVE  Min(A) \in A /\ \A y \in A : Min(A) <= y
  BY LeastIsIn DEF Min

\* So is the greatest, if there is a bound.
LEMMA MaxIsIn ==
  ASSUME NEW n \in Nat, NEW A \in SUBSET (0 .. n), A # {}
  PROVE  Max(A) \in A /\ \A y \in A : Max(A) >= y
<1> DEFINE B == {n - x : x \in A}
<1>1. B \in SUBSET Nat /\ B # {}
  <2>1. \A x \in A : n - x \in Nat
    OBVIOUS
  <2> QED BY <2>1, Zenon
<1>2. PICK b \in B : \A y \in B : b <= y
  BY <1>1, LeastIsIn
<1>3. PICK x \in A : b = n - x
  BY <1>2
<1>4. \A y \in A : x >= y
  BY <1>2, <1>3
<1> QED BY <1>4 DEF Max

\* Lists that hold nothing twice.
LEMMA ListOf ==
  ASSUME NEW T, NEW s \in Seq(T)
  PROVE  /\ Len(s) \in Nat /\ DOMAIN s = 1 .. Len(s)
         /\ \A i \in 1 .. Len(s) : s[i] \in T
         /\ Range(s) = {s[i] : i \in 1 .. Len(s)}
         /\ Range(s) \subseteq T
         /\ \A e : Contains(s, e) <=> e \in Range(s)
  BY LenProperties DEF Range, Contains

\* How many a list has that holds nothing twice.
LEMMA ListCount ==
  ASSUME NEW T, NEW s \in Seq(T)
  PROVE  /\ IsFiniteSet(Range(s))
         /\ IsInjective(s) => Cardinality(Range(s)) = Len(s)
<1>1. Len(s) \in Nat /\ DOMAIN s = 1 .. Len(s) /\ s \in [1 .. Len(s) -> T]
  BY LenProperties
<1>2. s \in Surjection(1 .. Len(s), Range(s))
  BY <1>1 DEF Surjection, Range
<1>3. IsFiniteSet(1 .. Len(s)) /\ Cardinality(1 .. Len(s)) = Len(s)
  BY <1>1, FS_Interval
<1>4. IsFiniteSet(Range(s))
  BY <1>2, <1>3, FS_Surjection
<1>5. ASSUME IsInjective(s)
      PROVE  Cardinality(Range(s)) = Len(s)
  <2>1. s \in Bijection(1 .. Len(s), Range(s))
    BY <1>1, <1>2, <1>5 DEF Bijection, Injection, Surjection, IsInjective
  <2> QED BY <2>1, <1>3, FS_Bijection DEF ExistsBijection
<1> QED BY <1>4, <1>5

\* The nodes of a list after the first m and up to the nth.
LEMMA NodesBetween ==
  ASSUME NEW T, NEW s \in Seq(T), NEW m \in 0 .. Len(s), NEW n \in m .. Len(s), NEW b,
         b = SubSeq(s, m + 1, n)
  PROVE  /\ b \in Seq(T) /\ Len(b) = n - m
         /\ \A i \in 1 .. n - m : b[i] = s[m + i]
<1>1. Len(s) \in Nat /\ \A i \in m + 1 .. n : s[i] \in T
  BY ListOf
<1>2. /\ SubSeq(s, m + 1, n) \in Seq(T)
      /\ Len(SubSeq(s, m + 1, n)) = IF m + 1 <= n THEN n - (m + 1) + 1 ELSE 0
      /\ \A i \in 1 .. n - (m + 1) + 1 : SubSeq(s, m + 1, n)[i] = s[(m + 1) + i - 1]
  <2>1. m + 1 \in Int /\ n \in Int
    BY <1>1
  <2> QED BY <1>1, <2>1, SubSeqProperties
<1>3. /\ b \in Seq(T)
      /\ Len(b) = IF m + 1 <= n THEN n - (m + 1) + 1 ELSE 0
      /\ \A i \in 1 .. n - (m + 1) + 1 : b[i] = s[(m + 1) + i - 1]
  BY <1>2, Zenon
<1>4. Len(b) = n - m
  BY <1>1, <1>3
<1>5. ASSUME NEW i \in 1 .. n - m
      PROVE  b[i] = s[m + i]
  <2>1. i \in 1 .. n - (m + 1) + 1 /\ (m + 1) + i - 1 = m + i
    BY <1>1
  <2>2. b[i] = s[(m + 1) + i - 1]
    BY <1>3, <2>1, Zenon
  <2> QED BY <2>1, <2>2, Zenon
<1> QED BY <1>3, <1>4, <1>5, Zenon

\* A node is taken out of a list.
LEMMA RemovedFirst ==
  ASSUME NEW T, NEW s \in Seq(T), IsInjective(s), NEW e
  PROVE  /\ RemoveFirst(s, e) \in Seq(T)
         /\ IsInjective(RemoveFirst(s, e))
         /\ Range(RemoveFirst(s, e)) = Range(s) \ {e}
         /\ Len(RemoveFirst(s, e)) = IF e \in Range(s) THEN Len(s) - 1 ELSE Len(s)
<1> DEFINE I == {i \in 1 .. Len(s) : s[i] = e}
<1>1. /\ Len(s) \in Nat /\ DOMAIN s = 1 .. Len(s)
      /\ \A i \in 1 .. Len(s) : s[i] \in T
      /\ Range(s) = {s[i] : i \in 1 .. Len(s)}
  BY ListOf
<1>2. CASE I = {}
  <2>1. e \notin Range(s)
    BY <1>1, <1>2
  <2>2. RemoveFirst(s, e) = s
    BY <1>2 DEF RemoveFirst
  <2> QED BY <2>1, <2>2
<1>3. CASE I # {}
  <2>1. I \in SUBSET Nat
    BY <1>1
  <2>2. PICK m : m = Min(I)
    OBVIOUS
  <2>3. m \in 1 .. Len(s) /\ s[m] = e
    BY <1>3, <2>1, <2>2, MinIsIn
  <2>4. RemoveFirst(s, e) = RemoveAt(s, m)
    BY <1>3, <2>2 DEF RemoveFirst, SelectInSeq
  <2>a. PICK a : a = SubSeq(s, 1, m - 1)
    OBVIOUS
  <2>b. PICK b : b = SubSeq(s, m + 1, Len(s))
    OBVIOUS
  <2> DEFINE r == a \o b
  <2>5. /\ a \in Seq(T) /\ Len(a) = m - 1
        /\ \A i \in 1 .. m - 1 : a[i] = s[i]
    <3>1. 0 \in 0 .. Len(s) /\ m - 1 \in 0 .. Len(s) /\ (m - 1) - 0 = m - 1
      BY <1>1, <2>3
    <3>a. m - 1 \in 0 .. Len(s) /\ a = SubSeq(s, 0 + 1, m - 1)
      BY <1>1, <2>3, <2>a
    <3>2. /\ a \in Seq(T) /\ Len(a) = (m - 1) - 0
          /\ \A i \in 1 .. (m - 1) - 0 : a[i] = s[0 + i]
      BY <3>1, <3>a, NodesBetween
    <3>3. ASSUME NEW i \in 1 .. m - 1
          PROVE  a[i] = s[i]
      <4>1. 0 + i = i
        BY <2>3
      <4> QED BY <3>1, <3>2, <4>1, Zenon
    <3> QED BY <3>1, <3>2, <3>3, Zenon
  <2>6. /\ b \in Seq(T) /\ Len(b) = Len(s) - m
        /\ \A i \in 1 .. Len(s) - m : b[i] = s[m + i]
    <3>1. m \in 0 .. Len(s) /\ Len(s) \in m .. Len(s)
      BY <1>1, <2>3
    <3> QED BY <3>1, <2>b, NodesBetween
  <2>7. /\ r \in Seq(T) /\ Len(r) = Len(s) - 1
        /\ \A i \in 1 .. Len(s) - 1 : r[i] = IF i < m THEN s[i] ELSE s[i + 1]
    <3>1. /\ r \in Seq(T) /\ Len(r) = Len(a) + Len(b)
          /\ \A i \in 1 .. Len(a) + Len(b) : r[i] = IF i <= Len(a) THEN a[i] ELSE b[i - Len(a)]
      BY <2>5, <2>6, ConcatProperties
    <3>2. Len(r) = Len(s) - 1
      BY <1>1, <2>3, <2>5, <2>6, <3>1
    <3>3. ASSUME NEW i \in 1 .. Len(s) - 1
          PROVE  r[i] = IF i < m THEN s[i] ELSE s[i + 1]
      <4>1. CASE i < m
        BY <1>1, <2>3, <2>5, <2>6, <3>1, <4>1
      <4>2. CASE i >= m
        <5>1. i - (m - 1) \in 1 .. Len(s) - m /\ ~(i <= Len(a)) /\ i \in 1 .. Len(a) + Len(b)
          BY <1>1, <2>3, <2>5, <2>6, <4>2
        <5>2. r[i] = b[i - (m - 1)] /\ b[i - (m - 1)] = s[m + (i - (m - 1))]
          BY <2>5, <2>6, <3>1, <5>1
        <5>3. m + (i - (m - 1)) = i + 1
          BY <1>1, <2>3
        <5>4. ~(i < m)
          BY <4>2, <2>3
        <5> QED BY <5>2, <5>3, <5>4
      <4>3. i < m \/ i >= m
        BY <2>3, <1>1
      <4> QED BY <4>1, <4>2, <4>3, Zenon
    <3> QED BY <3>1, <3>2, <3>3
  <2>8. r = RemoveAt(s, m)
    BY <2>a, <2>b DEF RemoveAt
  <2> HIDE DEF r
  <2>9. DOMAIN r = 1 .. Len(s) - 1 /\ Range(r) = {r[i] : i \in 1 .. Len(s) - 1}
    BY <2>7, ListOf
  <2>10. IsInjective(r)
    <3> SUFFICES ASSUME NEW i \in 1 .. Len(s) - 1, NEW j \in 1 .. Len(s) - 1, r[i] = r[j]
                 PROVE  i = j
      BY <2>9 DEF IsInjective
    <3>1. \A x, y \in 1 .. Len(s) : s[x] = s[y] => x = y
      BY <1>1 DEF IsInjective
    <3>2. i \in 1 .. Len(s) /\ i + 1 \in 1 .. Len(s) /\ j \in 1 .. Len(s) /\ j + 1 \in 1 .. Len(s)
      BY <1>1
    <3> QED BY <3>1, <3>2, <2>7, <2>3
  <2>11. Range(r) = Range(s) \ {e}
    <3>1. \A x, y \in 1 .. Len(s) : s[x] = s[y] => x = y
      BY <1>1 DEF IsInjective
    <3>2. ASSUME NEW i \in 1 .. Len(s) - 1
          PROVE  r[i] \in Range(s) \ {e}
      <4>1. i \in 1 .. Len(s) /\ i + 1 \in 1 .. Len(s)
        BY <1>1
      <4> QED BY <4>1, <3>1, <2>7, <2>3, <1>1
    <3>3. ASSUME NEW i \in 1 .. Len(s), s[i] # e
          PROVE  s[i] \in Range(r)
      <4>1. CASE i < m
        <5>1. i \in 1 .. Len(s) - 1 /\ r[i] = s[i]
          BY <4>1, <2>3, <1>1, <2>7
        <5> QED BY <5>1, <2>9
      <4>2. CASE i > m
        <5>1. i - 1 \in 1 .. Len(s) - 1 /\ ~(i - 1 < m) /\ (i - 1) + 1 = i
          BY <4>2, <2>3, <1>1
        <5>2. r[i - 1] = s[i]
          BY <5>1, <2>7
        <5> QED BY <5>1, <5>2, <2>9
      <4> QED BY <4>1, <4>2, <3>3, <2>3
    <3> QED BY <3>2, <3>3, <2>9, <1>1
  <2>12. e \in Range(s)
    BY <1>1, <2>3
  <2> QED BY <2>4, <2>7, <2>8, <2>10, <2>11, <2>12
<1> QED BY <1>2, <1>3

\* The first nodes of a list, and the others.
LEMMA FirstNodes ==
  ASSUME NEW T, NEW s \in Seq(T), IsInjective(s), NEW m \in 0 .. Len(s)
  PROVE  /\ SubSeq(s, 1, m) \in Seq(T) /\ IsInjective(SubSeq(s, 1, m)) /\ Len(SubSeq(s, 1, m)) = m
         /\ Range(SubSeq(s, 1, m)) = {s[i] : i \in 1 .. m}
         /\ Range(SubSeq(s, 1, m)) = Range(s) \ {s[i] : i \in m + 1 .. Len(s)}
<1>a. PICK a : a = SubSeq(s, 1, m)
  OBVIOUS
<1>1. /\ Len(s) \in Nat /\ DOMAIN s = 1 .. Len(s)
      /\ Range(s) = {s[i] : i \in 1 .. Len(s)}
  BY ListOf
<1>2. /\ a \in Seq(T) /\ Len(a) = m
      /\ \A i \in 1 .. m : a[i] = s[i]
  <2>a. 0 \in 0 .. Len(s) /\ m \in 0 .. Len(s)
    BY <1>1
  <2>b. a = SubSeq(s, 0 + 1, m)
    BY <1>a
  <2>1. /\ a \in Seq(T) /\ Len(a) = m - 0
        /\ \A i \in 1 .. m - 0 : a[i] = s[0 + i]
    BY <2>a, <2>b, NodesBetween
  <2>2. m - 0 = m
    OBVIOUS
  <2>3. ASSUME NEW i \in 1 .. m
        PROVE  a[i] = s[i]
    BY <2>1, <2>2
  <2> QED BY <2>1, <2>2, <2>3
<1>3. DOMAIN a = 1 .. m /\ Range(a) = {a[i] : i \in 1 .. m}
  BY <1>2, ListOf
<1>4. \A x, y \in 1 .. Len(s) : s[x] = s[y] => x = y
  BY <1>1 DEF IsInjective
<1>5. IsInjective(a)
  BY <1>1, <1>2, <1>3, <1>4 DEF IsInjective
<1>6. Range(a) = {s[i] : i \in 1 .. m}
  BY <1>2, <1>3
<1>7. Range(a) = Range(s) \ {s[i] : i \in m + 1 .. Len(s)}
  BY <1>1, <1>4, <1>6
<1> QED BY <1>a, <1>2, <1>5, <1>6, <1>7, Zenon

\* The last nodes of a list are those that are not among the first.
LEMMA LastNodes ==
  ASSUME NEW T, NEW s \in Seq(T), IsInjective(s), NEW m \in 0 .. Len(s)
  PROVE  /\ SubSeq(s, m + 1, Len(s)) \in Seq(T) /\ IsInjective(SubSeq(s, m + 1, Len(s)))
         /\ Len(SubSeq(s, m + 1, Len(s))) = Len(s) - m
         /\ Range(SubSeq(s, m + 1, Len(s))) = Range(s) \ {s[i] : i \in 1 .. m}
<1>a. PICK b : b = SubSeq(s, m + 1, Len(s))
  OBVIOUS
<1>1. /\ Len(s) \in Nat /\ DOMAIN s = 1 .. Len(s)
      /\ Range(s) = {s[i] : i \in 1 .. Len(s)}
  BY ListOf
<1>2. /\ b \in Seq(T) /\ Len(b) = Len(s) - m
      /\ \A i \in 1 .. Len(s) - m : b[i] = s[m + i]
  <2>0. Len(s) \in m .. Len(s)
    BY <1>1
  <2>1. PICK n \in m .. Len(s) : n = Len(s)
    BY <2>0, Zenon
  <2>2. b = SubSeq(s, m + 1, n)
    BY <1>a, <2>1, Zenon
  <2>3. /\ b \in Seq(T) /\ Len(b) = n - m
        /\ \A i \in 1 .. n - m : b[i] = s[m + i]
    BY <2>2, NodesBetween
  <2> QED BY <2>1, <2>3
<1>3. DOMAIN b = 1 .. Len(s) - m /\ Range(b) = {b[i] : i \in 1 .. Len(s) - m}
  BY <1>2, ListOf
<1>4. \A x, y \in 1 .. Len(s) : s[x] = s[y] => x = y
  BY <1>1 DEF IsInjective
<1>5. IsInjective(b)
  <2> SUFFICES ASSUME NEW i \in 1 .. Len(s) - m, NEW j \in 1 .. Len(s) - m, b[i] = b[j]
               PROVE  i = j
    BY <1>3, Zenon DEF IsInjective
  <2>1. m + i \in 1 .. Len(s) /\ m + j \in 1 .. Len(s)
    BY <1>1
  <2>2. s[m + i] = s[m + j]
    BY <1>2, Zenon
  <2>3. m + i = m + j
    BY <1>4, <2>1, <2>2, Zenon
  <2> QED BY <2>3, <1>1
<1>6. ASSUME NEW i \in 1 .. Len(s) - m
      PROVE  b[i] \in Range(s) \ {s[j] : j \in 1 .. m}
  <2>1. m + i \in 1 .. Len(s) /\ m + i > m /\ \A j \in 1 .. m : j \in 1 .. Len(s) /\ j # m + i
    BY <1>1
  <2> QED BY <1>1, <1>2, <1>4, <2>1
<1>7. ASSUME NEW i \in 1 .. Len(s), i > m
      PROVE  s[i] \in Range(b)
  <2>1. i - m \in 1 .. Len(s) - m /\ m + (i - m) = i
    BY <1>1, <1>7
  <2>2. b[i - m] = s[i]
    BY <1>2, <2>1, Zenon
  <2> QED BY <2>1, <2>2, <1>3
<1>8. Range(b) = Range(s) \ {s[i] : i \in 1 .. m}
  BY <1>1, <1>3, <1>6, <1>7
<1> QED BY <1>a, <1>2, <1>5, <1>8, Zenon

\* Two lists that share no node.
LEMMA JoinedLists ==
  ASSUME NEW T, NEW s \in Seq(T), NEW u \in Seq(T), IsInjective(s), IsInjective(u),
         Range(s) \cap Range(u) = {}
  PROVE  /\ s \o u \in Seq(T) /\ IsInjective(s \o u)
         /\ Len(s \o u) = Len(s) + Len(u)
         /\ Range(s \o u) = Range(s) \union Range(u)
<1>1. /\ Len(s) \in Nat /\ DOMAIN s = 1 .. Len(s)
      /\ Range(s) = {s[i] : i \in 1 .. Len(s)}
      /\ Len(u) \in Nat /\ DOMAIN u = 1 .. Len(u)
      /\ Range(u) = {u[i] : i \in 1 .. Len(u)}
  BY ListOf
<1> DEFINE r == s \o u
<1>2. /\ r \in Seq(T) /\ Len(r) = Len(s) + Len(u)
      /\ \A i \in 1 .. Len(s) + Len(u) : r[i] = IF i <= Len(s) THEN s[i] ELSE u[i - Len(s)]
  BY ConcatProperties
<1>3. DOMAIN r = 1 .. Len(s) + Len(u)
  BY <1>2, ListOf
<1>4. Range(r) = Range(s) \union Range(u)
  BY RangeConcatenation
<1> HIDE DEF r
<1>5. IsInjective(r)
  <2> SUFFICES ASSUME NEW i \in 1 .. Len(s) + Len(u), NEW j \in 1 .. Len(s) + Len(u), r[i] = r[j]
               PROVE  i = j
    BY <1>3 DEF IsInjective
  <2>1. /\ \A x, y \in 1 .. Len(s) : s[x] = s[y] => x = y
        /\ \A x, y \in 1 .. Len(u) : u[x] = u[y] => x = y
    BY <1>1 DEF IsInjective
  <2>2. CASE i <= Len(s) /\ j <= Len(s)
    BY <2>1, <2>2, <1>1, <1>2
  <2>3. CASE i > Len(s) /\ j > Len(s)
    <3>1. i - Len(s) \in 1 .. Len(u) /\ j - Len(s) \in 1 .. Len(u)
      BY <2>3, <1>1
    <3>2. u[i - Len(s)] = u[j - Len(s)]
      BY <2>3, <1>1, <1>2
    <3>3. i - Len(s) = j - Len(s)
      BY <2>1, <3>1, <3>2
    <3> QED BY <3>3, <1>1
  <2>4. ASSUME NEW x \in 1 .. Len(s) + Len(u), NEW y \in 1 .. Len(s) + Len(u),
               x <= Len(s), y > Len(s), r[x] = r[y]
        PROVE  FALSE
    <3>1. x \in 1 .. Len(s) /\ y - Len(s) \in 1 .. Len(u)
      BY <2>4, <1>1
    <3>2. r[x] = s[x] /\ r[y] = u[y - Len(s)]
      BY <2>4, <1>1, <1>2
    <3> QED BY <2>4, <3>1, <3>2, <1>1
  <2> QED BY <2>2, <2>3, <2>4, <1>1
<1> QED BY <1>2, <1>4, <1>5 DEF r

\* A list of one node.
LEMMA SingleNode ==
  ASSUME NEW T, NEW e \in T
  PROVE  /\ <<e>> \in Seq(T) /\ IsInjective(<<e>>)
         /\ Len(<<e>>) = 1 /\ Range(<<e>>) = {e}
<1>1. <<e>> \in Seq(T) /\ Len(<<e>>) = 1 /\ <<e>>[1] = e
  OBVIOUS
<1>2. DOMAIN <<e>> = 1 .. 1 /\ Range(<<e>>) = {<<e>>[i] : i \in 1 .. 1}
  BY <1>1, ListOf
<1> QED BY <1>1, <1>2 DEF IsInjective

\* A list with a node that was not in it.
LEMMA AppendedNode ==
  ASSUME NEW T, NEW s \in Seq(T), IsInjective(s), NEW e \in T, e \notin Range(s)
  PROVE  /\ Append(s, e) \in Seq(T) /\ IsInjective(Append(s, e))
         /\ Len(Append(s, e)) = Len(s) + 1
         /\ Range(Append(s, e)) = Range(s) \union {e}
<1>1. Append(s, e) = s \o <<e>>
  BY AppendIsConcat
<1>2. <<e>> \in Seq(T) /\ IsInjective(<<e>>) /\ Len(<<e>>) = 1 /\ Range(<<e>>) = {e}
  BY SingleNode
<1>3. Range(s) \cap Range(<<e>>) = {}
  BY <1>2
<1>4. s \o <<e>> \in Seq(T) /\ IsInjective(s \o <<e>>) /\ Len(s \o <<e>>) = Len(s) + Len(<<e>>)
      /\ Range(s \o <<e>>) = Range(s) \union Range(<<e>>)
  <2>1. PICK u : u = <<e>>
    OBVIOUS
  <2>2. u \in Seq(T) /\ IsInjective(u) /\ Range(s) \cap Range(u) = {}
    BY <1>2, <1>3, <2>1, Zenon
  <2>3. /\ s \o u \in Seq(T) /\ IsInjective(s \o u)
        /\ Len(s \o u) = Len(s) + Len(u) /\ Range(s \o u) = Range(s) \union Range(u)
    BY <2>2, JoinedLists, ZenonT(40)
  <2> QED BY <2>1, <2>3, Zenon
<1> QED BY <1>1, <1>2, <1>4, Zenon

-----------------------------------------------------------------------------
(* Caches.                                                                 *)

\* The types of the parts of a cache.
LEMMA CacheParts ==
  ASSUME NEW c \in AnyCache
  PROVE  /\ c.S \in Seq(Keys) /\ c.Q \in Seq(Keys)
         /\ c.lir \in Int /\ c.hir \in Int /\ c.total \in 0 .. Word - 1
         /\ c.blocks \in AnyBlocks
         /\ DOMAIN c.blocks \subseteq Keys
         /\ c.blocks \in [DOMAIN c.blocks -> Block]
         /\ \A k \in DOMAIN c.blocks : c.blocks[k] \in Block
<1>1. c.blocks \in AnyBlocks
  BY DEF AnyCache
<1>2. PICK D \in SUBSET Keys : c.blocks \in [D -> Block]
  BY <1>1 DEF AnyBlocks
<1> QED BY <1>1, <1>2 DEF AnyCache

\* A block of a table.
LEMMA BlockParts ==
  ASSUME NEW b \in Block
  PROVE  b.type \in {LIR, HIR_RESIDENT, HIR_NON_RESIDENT} /\ b.value \in Values
  BY DEF Block

\* The three statuses are different.
LEMMA TypesDiffer == LIR # HIR_RESIDENT /\ LIR # HIR_NON_RESIDENT /\ HIR_RESIDENT # HIR_NON_RESIDENT
  BY DEF LIR, HIR_RESIDENT, HIR_NON_RESIDENT

\* A table is one of AnyBlocks when its keys and its blocks are.
LEMMA TableIs ==
  ASSUME NEW D \in SUBSET Keys, NEW b \in [D -> Block]
  PROVE  b \in AnyBlocks
  BY DEF AnyBlocks

\* The keys of each kind, of which there are finitely many.
LEMMA KindsFinite ==
  ASSUME NEW c \in AnyCache, Listed(c)
  PROVE  /\ IsFiniteSet(DOMAIN c.blocks)
         /\ \A type : IsFiniteSet(Kind(c, type)) /\ Cardinality(Kind(c, type)) \in Nat
         /\ IsFiniteSet(ResidentIn(c))
<1>1. IsFiniteSet(Range(c.S)) /\ IsFiniteSet(Range(c.Q))
  BY CacheParts, ListCount
<1>2. IsFiniteSet(DOMAIN c.blocks)
  BY <1>1, FS_Union DEF Listed
<1>3. \A type : Kind(c, type) \subseteq DOMAIN c.blocks
  BY DEF Kind
<1>4. \A type : IsFiniteSet(Kind(c, type)) /\ Cardinality(Kind(c, type)) \in Nat
  BY <1>2, <1>3, FS_Subset, FS_CardinalityType
<1>5. ResidentIn(c) \subseteq DOMAIN c.blocks
  BY DEF ResidentIn
<1>6. IsFiniteSet(ResidentIn(c))
  BY <1>2, <1>5, FS_Subset
<1> QED BY <1>2, <1>4, <1>6

\* The sizes of what a cache holds.
LEMMA SizesTyped ==
  ASSUME NEW c \in AnyCache, NEW keys \in SUBSET DOMAIN c.blocks, IsFiniteSet(keys)
  PROVE  SizesOf(c, keys) \in Nat
<1>1. \A k \in keys : SizeOf[c.blocks[k].value] \in Nat
  BY CacheParts, BlockParts, LirsAssumption
<1>2. \A k \in keys : [x \in keys |-> SizeOf[c.blocks[x].value]][k] \in Nat
  BY <1>1
<1> QED BY <1>2, SumTyped DEF SizesOf

\* Caches with the same values have the same sizes.
LEMMA SizesAgree ==
  ASSUME NEW c, NEW d, NEW keys, IsFiniteSet(keys),
         \A k \in keys : c.blocks[k].value = d.blocks[k].value
  PROVE  SizesOf(c, keys) = SizesOf(d, keys)
<1> DEFINE f == [k \in keys |-> SizeOf[c.blocks[k].value]]
           g == [k \in keys |-> SizeOf[d.blocks[k].value]]
<1>1. \A k \in keys : f[k] = g[k]
  OBVIOUS
<1> HIDE DEF f, g
<1>2. SumFunctionOnSet(f, keys) = SumFunctionOnSet(g, keys)
  BY <1>1, SumAgrees
<1> QED BY <1>2 DEF SizesOf, f, g

\* The sizes of a part of the keys and of the others.
LEMMA SizesParts ==
  ASSUME NEW c \in AnyCache, NEW keys \in SUBSET DOMAIN c.blocks, IsFiniteSet(keys),
         NEW part \in SUBSET keys
  PROVE  SizesOf(c, keys) = SizesOf(c, part) + SizesOf(c, keys \ part)
<1> DEFINE f == [k \in keys |-> SizeOf[c.blocks[k].value]]
<1>1. \A k \in keys : f[k] \in Nat /\ f[k] = SizeOf[c.blocks[k].value]
  BY CacheParts, BlockParts, LirsAssumption
<1>2. PICK rest : rest = keys \ part
  OBVIOUS
<1>3. IsFiniteSet(part) /\ IsFiniteSet(rest)
  BY <1>2, FS_Subset
<1> DEFINE g == [k \in part |-> SizeOf[c.blocks[k].value]]
           h == [k \in rest |-> SizeOf[c.blocks[k].value]]
<1>4. \A k \in part : f[k] = g[k]
  OBVIOUS
<1>5. \A k \in rest : f[k] = h[k]
  BY <1>2
<1> HIDE DEF f, g, h
<1>6. SumFunctionOnSet(f, keys) = SumFunctionOnSet(f, part) + SumFunctionOnSet(f, rest)
  BY <1>1, <1>2, SumParts
<1>7. SumFunctionOnSet(f, part) = SumFunctionOnSet(g, part)
  BY <1>3, <1>4, SumAgrees
<1>8. SumFunctionOnSet(f, rest) = SumFunctionOnSet(h, rest)
  BY <1>3, <1>5, SumAgrees
<1>9. SizesOf(c, keys) = SumFunctionOnSet(f, keys) /\ SizesOf(c, part) = SumFunctionOnSet(g, part)
  BY DEF SizesOf, f, g
<1>10. SizesOf(c, rest) = SumFunctionOnSet(h, rest)
  BY DEF SizesOf, h
<1> QED BY <1>2, <1>6, <1>7, <1>8, <1>9, <1>10

\* The size of one block.
LEMMA SizeOfOne ==
  ASSUME NEW c \in AnyCache, NEW k \in DOMAIN c.blocks
  PROVE  SizesOf(c, {k}) = SizeOf[c.blocks[k].value] /\ SizeOf[c.blocks[k].value] \in Nat
<1> DEFINE f == [x \in {k} |-> SizeOf[c.blocks[x].value]]
<1>1. SizeOf[c.blocks[k].value] \in Nat /\ f[k] = SizeOf[c.blocks[k].value]
  BY CacheParts, BlockParts, LirsAssumption
<1> HIDE DEF f
<1>2. IsFiniteSet({}) /\ {} \union {k} = {k} /\ k \notin {}
  BY FS_EmptySet
<1>3. SumFunctionOnSet(f, {k}) = f[k] + SumFunctionOnSet(f, {})
  BY <1>1, <1>2, SumWith
<1>4. SumFunctionOnSet(f, {k}) = f[k]
  BY <1>1, <1>3, SumEmpty
<1> QED BY <1>1, <1>4 DEF SizesOf, f

\* Blocks are destroyed; what the lists say of them is the caller's concern.
LEMMA Destroyed ==
  ASSUME NEW c \in AnyCache, NEW keys
  PROVE  /\ Destroy(c, keys) \in AnyCache
         /\ Destroy(c, keys).S = c.S /\ Destroy(c, keys).Q = c.Q
         /\ Destroy(c, keys).lir = c.lir /\ Destroy(c, keys).hir = c.hir
         /\ Destroy(c, keys).total = c.total
         /\ DOMAIN Destroy(c, keys).blocks = DOMAIN c.blocks \ keys
         /\ \A k \in DOMAIN c.blocks \ keys : Destroy(c, keys).blocks[k] = c.blocks[k]
<1>1. PICK b : b = Restrict(c.blocks, DOMAIN c.blocks \ keys)
  OBVIOUS
<1>2. /\ DOMAIN b = DOMAIN c.blocks \ keys
      /\ \A k \in DOMAIN c.blocks \ keys : b[k] = c.blocks[k]
      /\ b = [k \in DOMAIN c.blocks \ keys |-> c.blocks[k]]
  BY <1>1 DEF Restrict
<1>3. PICK D : D = DOMAIN c.blocks \ keys
  OBVIOUS
<1>4. D \in SUBSET Keys /\ \A k \in D : c.blocks[k] \in Block
  BY <1>3, CacheParts
<1>5. b \in [D -> Block]
  BY <1>2, <1>3, <1>4
<1>6. b \in AnyBlocks
  BY <1>4, <1>5, TableIs
<1>7. Destroy(c, keys) = [c EXCEPT !.blocks = b]
  BY <1>1 DEF Destroy
<1>8. /\ Destroy(c, keys) \in AnyCache /\ Destroy(c, keys).blocks = b
      /\ Destroy(c, keys).S = c.S /\ Destroy(c, keys).Q = c.Q
      /\ Destroy(c, keys).lir = c.lir /\ Destroy(c, keys).hir = c.hir
      /\ Destroy(c, keys).total = c.total
  BY <1>6, <1>7 DEF AnyCache
<1> QED BY <1>2, <1>8

\* Only non-resident blocks were destroyed, and nothing else changed but the lists.
SameResidents(c, r) ==
  /\ DOMAIN r.blocks \subseteq DOMAIN c.blocks
  /\ \A k \in DOMAIN r.blocks : r.blocks[k] = c.blocks[k]
  /\ \A k \in DOMAIN c.blocks : c.blocks[k].type # HIR_NON_RESIDENT => k \in DOMAIN r.blocks
  /\ r.lir = c.lir /\ r.hir = c.hir /\ r.total = c.total

\* What keeps the resident blocks keeps their counters.
LEMMA ResidentsKept ==
  ASSUME NEW c \in AnyCache, NEW r \in AnyCache, SameResidents(c, r), Listed(c)
  PROVE  /\ Kind(r, LIR) = Kind(c, LIR) /\ Kind(r, HIR_RESIDENT) = Kind(c, HIR_RESIDENT)
         /\ ResidentIn(r) = ResidentIn(c)
         /\ Counted(c) => Counted(r)
         /\ Weighed(c) => Weighed(r)
<1>1. Kind(r, LIR) = Kind(c, LIR)
  BY TypesDiffer DEF SameResidents, Kind
<1>2. Kind(r, HIR_RESIDENT) = Kind(c, HIR_RESIDENT)
  BY TypesDiffer DEF SameResidents, Kind
<1>3. ResidentIn(r) = ResidentIn(c)
  BY DEF SameResidents, ResidentIn
<1>4. Counted(c) => Counted(r)
  BY <1>1, <1>2 DEF Counted, SameResidents
<1>5. Weighed(c) => Weighed(r)
  <2>1. PICK keys : keys = ResidentIn(c)
    OBVIOUS
  <2>2. IsFiniteSet(keys)
    BY <2>1, KindsFinite
  <2>3. \A k \in keys : c.blocks[k].value = r.blocks[k].value
    BY <2>1, <1>3 DEF ResidentIn, SameResidents
  <2>4. SizesOf(c, keys) = SizesOf(r, keys)
    BY <2>2, <2>3, SizesAgree
  <2>5. r.total = c.total
    BY DEF SameResidents
  <2> QED BY <2>1, <2>4, <2>5, <1>3 DEF Weighed
<1> QED BY <1>1, <1>2, <1>3, <1>4, <1>5

\* Pruning cuts S below its last LIR block, and destroys what is non-resident there.
LEMMA PruneFields ==
  ASSUME NEW c \in AnyCache
  PROVE  /\ lirs_prune_s_stack(c) \in AnyCache
         /\ lirs_prune_s_stack(c).Q = c.Q
         /\ lirs_prune_s_stack(c).lir = c.lir /\ lirs_prune_s_stack(c).hir = c.hir
         /\ lirs_prune_s_stack(c).total = c.total
         /\ \E m \in 0 .. Len(c.S) :
              /\ \A i \in m + 1 .. Len(c.S) : c.blocks[c.S[i]].type # LIR
              /\ lirs_prune_s_stack(c).S = SubSeq(c.S, 1, m)
              /\ DOMAIN lirs_prune_s_stack(c).blocks =
                   DOMAIN c.blocks \ {k \in {c.S[i] : i \in m + 1 .. Len(c.S)} :
                                         c.blocks[k].type = HIR_NON_RESIDENT}
              /\ \A k \in DOMAIN lirs_prune_s_stack(c).blocks :
                   lirs_prune_s_stack(c).blocks[k] = c.blocks[k]
<1> DEFINE A == {0} \union {i \in DOMAIN c.S : c.blocks[c.S[i]].type = LIR}
<1>1. c.S \in Seq(Keys) /\ Len(c.S) \in Nat /\ DOMAIN c.S = 1 .. Len(c.S)
  BY CacheParts, ListOf
<1>2. PICK m : m = Max(A)
  OBVIOUS
<1>3. m \in 0 .. Len(c.S) /\ \A i \in A : m >= i
  <2>1. A \in SUBSET (0 .. Len(c.S)) /\ A # {}
    BY <1>1
  <2>2. Max(A) \in A /\ \A y \in A : Max(A) >= y
    <3> HIDE DEF A
    <3> QED BY <2>1, <1>1, MaxIsIn
  <2> HIDE DEF A
  <2> QED BY <1>2, <2>1, <2>2
<1>4. \A i \in m + 1 .. Len(c.S) : c.blocks[c.S[i]].type # LIR
  BY <1>1, <1>3
<1>5. PICK gone : gone = {k \in {c.S[i] : i \in m + 1 .. Len(c.S)} : c.blocks[k].type = HIR_NON_RESIDENT}
  OBVIOUS
<1>6. PICK d : d = [c EXCEPT !.S = SubSeq(@, 1, m)]
  OBVIOUS
<1>7. SubSeq(c.S, 1, m) \in Seq(Keys)
  <2>1. \A i \in 1 .. m : c.S[i] \in Keys
    BY <1>1, <1>3, ListOf
  <2> QED BY <2>1, <1>3, SubSeqProperties
<1>8. /\ d \in AnyCache /\ d.S = SubSeq(c.S, 1, m) /\ d.Q = c.Q /\ d.blocks = c.blocks
      /\ d.lir = c.lir /\ d.hir = c.hir /\ d.total = c.total
  BY <1>6, <1>7 DEF AnyCache
<1>9. lirs_prune_s_stack(c) = Destroy(d, gone)
  BY <1>2, <1>5, <1>6 DEF lirs_prune_s_stack
<1>10. PICK r : r = Destroy(d, gone)
  OBVIOUS
<1>11. /\ r \in AnyCache /\ r.S = d.S /\ r.Q = d.Q
       /\ r.lir = d.lir /\ r.hir = d.hir /\ r.total = d.total
       /\ DOMAIN r.blocks = DOMAIN d.blocks \ gone
       /\ \A k \in DOMAIN d.blocks \ gone : r.blocks[k] = d.blocks[k]
  BY <1>8, <1>10, Destroyed
<1>12. lirs_prune_s_stack(c) = r
  BY <1>9, <1>10
<1> QED BY <1>3, <1>4, <1>5, <1>8, <1>11, <1>12, Zenon

\* Pruning destroys blocks that are not resident, those it takes out of S.
LEMMA Pruned ==
  ASSUME NEW c, Sound(c)
  PROVE  /\ Sound(lirs_prune_s_stack(c))
         /\ SameResidents(c, lirs_prune_s_stack(c))
         /\ lirs_prune_s_stack(c).Q = c.Q
         /\ Weighed(c) => Weighed(lirs_prune_s_stack(c))
<1>0. c \in AnyCache /\ Listed(c) /\ Counted(c)
  BY DEF Sound
<1>1. PICK r : r = lirs_prune_s_stack(c)
  OBVIOUS
<1>2. /\ r \in AnyCache /\ r.Q = c.Q /\ r.lir = c.lir /\ r.hir = c.hir /\ r.total = c.total
      /\ \E m \in 0 .. Len(c.S) :
           /\ \A i \in m + 1 .. Len(c.S) : c.blocks[c.S[i]].type # LIR
           /\ r.S = SubSeq(c.S, 1, m)
           /\ DOMAIN r.blocks = DOMAIN c.blocks \ {k \in {c.S[i] : i \in m + 1 .. Len(c.S)} :
                                                     c.blocks[k].type = HIR_NON_RESIDENT}
           /\ \A k \in DOMAIN r.blocks : r.blocks[k] = c.blocks[k]
  BY <1>0, <1>1, PruneFields, Zenon
<1>3. PICK m \in 0 .. Len(c.S) :
           /\ \A i \in m + 1 .. Len(c.S) : c.blocks[c.S[i]].type # LIR
           /\ r.S = SubSeq(c.S, 1, m)
           /\ DOMAIN r.blocks = DOMAIN c.blocks \ {k \in {c.S[i] : i \in m + 1 .. Len(c.S)} :
                                                     c.blocks[k].type = HIR_NON_RESIDENT}
           /\ \A k \in DOMAIN r.blocks : r.blocks[k] = c.blocks[k]
  BY <1>2, Zenon
<1>4. PICK below : below = {c.S[i] : i \in m + 1 .. Len(c.S)}
  OBVIOUS
<1>5. /\ c.S \in Seq(Keys) /\ IsInjective(c.S) /\ IsInjective(c.Q)
      /\ Range(c.S) \subseteq DOMAIN c.blocks
      /\ Range(c.Q) = Kind(c, HIR_RESIDENT)
      /\ DOMAIN c.blocks = Range(c.S) \union Range(c.Q)
  BY <1>0, CacheParts DEF Listed
<1>6. IsInjective(r.S) /\ Range(r.S) = Range(c.S) \ below
  BY <1>3, <1>4, <1>5, FirstNodes
<1>7. \A k \in below : c.blocks[k].type # LIR
  BY <1>3, <1>4
<1>8. DOMAIN r.blocks = DOMAIN c.blocks \ {k \in below : c.blocks[k].type = HIR_NON_RESIDENT}
  BY <1>3, <1>4
<1>9. \A k \in DOMAIN r.blocks : r.blocks[k] = c.blocks[k]
  BY <1>3
<1>10. SameResidents(c, r)
  BY <1>2, <1>8, <1>9 DEF SameResidents
<1>11. /\ Kind(r, HIR_RESIDENT) = Kind(c, HIR_RESIDENT)
       /\ Counted(r) /\ (Weighed(c) => Weighed(r))
  BY <1>0, <1>2, <1>10, ResidentsKept
<1>12. \A k \in DOMAIN c.blocks : c.blocks[k].type \in {LIR, HIR_RESIDENT, HIR_NON_RESIDENT}
  BY <1>0, CacheParts, BlockParts
<1>13. Range(r.S) \subseteq DOMAIN r.blocks
  <2>1. ASSUME NEW k \in Range(c.S), k \notin below
        PROVE  k \in DOMAIN r.blocks
    BY <2>1, <1>5, <1>8
  <2> QED BY <1>6, <2>1
<1>14. Range(r.Q) = Kind(r, HIR_RESIDENT) /\ IsInjective(r.Q)
  BY <1>2, <1>5, <1>11
<1>15. DOMAIN r.blocks = Range(r.S) \union Range(r.Q)
  <2>1. Range(r.Q) \subseteq DOMAIN r.blocks
    BY <1>14 DEF Kind
  <2>2. ASSUME NEW k \in DOMAIN r.blocks, k \notin Range(r.S)
        PROVE  k \in Range(r.Q)
    <3>1. CASE k \in below
      <4>1. c.blocks[k].type # HIR_NON_RESIDENT /\ c.blocks[k].type # LIR /\ k \in DOMAIN c.blocks
        BY <1>7, <1>8, <3>1
      <4>2. c.blocks[k].type = HIR_RESIDENT
        BY <4>1, <1>12
      <4> QED BY <4>1, <4>2, <1>2, <1>5 DEF Kind
    <3>2. CASE k \notin below
      BY <2>2, <3>2, <1>2, <1>5, <1>6, <1>8
    <3> QED BY <3>1, <3>2
  <2> QED BY <1>13, <2>1, <2>2
<1>16. Listed(r)
  BY <1>6, <1>13, <1>14, <1>15 DEF Listed
<1>17. Sound(r)
  BY <1>2, <1>11, <1>16 DEF Sound
<1> QED BY <1>1, <1>2, <1>10, <1>11, <1>17, Zenon

-----------------------------------------------------------------------------
(* Eviction.                                                               *)

\* How many blocks of Q are beyond its capacity.
LEMMA ExcessIs ==
  ASSUME NEW c \in AnyCache
  PROVE  /\ Excess(c) \in 0 .. Len(c.Q) /\ Len(c.Q) \in Nat
         /\ Len(c.Q) - Excess(c) <= hir_capacity
         /\ Settled(c) => Excess(c) = 0
         /\ Excess(c) > 0 => Len(c.Q) - Excess(c) = hir_capacity
<1>1. Len(c.Q) \in Nat
  BY CacheParts, ListOf
<1> QED BY <1>1, Constants DEF Excess, Settled

\* Eviction takes the head of Q; what is not in S is destroyed.
LEMMA EvictFields ==
  ASSUME NEW c \in AnyCache, Listed(c)
  PROVE  /\ lirs_evict_hir(c) \in AnyCache
         /\ lirs_evict_hir(c).S = c.S
         /\ lirs_evict_hir(c).Q = SubSeq(c.Q, Excess(c) + 1, Len(c.Q))
         /\ lirs_evict_hir(c).lir = c.lir /\ lirs_evict_hir(c).hir = c.hir - Excess(c)
         /\ lirs_evict_hir(c).total = Wrap(c.total - SizesOf(c, Evicted(c)))
         /\ DOMAIN lirs_evict_hir(c).blocks = DOMAIN c.blocks \ (Evicted(c) \ Range(c.S))
         /\ \A k \in DOMAIN lirs_evict_hir(c).blocks :
              lirs_evict_hir(c).blocks[k] =
                IF k \in Evicted(c) THEN [c.blocks[k] EXCEPT !.type = HIR_NON_RESIDENT] ELSE c.blocks[k]
<1>1. /\ c.S \in Seq(Keys) /\ c.Q \in Seq(Keys) /\ Range(c.Q) \subseteq DOMAIN c.blocks
      /\ c.lir \in Int /\ c.hir \in Int /\ c.total \in Int
  BY CacheParts, Constants DEF Listed
<1>2. Excess(c) \in 0 .. Len(c.Q) /\ Len(c.Q) \in Nat
  BY ExcessIs
<1>3. Evicted(c) \subseteq Range(c.Q)
  <2>1. Range(c.Q) = {c.Q[i] : i \in 1 .. Len(c.Q)}
    BY <1>1, ListOf
  <2> QED BY <1>2, <2>1 DEF Evicted
<1>4. SizesOf(c, Evicted(c)) \in Nat
  <2>1. IsFiniteSet(Range(c.Q))
    BY <1>1, ListCount
  <2>2. IsFiniteSet(Evicted(c))
    BY <1>3, <2>1, FS_Subset
  <2> QED BY <1>1, <1>3, <2>2, SizesTyped
<1>5. PICK q : q = SubSeq(c.Q, Excess(c) + 1, Len(c.Q))
  OBVIOUS
<1>6. q \in Seq(Keys)
  <2>1. IsInjective(c.Q)
    BY DEF Listed
  <2> QED BY <1>1, <1>2, <1>5, <2>1, LastNodes
<1>7. PICK total : total = Wrap(c.total - SizesOf(c, Evicted(c)))
  OBVIOUS
<1>8. total \in 0 .. Word - 1
  BY <1>1, <1>4, <1>7, WrapRange
<1>9. PICK b : b = [k \in DOMAIN c.blocks |-> IF k \in Evicted(c)
                      THEN [c.blocks[k] EXCEPT !.type = HIR_NON_RESIDENT] ELSE c.blocks[k]]
  OBVIOUS
<1>10. b \in AnyBlocks
  <2>1. \A k \in DOMAIN c.blocks : [c.blocks[k] EXCEPT !.type = HIR_NON_RESIDENT] \in Block
    <3>1. \A x \in Block : [x EXCEPT !.type = HIR_NON_RESIDENT] \in Block
      BY DEF Block
    <3> QED BY <3>1, CacheParts
  <2>2. PICK D : D = DOMAIN c.blocks
    OBVIOUS
  <2>3. D \in SUBSET Keys /\ \A k \in D : c.blocks[k] \in Block
    BY <2>2, CacheParts
  <2>4. b \in [D -> Block]
    BY <1>9, <2>1, <2>2, <2>3
  <2> QED BY <2>3, <2>4, TableIs
<1>11. PICK d : d = [c EXCEPT !.Q = q, !.blocks = b, !.hir = c.hir - Excess(c), !.total = total]
  OBVIOUS
<1>12. /\ d \in AnyCache /\ d.S = c.S /\ d.Q = q /\ d.blocks = b
       /\ d.lir = c.lir /\ d.hir = c.hir - Excess(c) /\ d.total = total
  <2>1. c.hir - Excess(c) \in Int
    BY <1>1, <1>2
  <2> QED BY <2>1, <1>6, <1>8, <1>10, <1>11 DEF AnyCache
<1>13. lirs_evict_hir(c) = Destroy(d, Evicted(c) \ Range(c.S))
  <2>1. lirs_evict_hir(c) =
          Destroy([c EXCEPT !.Q = SubSeq(c.Q, Excess(c) + 1, Len(c.Q)),
                    !.blocks = [k \in DOMAIN c.blocks |-> IF k \in Evicted(c)
                                  THEN [c.blocks[k] EXCEPT !.type = HIR_NON_RESIDENT] ELSE c.blocks[k]],
                    !.hir = c.hir - Excess(c),
                    !.total = Wrap(c.total - SizesOf(c, Evicted(c)))],
          Evicted(c) \ Range(c.S))
    BY Zenon DEF lirs_evict_hir
  <2> QED BY <1>5, <1>7, <1>9, <1>11, <2>1, Zenon
<1>14. PICK gone : gone = Evicted(c) \ Range(c.S)
  OBVIOUS
<1>15. /\ Destroy(d, gone) \in AnyCache
       /\ Destroy(d, gone).S = d.S /\ Destroy(d, gone).Q = d.Q
       /\ Destroy(d, gone).lir = d.lir /\ Destroy(d, gone).hir = d.hir
       /\ Destroy(d, gone).total = d.total
       /\ DOMAIN Destroy(d, gone).blocks = DOMAIN d.blocks \ gone
       /\ \A k \in DOMAIN d.blocks \ gone : Destroy(d, gone).blocks[k] = d.blocks[k]
  BY <1>12, Destroyed
<1>16. PICK r : r = Destroy(d, gone)
  OBVIOUS
<1>17. /\ r \in AnyCache /\ r.S = c.S /\ r.Q = q /\ r.lir = c.lir /\ r.hir = c.hir - Excess(c)
       /\ r.total = total
       /\ DOMAIN r.blocks = DOMAIN c.blocks \ gone
       /\ \A k \in DOMAIN r.blocks : r.blocks[k] = b[k]
  <2>1. DOMAIN b = DOMAIN c.blocks
    BY <1>9
  <2> QED BY <1>12, <1>15, <1>16, <2>1
<1>18. \A k \in DOMAIN r.blocks :
         r.blocks[k] = IF k \in Evicted(c) THEN [c.blocks[k] EXCEPT !.type = HIR_NON_RESIDENT] ELSE c.blocks[k]
  BY <1>9, <1>17
<1>19. lirs_evict_hir(c) = r
  BY <1>13, <1>14, <1>16, Zenon
<1> QED BY <1>5, <1>7, <1>14, <1>17, <1>18, <1>19, Zenon

\* Counting after a part of a set is gone.
LEMMA PartGone ==
  ASSUME NEW A, IsFiniteSet(A), NEW B \in SUBSET A
  PROVE  /\ Cardinality(A) \in Nat /\ Cardinality(B) \in Nat
         /\ Cardinality(A \ B) = Cardinality(A) - Cardinality(B)
<1>1. Cardinality(A \ B) = Cardinality(A) - Cardinality(A \cap B) /\ A \cap B = B
  BY FS_Difference
<1>2. Cardinality(A) \in Nat /\ Cardinality(B) \in Nat
  BY FS_Subset, FS_CardinalityType
<1> QED BY <1>1, <1>2

\* What is evicted: as many blocks as Q has too many, all of them from its head.
LEMMA EvictedIs ==
  ASSUME NEW c \in AnyCache, Listed(c)
  PROVE  /\ Evicted(c) \subseteq Kind(c, HIR_RESIDENT)
         /\ Evicted(c) \subseteq DOMAIN c.blocks
         /\ Cardinality(Evicted(c)) = Excess(c)
         /\ Settled(c) => Evicted(c) = {}
<1>1. c.Q \in Seq(Keys) /\ IsInjective(c.Q) /\ Range(c.Q) = Kind(c, HIR_RESIDENT)
  BY CacheParts DEF Listed
<1>2. Excess(c) \in 0 .. Len(c.Q) /\ Len(c.Q) \in Nat /\ (Settled(c) => Excess(c) = 0)
  BY ExcessIs
<1>3. Range(c.Q) = {c.Q[i] : i \in 1 .. Len(c.Q)}
  BY <1>1, ListOf
<1>4. Evicted(c) \subseteq Range(c.Q)
  BY <1>2, <1>3 DEF Evicted
<1>5. Cardinality(Evicted(c)) = Excess(c)
  <2>1. PICK m \in 0 .. Len(c.Q) : m = Excess(c)
    BY <1>2, Zenon
  <2>2. PICK a : a = SubSeq(c.Q, 1, m)
    OBVIOUS
  <2>3. a \in Seq(Keys) /\ IsInjective(a) /\ Len(a) = m /\ Range(a) = {c.Q[i] : i \in 1 .. m}
    BY <1>1, <2>2, FirstNodes
  <2>4. Cardinality(Range(a)) = m
    BY <2>3, ListCount
  <2> QED BY <2>1, <2>3, <2>4 DEF Evicted
<1>6. Settled(c) => Evicted(c) = {}
  BY <1>2 DEF Evicted
<1>7. Kind(c, HIR_RESIDENT) \subseteq DOMAIN c.blocks
  BY DEF Kind
<1> QED BY <1>1, <1>4, <1>5, <1>6, <1>7

\* The counters and total_size lose what is evicted; what is still in S stays in
\* the table.
LEMMA Evicts ==
  ASSUME NEW c, Sound(c)
  PROVE  /\ Sound(lirs_evict_hir(c)) /\ Settled(lirs_evict_hir(c))
         /\ DOMAIN lirs_evict_hir(c).blocks \subseteq DOMAIN c.blocks
         /\ \A k \in DOMAIN c.blocks \ Evicted(c) :
              k \in DOMAIN lirs_evict_hir(c).blocks /\ lirs_evict_hir(c).blocks[k] = c.blocks[k]
         /\ lirs_evict_hir(c).S = c.S /\ Kind(lirs_evict_hir(c), LIR) = Kind(c, LIR)
         /\ Weighed(c) => Weighed(lirs_evict_hir(c))
<1>0. c \in AnyCache /\ Listed(c) /\ Counted(c)
  BY DEF Sound
<1>1. PICK r : r = lirs_evict_hir(c)
  OBVIOUS
<1>2. PICK E : E = Evicted(c)
  OBVIOUS
<1>3. /\ r \in AnyCache /\ r.S = c.S
      /\ r.Q = SubSeq(c.Q, Excess(c) + 1, Len(c.Q))
      /\ r.lir = c.lir /\ r.hir = c.hir - Excess(c)
      /\ r.total = Wrap(c.total - SizesOf(c, E))
      /\ DOMAIN r.blocks = DOMAIN c.blocks \ (E \ Range(c.S))
      /\ \A k \in DOMAIN r.blocks :
           r.blocks[k] = IF k \in E THEN [c.blocks[k] EXCEPT !.type = HIR_NON_RESIDENT] ELSE c.blocks[k]
  BY <1>0, <1>1, <1>2, EvictFields, Zenon
<1>4. /\ c.S \in Seq(Keys) /\ c.Q \in Seq(Keys) /\ IsInjective(c.S) /\ IsInjective(c.Q)
      /\ Range(c.S) \subseteq DOMAIN c.blocks
      /\ Range(c.Q) = Kind(c, HIR_RESIDENT)
      /\ DOMAIN c.blocks = Range(c.S) \union Range(c.Q)
      /\ c.total \in 0 .. Word - 1
  BY <1>0, CacheParts DEF Listed
<1>5. /\ E \subseteq Kind(c, HIR_RESIDENT) /\ E \subseteq DOMAIN c.blocks
      /\ Cardinality(E) = Excess(c)
  BY <1>0, <1>2, EvictedIs
<1>6. /\ Excess(c) \in 0 .. Len(c.Q) /\ Len(c.Q) \in Nat
      /\ Len(c.Q) - Excess(c) <= hir_capacity
  BY <1>0, ExcessIs
<1>7. IsInjective(r.Q) /\ Len(r.Q) = Len(c.Q) - Excess(c) /\ Range(r.Q) = Range(c.Q) \ E
  <2>1. PICK m \in 0 .. Len(c.Q) : m = Excess(c)
    BY <1>6, Zenon
  <2>2. PICK b : b = SubSeq(c.Q, m + 1, Len(c.Q))
    OBVIOUS
  <2>3. IsInjective(b) /\ Len(b) = Len(c.Q) - m /\ Range(b) = Range(c.Q) \ {c.Q[i] : i \in 1 .. m}
    BY <1>4, <2>2, LastNodes, Zenon
  <2>4. E = {c.Q[i] : i \in 1 .. m}
    BY <1>2, <2>1 DEF Evicted
  <2> QED BY <1>3, <2>1, <2>2, <2>3, <2>4, Zenon
<1>8. \A k \in DOMAIN c.blocks : k \in E => c.blocks[k] \in Block /\ c.blocks[k].type = HIR_RESIDENT
  BY <1>0, <1>5, CacheParts DEF Kind
<1>9. \A x \in Block : [x EXCEPT !.type = HIR_NON_RESIDENT].type = HIR_NON_RESIDENT
  BY DEF Block
<1>10. \A k \in DOMAIN r.blocks :
         /\ k \in DOMAIN c.blocks
         /\ k \in E => r.blocks[k].type = HIR_NON_RESIDENT /\ k \in Range(c.S)
         /\ k \notin E => r.blocks[k] = c.blocks[k]
  BY <1>3, <1>8, <1>9
<1>11. \A k \in DOMAIN c.blocks : k \notin E => k \in DOMAIN r.blocks
  BY <1>3
<1>12. Kind(r, HIR_RESIDENT) = Kind(c, HIR_RESIDENT) \ E
  <2>1. ASSUME NEW k \in Kind(r, HIR_RESIDENT)
        PROVE  k \in Kind(c, HIR_RESIDENT) \ E
    BY <1>10, TypesDiffer DEF Kind
  <2>2. ASSUME NEW k \in Kind(c, HIR_RESIDENT) \ E
        PROVE  k \in Kind(r, HIR_RESIDENT)
    BY <1>10, <1>11 DEF Kind
  <2> QED BY <2>1, <2>2
<1>13. Kind(r, LIR) = Kind(c, LIR)
  <2>1. ASSUME NEW k \in Kind(r, LIR)
        PROVE  k \in Kind(c, LIR)
    BY <1>10, TypesDiffer DEF Kind
  <2>2. ASSUME NEW k \in Kind(c, LIR)
        PROVE  k \in Kind(r, LIR)
    <3>1. k \in DOMAIN c.blocks /\ c.blocks[k].type = LIR /\ k \notin E
      BY <1>5, TypesDiffer DEF Kind
    <3> QED BY <3>1, <1>10, <1>11 DEF Kind
  <2> QED BY <2>1, <2>2
<1>14. ResidentIn(r) = ResidentIn(c) \ E
  <2>1. ASSUME NEW k \in ResidentIn(r)
        PROVE  k \in ResidentIn(c) \ E
    BY <1>10 DEF ResidentIn
  <2>2. ASSUME NEW k \in ResidentIn(c) \ E
        PROVE  k \in ResidentIn(r)
    BY <1>10, <1>11 DEF ResidentIn
  <2> QED BY <2>1, <2>2
<1>15. Listed(r)
  <2>1. Range(r.S) \subseteq DOMAIN r.blocks
    BY <1>3, <1>4
  <2>2. Range(r.Q) = Kind(r, HIR_RESIDENT)
    BY <1>4, <1>7, <1>12
  <2>3. DOMAIN r.blocks = Range(r.S) \union Range(r.Q)
    BY <1>3, <1>4, <1>5, <1>7, <2>1
  <2>4. IsInjective(r.S)
    BY <1>3, <1>4
  <2> QED BY <1>7, <2>1, <2>2, <2>3, <2>4 DEF Listed
<1>16. Counted(r)
  <2>1. /\ IsFiniteSet(Kind(c, HIR_RESIDENT))
        /\ Cardinality(Kind(c, HIR_RESIDENT)) \in Nat
    BY <1>0, KindsFinite
  <2>2. Cardinality(Kind(c, HIR_RESIDENT) \ E) = Cardinality(Kind(c, HIR_RESIDENT)) - Cardinality(E)
    BY <2>1, <1>5, PartGone
  <2>3. r.hir = Cardinality(Kind(r, HIR_RESIDENT))
    BY <1>0, <1>3, <1>5, <1>12, <2>2 DEF Counted
  <2>4. r.lir = Cardinality(Kind(r, LIR))
    BY <1>0, <1>3, <1>13 DEF Counted
  <2> QED BY <2>3, <2>4 DEF Counted
<1>17. Settled(r)
  BY <1>6, <1>7 DEF Settled
<1>18. Weighed(c) => Weighed(r)
  <2> SUFFICES ASSUME Weighed(c) PROVE Weighed(r)
    OBVIOUS
  <2>1. PICK A : A = ResidentIn(c)
    OBVIOUS
  <2>2. A \subseteq DOMAIN c.blocks /\ IsFiniteSet(A) /\ E \subseteq A
    <3>1. E \subseteq A
      BY <1>8, <1>5, <2>1, TypesDiffer DEF ResidentIn
    <3>2. IsFiniteSet(A)
      BY <2>1, <1>0, KindsFinite
    <3> QED BY <2>1, <3>1, <3>2 DEF ResidentIn
  <2>3. PICK B : B = A \ E
    OBVIOUS
  <2>4. SizesOf(c, A) = SizesOf(c, E) + SizesOf(c, B)
    BY <1>0, <2>2, <2>3, SizesParts
  <2>5. IsFiniteSet(E) /\ IsFiniteSet(B)
    BY <2>2, <2>3, FS_Subset
  <2>6. SizesOf(c, E) \in Nat /\ SizesOf(c, B) \in Nat
    <3>1. E \subseteq DOMAIN c.blocks /\ B \subseteq DOMAIN c.blocks
      BY <2>2, <2>3, <1>5
    <3> QED BY <1>0, <2>5, <3>1, SizesTyped
  <2>7. SizesOf(c, B) = SizesOf(r, B)
    <3>1. \A k \in B : c.blocks[k].value = r.blocks[k].value
      BY <1>10, <1>11, <2>2, <2>3
    <3> QED BY <2>5, <3>1, SizesAgree
  <2>8. PICK a : a = SizesOf(c, A)
    OBVIOUS
  <2>9. PICK e : e = SizesOf(c, E)
    OBVIOUS
  <2>10. a \in Int /\ e \in Int /\ a - e = SizesOf(c, B) /\ -e \in Int
    BY <2>4, <2>6, <2>8, <2>9
  <2>11. c.total = a % Word
    BY <2>1, <2>8 DEF Weighed, Wrap
  <2>12. r.total = (c.total - e) % Word
    BY <1>3, <2>9 DEF Wrap
  <2>13. ((a % Word) + (-e)) % Word = (a + (-e)) % Word
    BY <2>10, Constants, WrappedSum
  <2>14. (a % Word) + (-e) = (a % Word) - e /\ a + (-e) = a - e
    BY <2>10, Constants
  <2>15. r.total = SizesOf(c, B) % Word
    BY <2>10, <2>11, <2>12, <2>13, <2>14, Zenon
  <2> QED BY <1>14, <2>1, <2>3, <2>7, <2>15 DEF Weighed, Wrap
<1>19. Sound(r)
  BY <1>3, <1>15, <1>16 DEF Sound
<1>20. DOMAIN r.blocks \subseteq DOMAIN c.blocks
  BY <1>10
<1>21. \A k \in DOMAIN c.blocks \ E : k \in DOMAIN r.blocks /\ r.blocks[k] = c.blocks[k]
  BY <1>10, <1>11
<1> QED BY <1>1, <1>2, <1>3, <1>13, <1>17, <1>18, <1>19, <1>20, <1>21, Zenon

-----------------------------------------------------------------------------
(* The helpers that move one block.                                        *)

\* A block that changes its status, and nothing else.
LEMMA BecomeFields ==
  ASSUME NEW c \in AnyCache, NEW k \in DOMAIN c.blocks,
         NEW type \in {LIR, HIR_RESIDENT, HIR_NON_RESIDENT}
  PROVE  /\ Become(c, k, type) \in AnyCache
         /\ Become(c, k, type).S = c.S /\ Become(c, k, type).Q = c.Q
         /\ Become(c, k, type).lir = c.lir /\ Become(c, k, type).hir = c.hir
         /\ Become(c, k, type).total = c.total
         /\ DOMAIN Become(c, k, type).blocks = DOMAIN c.blocks
         /\ Become(c, k, type).blocks[k].type = type
         /\ Become(c, k, type).blocks[k].value = c.blocks[k].value
         /\ \A x \in DOMAIN c.blocks \ {k} : Become(c, k, type).blocks[x] = c.blocks[x]
<1>1. PICK x : x = [c.blocks[k] EXCEPT !.type = type]
  OBVIOUS
<1>2. x \in Block /\ x.type = type /\ x.value = c.blocks[k].value
  <2>1. c.blocks[k] \in Block
    BY CacheParts
  <2> QED BY <1>1, <2>1 DEF Block
<1>3. PICK b : b = [c.blocks EXCEPT ![k] = x]
  OBVIOUS
<1>4. PICK D : D = DOMAIN c.blocks
  OBVIOUS
<1>5. D \in SUBSET Keys /\ c.blocks \in [D -> Block] /\ k \in D
  BY <1>4, CacheParts
<1>6. b \in [D -> Block] /\ b[k] = x /\ \A y \in D \ {k} : b[y] = c.blocks[y]
  BY <1>2, <1>3, <1>5
<1>7. b \in AnyBlocks
  BY <1>5, <1>6, TableIs
<1>8. Become(c, k, type) = [c EXCEPT !.blocks = b]
  BY <1>1, <1>3 DEF Become
<1>9. PICK r : r = [c EXCEPT !.blocks = b]
  OBVIOUS
<1>10. /\ r \in AnyCache /\ r.S = c.S /\ r.Q = c.Q /\ r.lir = c.lir /\ r.hir = c.hir
       /\ r.total = c.total /\ r.blocks = b
  BY <1>7, <1>9 DEF AnyCache
<1>11. Become(c, k, type) = r
  BY <1>8, <1>9
<1>12. DOMAIN b = DOMAIN c.blocks
  BY <1>4, <1>6
<1> QED BY <1>2, <1>4, <1>6, <1>10, <1>11, <1>12

\* A block that leaves S.
LEMMA OutOfSFields ==
  ASSUME NEW c \in AnyCache, IsInjective(c.S), NEW k
  PROVE  /\ OutOfS(c, k) \in AnyCache
         /\ OutOfS(c, k).Q = c.Q /\ OutOfS(c, k).blocks = c.blocks
         /\ OutOfS(c, k).lir = c.lir /\ OutOfS(c, k).hir = c.hir /\ OutOfS(c, k).total = c.total
         /\ IsInjective(OutOfS(c, k).S)
         /\ Range(OutOfS(c, k).S) = Range(c.S) \ {k}
<1>1. c.S \in Seq(Keys)
  BY CacheParts
<1>2. PICK s : s = RemoveFirst(c.S, k)
  OBVIOUS
<1>3. s \in Seq(Keys) /\ IsInjective(s) /\ Range(s) = Range(c.S) \ {k}
  BY <1>1, <1>2, RemovedFirst
<1>4. OutOfS(c, k) = [c EXCEPT !.S = s]
  BY <1>2 DEF OutOfS
<1>5. PICK r : r = [c EXCEPT !.S = s]
  OBVIOUS
<1>6. /\ r \in AnyCache /\ r.S = s /\ r.Q = c.Q /\ r.lir = c.lir /\ r.hir = c.hir
      /\ r.total = c.total /\ r.blocks = c.blocks
  BY <1>3, <1>5 DEF AnyCache
<1> QED BY <1>3, <1>4, <1>5, <1>6

\* A block that leaves Q.
LEMMA OutOfQFields ==
  ASSUME NEW c \in AnyCache, IsInjective(c.Q), NEW k
  PROVE  /\ OutOfQ(c, k) \in AnyCache
         /\ OutOfQ(c, k).S = c.S /\ OutOfQ(c, k).blocks = c.blocks
         /\ OutOfQ(c, k).lir = c.lir /\ OutOfQ(c, k).hir = c.hir /\ OutOfQ(c, k).total = c.total
         /\ IsInjective(OutOfQ(c, k).Q)
         /\ Range(OutOfQ(c, k).Q) = Range(c.Q) \ {k}
         /\ Len(OutOfQ(c, k).Q) = IF k \in Range(c.Q) THEN Len(c.Q) - 1 ELSE Len(c.Q)
<1>1. c.Q \in Seq(Keys)
  BY CacheParts
<1>2. PICK s : s = RemoveFirst(c.Q, k)
  OBVIOUS
<1>3. /\ s \in Seq(Keys) /\ IsInjective(s) /\ Range(s) = Range(c.Q) \ {k}
      /\ Len(s) = IF k \in Range(c.Q) THEN Len(c.Q) - 1 ELSE Len(c.Q)
  BY <1>1, <1>2, RemovedFirst
<1>4. OutOfQ(c, k) = [c EXCEPT !.Q = s]
  BY <1>2 DEF OutOfQ
<1>5. PICK r : r = [c EXCEPT !.Q = s]
  OBVIOUS
<1>6. /\ r \in AnyCache /\ r.S = c.S /\ r.Q = s /\ r.lir = c.lir /\ r.hir = c.hir
      /\ r.total = c.total /\ r.blocks = c.blocks
  BY <1>3, <1>5 DEF AnyCache
<1> QED BY <1>3, <1>4, <1>5, <1>6

\* A block that goes to the top of S.
LEMMA OnTopFields ==
  ASSUME NEW c \in AnyCache, IsInjective(c.S), NEW k \in Keys
  PROVE  /\ OnTop(c, k) \in AnyCache
         /\ OnTop(c, k).Q = c.Q /\ OnTop(c, k).blocks = c.blocks
         /\ OnTop(c, k).lir = c.lir /\ OnTop(c, k).hir = c.hir /\ OnTop(c, k).total = c.total
         /\ IsInjective(OnTop(c, k).S)
         /\ Range(OnTop(c, k).S) = Range(c.S) \union {k}
<1>1. c.S \in Seq(Keys)
  BY CacheParts
<1>2. PICK s : s = RemoveFirst(c.S, k)
  OBVIOUS
<1>3. s \in Seq(Keys) /\ IsInjective(s) /\ Range(s) = Range(c.S) \ {k}
  BY <1>1, <1>2, RemovedFirst
<1>4. PICK one : one = <<k>>
  OBVIOUS
<1>5. one \in Seq(Keys) /\ IsInjective(one) /\ Range(one) = {k}
  BY <1>4, SingleNode
<1>6. PICK u : u = one \o s
  OBVIOUS
<1>7. u \in Seq(Keys) /\ IsInjective(u) /\ Range(u) = Range(one) \union Range(s)
  <2>1. Range(one) \cap Range(s) = {}
    BY <1>3, <1>5
  <2> QED BY <1>3, <1>5, <1>6, <2>1, JoinedLists
<1>8. OnTop(c, k) = [c EXCEPT !.S = u]
  BY <1>2, <1>4, <1>6 DEF OnTop
<1>9. PICK r : r = [c EXCEPT !.S = u]
  OBVIOUS
<1>10. /\ r \in AnyCache /\ r.S = u /\ r.Q = c.Q /\ r.lir = c.lir /\ r.hir = c.hir
       /\ r.total = c.total /\ r.blocks = c.blocks
  BY <1>7, <1>9 DEF AnyCache
<1>11. Range(u) = Range(c.S) \union {k}
  BY <1>3, <1>5, <1>7
<1> QED BY <1>7, <1>8, <1>9, <1>10, <1>11

\* A block that goes to the end of Q, unless it is there.
LEMMA QueuedFields ==
  ASSUME NEW c \in AnyCache, IsInjective(c.Q), NEW k \in Keys
  PROVE  /\ Queued(c, k) \in AnyCache
         /\ Queued(c, k).S = c.S /\ Queued(c, k).blocks = c.blocks
         /\ Queued(c, k).lir = c.lir /\ Queued(c, k).hir = c.hir /\ Queued(c, k).total = c.total
         /\ IsInjective(Queued(c, k).Q)
         /\ Range(Queued(c, k).Q) = Range(c.Q) \union {k}
         /\ k \in Range(c.Q) => Queued(c, k) = c
         /\ k \notin Range(c.Q) => Queued(c, k).Q = Append(c.Q, k) /\ Len(Queued(c, k).Q) = Len(c.Q) + 1
<1>1. c.Q \in Seq(Keys)
  BY CacheParts
<1>2. Contains(c.Q, k) <=> k \in Range(c.Q)
  BY <1>1, ListOf
<1>3. CASE k \in Range(c.Q)
  <2>1. Queued(c, k) = c
    BY <1>2, <1>3 DEF Queued
  <2> QED BY <1>3, <2>1
<1>4. CASE k \notin Range(c.Q)
  <2>1. PICK s : s = Append(c.Q, k)
    OBVIOUS
  <2>2. s \in Seq(Keys) /\ IsInjective(s) /\ Range(s) = Range(c.Q) \union {k} /\ Len(s) = Len(c.Q) + 1
    BY <1>1, <1>4, <2>1, AppendedNode
  <2>3. Queued(c, k) = [c EXCEPT !.Q = s]
    BY <1>2, <1>4, <2>1 DEF Queued
  <2>4. PICK r : r = [c EXCEPT !.Q = s]
    OBVIOUS
  <2>5. /\ r \in AnyCache /\ r.S = c.S /\ r.Q = s /\ r.lir = c.lir /\ r.hir = c.hir
        /\ r.total = c.total /\ r.blocks = c.blocks
    BY <2>2, <2>4 DEF AnyCache
  <2> QED BY <1>4, <2>1, <2>2, <2>3, <2>4, <2>5
<1> QED BY <1>3, <1>4

-----------------------------------------------------------------------------
(* The steps of an operation.                                              *)

\* The resident blocks and total_size are the same.
LEMMA SameWeight ==
  ASSUME NEW c \in AnyCache, Listed(c), NEW r \in AnyCache, r.total = c.total,
         ResidentIn(r) = ResidentIn(c),
         \A k \in ResidentIn(c) : r.blocks[k].value = c.blocks[k].value,
         Weighed(c)
  PROVE  Weighed(r)
<1>1. PICK keys : keys = ResidentIn(c)
  OBVIOUS
<1>2. IsFiniteSet(keys)
  BY <1>1, KindsFinite
<1>3. \A k \in keys : c.blocks[k].value = r.blocks[k].value
  BY <1>1
<1>4. SizesOf(c, keys) = SizesOf(r, keys)
  BY <1>2, <1>3, SizesAgree
<1> QED BY <1>1, <1>4 DEF Weighed

\* A block is of another type: it moves from one kind to the other.
LEMMA Retyped ==
  ASSUME NEW c, NEW r, NEW k \in DOMAIN c.blocks, NEW type,
         DOMAIN r.blocks = DOMAIN c.blocks, r.blocks[k].type = type,
         \A x \in DOMAIN c.blocks \ {k} : r.blocks[x] = c.blocks[x]
  PROVE  /\ Kind(r, type) = Kind(c, type) \union {k}
         /\ \A other : other # type => Kind(r, other) = Kind(c, other) \ {k}
         /\ type # HIR_NON_RESIDENT /\ c.blocks[k].type # HIR_NON_RESIDENT =>
              ResidentIn(r) = ResidentIn(c)
<1>1. Kind(r, type) = Kind(c, type) \union {k}
  BY DEF Kind
<1>2. ASSUME NEW other, other # type
      PROVE  Kind(r, other) = Kind(c, other) \ {k}
  BY <1>2 DEF Kind
<1>3. type # HIR_NON_RESIDENT /\ c.blocks[k].type # HIR_NON_RESIDENT =>
              ResidentIn(r) = ResidentIn(c)
  BY DEF ResidentIn
<1> QED BY <1>1, <1>2, <1>3

\* Counting with one more, and with one less.
LEMMA OneMore ==
  ASSUME NEW A, IsFiniteSet(A), NEW x
  PROVE  /\ Cardinality(A) \in Nat
         /\ x \notin A => Cardinality(A \union {x}) = Cardinality(A) + 1
         /\ x \in A => Cardinality(A \ {x}) = Cardinality(A) - 1
         /\ x \notin A => A \ {x} = A
  BY FS_AddElement, FS_RemoveElement, FS_CardinalityType

\* A block that is in the table goes on top of S.
LEMMA Topped ==
  ASSUME NEW c, Sound(c), NEW k \in DOMAIN c.blocks
  PROVE  /\ Sound(OnTop(c, k)) /\ OnTop(c, k).Q = c.Q /\ OnTop(c, k).blocks = c.blocks
         /\ Range(OnTop(c, k).S) = Range(c.S) \union {k}
         /\ Weighed(c) => Weighed(OnTop(c, k))
<1>0. c \in AnyCache /\ Listed(c) /\ Counted(c) /\ k \in Keys
  BY CacheParts DEF Sound
<1>1. PICK r : r = OnTop(c, k)
  OBVIOUS
<1>2. /\ r \in AnyCache /\ r.Q = c.Q /\ r.blocks = c.blocks
      /\ r.lir = c.lir /\ r.hir = c.hir /\ r.total = c.total
      /\ IsInjective(r.S) /\ Range(r.S) = Range(c.S) \union {k}
  BY <1>0, <1>1, OnTopFields DEF Listed
<1>3. Kind(r, LIR) = Kind(c, LIR) /\ Kind(r, HIR_RESIDENT) = Kind(c, HIR_RESIDENT)
      /\ ResidentIn(r) = ResidentIn(c)
  BY <1>2 DEF Kind, ResidentIn
<1>4. Listed(r)
  BY <1>0, <1>2, <1>3 DEF Listed
<1>5. Counted(r)
  BY <1>0, <1>2, <1>3 DEF Counted
<1>6. Weighed(c) => Weighed(r)
  BY <1>0, <1>2, <1>3, SameWeight
<1> QED BY <1>1, <1>2, <1>4, <1>5, <1>6 DEF Sound

\* A resident HIR block leaves S; it is still in Q.
LEMMA LeavesS ==
  ASSUME NEW c, Sound(c), NEW k \in Kind(c, HIR_RESIDENT)
  PROVE  /\ Sound(OutOfS(c, k)) /\ OutOfS(c, k).Q = c.Q /\ OutOfS(c, k).blocks = c.blocks
         /\ Weighed(c) => Weighed(OutOfS(c, k))
<1>0. c \in AnyCache /\ Listed(c) /\ Counted(c)
  BY DEF Sound
<1>1. PICK r : r = OutOfS(c, k)
  OBVIOUS
<1>2. /\ r \in AnyCache /\ r.Q = c.Q /\ r.blocks = c.blocks
      /\ r.lir = c.lir /\ r.hir = c.hir /\ r.total = c.total
      /\ IsInjective(r.S) /\ Range(r.S) = Range(c.S) \ {k}
  BY <1>0, <1>1, OutOfSFields DEF Listed
<1>3. Kind(r, LIR) = Kind(c, LIR) /\ Kind(r, HIR_RESIDENT) = Kind(c, HIR_RESIDENT)
      /\ ResidentIn(r) = ResidentIn(c)
  BY <1>2 DEF Kind, ResidentIn
<1>4. Listed(r)
  BY <1>0, <1>2, <1>3 DEF Listed
<1>5. Counted(r)
  BY <1>0, <1>2, <1>3 DEF Counted
<1>6. Weighed(c) => Weighed(r)
  BY <1>0, <1>2, <1>3, SameWeight
<1> QED BY <1>1, <1>2, <1>4, <1>5, <1>6 DEF Sound

\* A LIR block becomes a resident HIR block and goes to the end of Q.
LEMMA Demoted ==
  ASSUME NEW c, Sound(c), NEW k \in Kind(c, LIR)
  PROVE  /\ Sound(lirs_demote_lir(c, k))
         /\ lirs_demote_lir(c, k).S = c.S
         /\ Len(lirs_demote_lir(c, k).Q) = Len(c.Q) + 1
         /\ DOMAIN lirs_demote_lir(c, k).blocks = DOMAIN c.blocks
         /\ k \in Kind(lirs_demote_lir(c, k), HIR_RESIDENT)
         /\ ResidentIn(lirs_demote_lir(c, k)) = ResidentIn(c)
         /\ \A x \in DOMAIN c.blocks \ {k} : lirs_demote_lir(c, k).blocks[x] = c.blocks[x]
         /\ Weighed(c) => Weighed(lirs_demote_lir(c, k))
<1>0. c \in AnyCache /\ Listed(c) /\ Counted(c) /\ k \in DOMAIN c.blocks /\ k \in Keys
      /\ c.blocks[k].type = LIR
  BY CacheParts DEF Sound, Kind
<1>a. /\ IsInjective(c.S) /\ IsInjective(c.Q) /\ Range(c.S) \subseteq DOMAIN c.blocks
      /\ Range(c.Q) = Kind(c, HIR_RESIDENT) /\ DOMAIN c.blocks = Range(c.S) \union Range(c.Q)
      /\ c.lir \in Int /\ c.hir \in Int
  BY <1>0, CacheParts DEF Listed
<1>1. PICK b : b = Become(c, k, HIR_RESIDENT)
  OBVIOUS
<1>2. /\ b \in AnyCache /\ b.S = c.S /\ b.Q = c.Q /\ b.lir = c.lir /\ b.hir = c.hir
      /\ b.total = c.total /\ DOMAIN b.blocks = DOMAIN c.blocks
      /\ b.blocks[k].type = HIR_RESIDENT /\ b.blocks[k].value = c.blocks[k].value
      /\ \A x \in DOMAIN c.blocks \ {k} : b.blocks[x] = c.blocks[x]
  BY <1>0, <1>1, BecomeFields
<1>3. PICK d : d = [b EXCEPT !.lir = b.lir - 1, !.hir = b.hir + 1]
  OBVIOUS
<1>4. /\ d \in AnyCache /\ d.S = c.S /\ d.Q = c.Q /\ d.lir = c.lir - 1 /\ d.hir = c.hir + 1
      /\ d.total = c.total /\ d.blocks = b.blocks
  <2>1. c.lir - 1 \in Int /\ c.hir + 1 \in Int
    BY <1>a
  <2> QED BY <2>1, <1>2, <1>3 DEF AnyCache
<1>5. lirs_demote_lir(c, k) = Queued(d, k)
  BY <1>1, <1>3 DEF lirs_demote_lir
<1>6. PICK r : r = Queued(d, k)
  OBVIOUS
<1>7. k \notin Kind(c, HIR_RESIDENT)
  BY <1>0, TypesDiffer DEF Kind
<1>8. /\ r \in AnyCache /\ r.S = c.S /\ r.blocks = b.blocks
      /\ r.lir = c.lir - 1 /\ r.hir = c.hir + 1 /\ r.total = c.total
      /\ IsInjective(r.Q) /\ Range(r.Q) = Range(c.Q) \union {k} /\ Len(r.Q) = Len(c.Q) + 1
  <2>1. /\ Queued(d, k) \in AnyCache
        /\ Queued(d, k).S = d.S /\ Queued(d, k).blocks = d.blocks
        /\ Queued(d, k).lir = d.lir /\ Queued(d, k).hir = d.hir /\ Queued(d, k).total = d.total
        /\ IsInjective(Queued(d, k).Q)
        /\ Range(Queued(d, k).Q) = Range(d.Q) \union {k}
        /\ k \notin Range(d.Q) => Len(Queued(d, k).Q) = Len(d.Q) + 1
    BY <1>0, <1>a, <1>4, QueuedFields
  <2> QED BY <1>4, <1>6, <1>7, <1>a, <2>1
<1>9. /\ Kind(r, HIR_RESIDENT) = Kind(c, HIR_RESIDENT) \union {k}
      /\ Kind(r, LIR) = Kind(c, LIR) \ {k}
      /\ ResidentIn(r) = ResidentIn(c)
  <2>1. /\ DOMAIN r.blocks = DOMAIN c.blocks /\ r.blocks[k].type = HIR_RESIDENT
        /\ \A x \in DOMAIN c.blocks \ {k} : r.blocks[x] = c.blocks[x]
    BY <1>2, <1>8
  <2> QED BY <1>0, <2>1, Retyped, TypesDiffer
<1>10. Listed(r)
  BY <1>0, <1>a, <1>2, <1>8, <1>9 DEF Listed
<1>11. Counted(r)
  <2>1. /\ IsFiniteSet(Kind(c, HIR_RESIDENT)) /\ IsFiniteSet(Kind(c, LIR))
    BY <1>0, KindsFinite
  <2>2. Cardinality(Kind(r, HIR_RESIDENT)) = Cardinality(Kind(c, HIR_RESIDENT)) + 1
    BY <2>1, <1>7, <1>9, OneMore
  <2>3. Cardinality(Kind(r, LIR)) = Cardinality(Kind(c, LIR)) - 1
    BY <2>1, <1>9, OneMore
  <2> QED BY <1>0, <1>8, <2>2, <2>3 DEF Counted
<1>12. Weighed(c) => Weighed(r)
  <2>1. \A x \in ResidentIn(c) : r.blocks[x].value = c.blocks[x].value
    BY <1>2, <1>8 DEF ResidentIn
  <2> QED BY <1>0, <1>8, <1>9, <2>1, SameWeight
<1>13. \A x \in DOMAIN c.blocks \ {k} : r.blocks[x] = c.blocks[x]
  BY <1>2, <1>8
<1>14. DOMAIN r.blocks = DOMAIN c.blocks /\ k \in Kind(r, HIR_RESIDENT)
  BY <1>2, <1>8, <1>9
<1> QED BY <1>5, <1>6, <1>8, <1>9, <1>10, <1>11, <1>12, <1>13, <1>14 DEF Sound

\* A resident HIR block becomes LIR and leaves Q.
Lifted(c, k) == OutOfQ([Become(c, k, LIR) EXCEPT !.lir = @ + 1, !.hir = @ - 1], k)

\* A resident HIR block that becomes LIR leaves Q.
LEMMA LiftedIs ==
  ASSUME NEW c, Sound(c), NEW k \in Kind(c, HIR_RESIDENT), k \in Range(c.S)
  PROVE  /\ Sound(Lifted(c, k)) /\ Lifted(c, k).S = c.S
         /\ Len(Lifted(c, k).Q) = Len(c.Q) - 1
         /\ DOMAIN Lifted(c, k).blocks = DOMAIN c.blocks
         /\ ResidentIn(Lifted(c, k)) = ResidentIn(c)
         /\ Weighed(c) => Weighed(Lifted(c, k))
<1>0. c \in AnyCache /\ Listed(c) /\ Counted(c) /\ k \in DOMAIN c.blocks /\ k \in Keys
      /\ c.blocks[k].type = HIR_RESIDENT
  BY CacheParts DEF Sound, Kind
<1>a. /\ IsInjective(c.S) /\ IsInjective(c.Q) /\ Range(c.S) \subseteq DOMAIN c.blocks
      /\ Range(c.Q) = Kind(c, HIR_RESIDENT) /\ DOMAIN c.blocks = Range(c.S) \union Range(c.Q)
      /\ c.lir \in Int /\ c.hir \in Int
  BY <1>0, CacheParts DEF Listed
<1>1. PICK b : b = Become(c, k, LIR)
  OBVIOUS
<1>2. /\ b \in AnyCache /\ b.S = c.S /\ b.Q = c.Q /\ b.lir = c.lir /\ b.hir = c.hir
      /\ b.total = c.total /\ DOMAIN b.blocks = DOMAIN c.blocks
      /\ b.blocks[k].type = LIR /\ b.blocks[k].value = c.blocks[k].value
      /\ \A x \in DOMAIN c.blocks \ {k} : b.blocks[x] = c.blocks[x]
  BY <1>0, <1>1, BecomeFields
<1>3. PICK d : d = [b EXCEPT !.lir = b.lir + 1, !.hir = b.hir - 1]
  OBVIOUS
<1>4. /\ d \in AnyCache /\ d.S = c.S /\ d.Q = c.Q /\ d.lir = c.lir + 1 /\ d.hir = c.hir - 1
      /\ d.total = c.total /\ d.blocks = b.blocks
  <2>1. c.lir + 1 \in Int /\ c.hir - 1 \in Int
    BY <1>a
  <2> QED BY <2>1, <1>2, <1>3 DEF AnyCache
<1>5. Lifted(c, k) = OutOfQ(d, k)
  BY <1>1, <1>3 DEF Lifted
<1>6. PICK r : r = OutOfQ(d, k)
  OBVIOUS
<1>8. /\ r \in AnyCache /\ r.S = c.S /\ r.blocks = b.blocks
      /\ r.lir = c.lir + 1 /\ r.hir = c.hir - 1 /\ r.total = c.total
      /\ IsInjective(r.Q) /\ Range(r.Q) = Range(c.Q) \ {k} /\ Len(r.Q) = Len(c.Q) - 1
  <2>1. /\ OutOfQ(d, k) \in AnyCache
        /\ OutOfQ(d, k).S = d.S /\ OutOfQ(d, k).blocks = d.blocks
        /\ OutOfQ(d, k).lir = d.lir /\ OutOfQ(d, k).hir = d.hir /\ OutOfQ(d, k).total = d.total
        /\ IsInjective(OutOfQ(d, k).Q)
        /\ Range(OutOfQ(d, k).Q) = Range(d.Q) \ {k}
        /\ Len(OutOfQ(d, k).Q) = IF k \in Range(d.Q) THEN Len(d.Q) - 1 ELSE Len(d.Q)
    BY <1>a, <1>4, OutOfQFields
  <2> QED BY <1>4, <1>6, <1>a, <2>1
<1>9. /\ Kind(r, LIR) = Kind(c, LIR) \union {k}
      /\ Kind(r, HIR_RESIDENT) = Kind(c, HIR_RESIDENT) \ {k}
      /\ ResidentIn(r) = ResidentIn(c)
  <2>1. /\ DOMAIN r.blocks = DOMAIN c.blocks /\ r.blocks[k].type = LIR
        /\ \A x \in DOMAIN c.blocks \ {k} : r.blocks[x] = c.blocks[x]
    BY <1>2, <1>8
  <2> QED BY <1>0, <2>1, Retyped, TypesDiffer
<1>10. Listed(r)
  BY <1>a, <1>2, <1>8, <1>9 DEF Listed
<1>11. Counted(r)
  <2>1. /\ IsFiniteSet(Kind(c, HIR_RESIDENT)) /\ IsFiniteSet(Kind(c, LIR))
    BY <1>0, KindsFinite
  <2>2. Cardinality(Kind(r, HIR_RESIDENT)) = Cardinality(Kind(c, HIR_RESIDENT)) - 1
    BY <2>1, <1>9, OneMore
  <2>3. Cardinality(Kind(r, LIR)) = Cardinality(Kind(c, LIR)) + 1
    <3>1. k \notin Kind(c, LIR)
      BY <1>0, TypesDiffer DEF Kind
    <3> QED BY <2>1, <3>1, <1>9, OneMore
  <2> QED BY <1>0, <1>8, <2>2, <2>3 DEF Counted
<1>12. Weighed(c) => Weighed(r)
  <2>1. \A x \in ResidentIn(c) : r.blocks[x].value = c.blocks[x].value
    BY <1>2, <1>8 DEF ResidentIn
  <2> QED BY <1>0, <1>8, <1>9, <2>1, SameWeight
<1> QED BY <1>2, <1>5, <1>6, <1>8, <1>9, <1>10, <1>11, <1>12 DEF Sound

\* Nothing is evicted of a queue that is not too long.
LEMMA EvictsNone ==
  ASSUME NEW c, Sound(c), Settled(c)
  PROVE  /\ DOMAIN lirs_evict_hir(c).blocks = DOMAIN c.blocks
         /\ ResidentIn(lirs_evict_hir(c)) = ResidentIn(c)
<1>1. Evicted(c) = {}
  BY EvictedIs DEF Sound
<1>2. PICK r : r = lirs_evict_hir(c)
  OBVIOUS
<1>3. /\ DOMAIN r.blocks \subseteq DOMAIN c.blocks
      /\ \A k \in DOMAIN c.blocks \ Evicted(c) : k \in DOMAIN r.blocks /\ r.blocks[k] = c.blocks[k]
  BY <1>2, Evicts
<1>4. DOMAIN r.blocks = DOMAIN c.blocks /\ \A k \in DOMAIN c.blocks : r.blocks[k] = c.blocks[k]
  BY <1>1, <1>3
<1> QED BY <1>2, <1>4 DEF ResidentIn

\* What every call leaves that adds no block.
Left(c, r) ==
  /\ Sound(r) /\ DOMAIN r.blocks \subseteq DOMAIN c.blocks
  /\ Weighed(c) => Weighed(r)

\* A block that is promoted, and the one that is demoted for it, stay resident.
LEMMA Promoted ==
  ASSUME NEW c, Sound(c), Settled(c), NEW k \in Kind(c, HIR_RESIDENT), k \in Range(c.S)
  PROVE  /\ Left(c, lirs_promote_hir(c, k)) /\ Settled(lirs_promote_hir(c, k))
         /\ ResidentIn(lirs_promote_hir(c, k)) = ResidentIn(c)
<1>1. PICK up : up = Lifted(c, k)
  OBVIOUS
<1>2. /\ Sound(up) /\ up.S = c.S /\ Len(up.Q) = Len(c.Q) - 1
      /\ DOMAIN up.blocks = DOMAIN c.blocks /\ ResidentIn(up) = ResidentIn(c)
      /\ Weighed(c) => Weighed(up)
  BY <1>1, LiftedIs
<1>3. PICK bottom : bottom = Last(up.S)
  OBVIOUS
<1>4. c.S \in Seq(Keys) /\ c.Q \in Seq(Keys) /\ Len(c.Q) \in Nat /\ Range(c.S) \subseteq DOMAIN c.blocks
  BY CacheParts, ListOf DEF Sound, Listed
<1>5. bottom \in DOMAIN up.blocks
  <2>1. Len(c.S) \in Nat /\ Range(c.S) = {c.S[i] : i \in 1 .. Len(c.S)}
    BY <1>4, ListOf
  <2>2. Len(c.S) \in 1 .. Len(c.S)
    BY <2>1
  <2>3. bottom = c.S[Len(c.S)]
    BY <1>2, <1>3 DEF Last
  <2> QED BY <1>2, <1>4, <2>1, <2>2, <2>3
<1>6. PICK down : down = IF up.blocks[bottom].type = LIR
                         THEN OutOfS(lirs_demote_lir(up, bottom), bottom) ELSE up
  OBVIOUS
<1>7. /\ Sound(down) /\ DOMAIN down.blocks = DOMAIN c.blocks /\ ResidentIn(down) = ResidentIn(c)
      /\ Len(down.Q) \in {Len(c.Q), Len(c.Q) - 1} /\ (Weighed(c) => Weighed(down))
  <2>1. CASE up.blocks[bottom].type = LIR
    <3>1. bottom \in Kind(up, LIR)
      BY <1>5, <2>1 DEF Kind
    <3>2. PICK d : d = lirs_demote_lir(up, bottom)
      OBVIOUS
    <3>3. /\ Sound(d) /\ Len(d.Q) = Len(up.Q) + 1 /\ DOMAIN d.blocks = DOMAIN up.blocks
          /\ bottom \in Kind(d, HIR_RESIDENT) /\ ResidentIn(d) = ResidentIn(up)
          /\ Weighed(up) => Weighed(d)
      BY <1>2, <3>1, <3>2, Demoted
    <3>4. down = OutOfS(d, bottom)
      BY <1>6, <2>1, <3>2
    <3>5. Sound(down) /\ down.Q = d.Q /\ down.blocks = d.blocks /\ (Weighed(d) => Weighed(down))
      BY <3>3, <3>4, LeavesS
    <3>6. ResidentIn(down) = ResidentIn(d)
      BY <3>5 DEF ResidentIn
    <3> QED BY <1>2, <1>4, <3>3, <3>5, <3>6
  <2>2. CASE up.blocks[bottom].type # LIR
    BY <1>2, <1>6, <2>2
  <2> QED BY <2>1, <2>2
<1>8. Settled(down)
  BY <1>4, <1>7, Constants DEF Settled
<1>9. PICK p : p = lirs_prune_s_stack(down)
  OBVIOUS
<1>10. Sound(p) /\ SameResidents(down, p) /\ p.Q = down.Q /\ (Weighed(down) => Weighed(p))
  BY <1>7, <1>9, Pruned
<1>11. ResidentIn(p) = ResidentIn(down) /\ DOMAIN p.blocks \subseteq DOMAIN down.blocks
  BY <1>7, <1>10, ResidentsKept DEF Sound, SameResidents
<1>12. Settled(p)
  BY <1>8, <1>10 DEF Settled
<1>13. PICK r : r = lirs_evict_hir(p)
  OBVIOUS
<1>14. Sound(r) /\ Settled(r) /\ (Weighed(p) => Weighed(r))
  BY <1>10, <1>13, Evicts
<1>15. DOMAIN r.blocks = DOMAIN p.blocks /\ ResidentIn(r) = ResidentIn(p)
  BY <1>10, <1>12, <1>13, EvictsNone
<1>16. lirs_promote_hir(c, k) = r
  BY <1>1, <1>3, <1>6, <1>9, <1>13 DEF lirs_promote_hir, Lifted
<1> QED BY <1>7, <1>10, <1>11, <1>14, <1>15, <1>16 DEF Left

\* total_size may be changed after it was wrapped.
LEMMA WrapAdds ==
  ASSUME NEW a \in Int, NEW b \in Int
  PROVE  Wrap(Wrap(a) + b) = Wrap(a + b)
<1>1. ((a % Word) + b) % Word = (a + b) % Word
  BY Constants, WrappedSum
<1> QED BY <1>1 DEF Wrap

\* A counter may wrap before something is subtracted from it.
LEMMA WrapSubtracts ==
  ASSUME NEW a \in Int, NEW b \in Int
  PROVE  Wrap(Wrap(a) - b) = Wrap(a - b)
<1>1. PICK n : n = Wrap(a)
  OBVIOUS
<1>2. n \in Int /\ -b \in Int
  BY <1>1, WrapRange, Constants
<1>3. Wrap(Wrap(a) + (-b)) = Wrap(a + (-b))
  BY <1>2, WrapAdds
<1>4. n + (-b) = n - b /\ a + (-b) = a - b
  BY <1>2
<1> QED BY <1>1, <1>3, <1>4, Zenon

\* lirs_get of a LIR block.
LEMMA GotLir ==
  ASSUME NEW c, Sound(c), Settled(c), NEW k \in DOMAIN c.blocks
  PROVE  /\ Left(c, lirs_prune_s_stack(OnTop(c, k))) /\ Settled(lirs_prune_s_stack(OnTop(c, k)))
         /\ ResidentIn(lirs_prune_s_stack(OnTop(c, k))) = ResidentIn(c)
<1>1. PICK t : t = OnTop(c, k)
  OBVIOUS
<1>2. Sound(t) /\ t.Q = c.Q /\ t.blocks = c.blocks /\ (Weighed(c) => Weighed(t))
  BY <1>1, Topped
<1>3. PICK r : r = lirs_prune_s_stack(t)
  OBVIOUS
<1>4. Sound(r) /\ SameResidents(t, r) /\ r.Q = t.Q /\ (Weighed(t) => Weighed(r))
  BY <1>2, <1>3, Pruned
<1>5. ResidentIn(r) = ResidentIn(t) /\ DOMAIN r.blocks \subseteq DOMAIN t.blocks
  BY <1>2, <1>4, ResidentsKept DEF Sound, SameResidents
<1>6. ResidentIn(t) = ResidentIn(c)
  BY <1>2 DEF ResidentIn
<1>7. Settled(r)
  BY <1>2, <1>4 DEF Settled
<1> QED BY <1>1, <1>2, <1>3, <1>4, <1>5, <1>6, <1>7 DEF Left

\* lirs_get of a resident HIR block, whether it is in S or not.
GotResident(c, k) ==
  LET up == IF Contains(c.S, k) THEN lirs_promote_hir(c, k) ELSE c
      top == OnTop(up, k)
  IN lirs_evict_hir(IF up.blocks[k].type = HIR_RESIDENT THEN Queued(top, k) ELSE top)

\* A hit on a resident HIR block keeps the cache in order and all that is resident.
LEMMA GotResidentIs ==
  ASSUME NEW c, Sound(c), Settled(c), NEW k \in Kind(c, HIR_RESIDENT)
  PROVE  /\ Left(c, GotResident(c, k)) /\ Settled(GotResident(c, k))
         /\ ResidentIn(GotResident(c, k)) = ResidentIn(c)
<1>1. PICK up : up = IF Contains(c.S, k) THEN lirs_promote_hir(c, k) ELSE c
  OBVIOUS
<1>2. /\ Sound(up) /\ Settled(up) /\ DOMAIN up.blocks \subseteq DOMAIN c.blocks
      /\ (Weighed(c) => Weighed(up)) /\ ResidentIn(up) = ResidentIn(c)
  <2>1. CASE Contains(c.S, k)
    <3>1. k \in Range(c.S)
      BY <2>1, CacheParts, ListOf DEF Sound
    <3> QED BY <1>1, <2>1, <3>1, Promoted DEF Left
  <2>2. CASE ~Contains(c.S, k)
    BY <1>1, <2>2
  <2> QED BY <2>1, <2>2
<1>3. k \in DOMAIN up.blocks /\ k \in Keys
  <2>1. k \in ResidentIn(c)
    BY TypesDiffer DEF Kind, ResidentIn
  <2>2. k \in DOMAIN up.blocks
    BY <1>2, <2>1 DEF ResidentIn
  <2> QED BY <1>2, <2>2, CacheParts DEF Sound
<1>4. PICK top : top = OnTop(up, k)
  OBVIOUS
<1>5. Sound(top) /\ top.Q = up.Q /\ top.blocks = up.blocks /\ (Weighed(up) => Weighed(top))
  BY <1>2, <1>3, <1>4, Topped
<1>6. up.blocks[k].type = HIR_RESIDENT => Queued(top, k) = top
  <2>1. ASSUME up.blocks[k].type = HIR_RESIDENT
        PROVE  Queued(top, k) = top
    <3>1. k \in Range(top.Q)
      BY <1>3, <1>5, <2>1 DEF Sound, Listed, Kind
    <3>2. top \in AnyCache /\ IsInjective(top.Q)
      BY <1>5 DEF Sound, Listed
    <3> QED BY <1>3, <3>1, <3>2, QueuedFields
  <2> QED BY <2>1
<1>7. PICK r : r = lirs_evict_hir(top)
  OBVIOUS
<1>8. GotResident(c, k) = r
  BY <1>1, <1>4, <1>6, <1>7 DEF GotResident
<1>9. Settled(top)
  BY <1>2, <1>5 DEF Settled
<1>10. Sound(r) /\ Settled(r) /\ (Weighed(top) => Weighed(r))
  BY <1>5, <1>7, Evicts
<1>11. DOMAIN r.blocks = DOMAIN top.blocks /\ ResidentIn(r) = ResidentIn(top)
  BY <1>5, <1>7, <1>9, EvictsNone
<1>12. ResidentIn(top) = ResidentIn(up)
  BY <1>5 DEF ResidentIn
<1> QED BY <1>2, <1>5, <1>8, <1>10, <1>11, <1>12 DEF Left

\* lirs_get of a block that is no longer resident destroys it.
LEMMA GotNonResident ==
  ASSUME NEW c, Sound(c), Settled(c), NEW k \in Kind(c, HIR_NON_RESIDENT)
  PROVE  /\ Left(c, lirs_prune_s_stack(Destroy(OutOfS(c, k), {k})))
         /\ Settled(lirs_prune_s_stack(Destroy(OutOfS(c, k), {k})))
         /\ ResidentIn(lirs_prune_s_stack(Destroy(OutOfS(c, k), {k}))) = ResidentIn(c)
<1>0. c \in AnyCache /\ Listed(c) /\ Counted(c) /\ k \in DOMAIN c.blocks
      /\ c.blocks[k].type = HIR_NON_RESIDENT
  BY DEF Sound, Kind
<1>a. /\ IsInjective(c.S) /\ IsInjective(c.Q) /\ Range(c.S) \subseteq DOMAIN c.blocks
      /\ Range(c.Q) = Kind(c, HIR_RESIDENT) /\ DOMAIN c.blocks = Range(c.S) \union Range(c.Q)
  BY <1>0 DEF Listed
<1>1. PICK s : s = OutOfS(c, k)
  OBVIOUS
<1>2. /\ s \in AnyCache /\ s.Q = c.Q /\ s.blocks = c.blocks
      /\ s.lir = c.lir /\ s.hir = c.hir /\ s.total = c.total
      /\ IsInjective(s.S) /\ Range(s.S) = Range(c.S) \ {k}
  BY <1>0, <1>1, <1>a, OutOfSFields
<1>3. PICK d : d = Destroy(s, {k})
  OBVIOUS
<1>4. /\ d \in AnyCache /\ d.S = s.S /\ d.Q = c.Q
      /\ d.lir = c.lir /\ d.hir = c.hir /\ d.total = c.total
      /\ DOMAIN d.blocks = DOMAIN c.blocks \ {k}
      /\ \A x \in DOMAIN c.blocks \ {k} : d.blocks[x] = c.blocks[x]
  BY <1>2, <1>3, Destroyed
<1>5. SameResidents(c, d)
  BY <1>0, <1>4 DEF SameResidents
<1>6. /\ Kind(d, HIR_RESIDENT) = Kind(c, HIR_RESIDENT) /\ ResidentIn(d) = ResidentIn(c)
      /\ Counted(d) /\ (Weighed(c) => Weighed(d))
  BY <1>0, <1>4, <1>5, ResidentsKept
<1>7. k \notin Range(c.Q)
  BY <1>0, <1>a, TypesDiffer DEF Kind
<1>8. Listed(d)
  BY <1>2, <1>4, <1>6, <1>7, <1>a DEF Listed
<1>9. Sound(d)
  BY <1>4, <1>6, <1>8 DEF Sound
<1>10. PICK r : r = lirs_prune_s_stack(d)
  OBVIOUS
<1>11. Sound(r) /\ SameResidents(d, r) /\ r.Q = d.Q /\ (Weighed(d) => Weighed(r))
  BY <1>9, <1>10, Pruned
<1>12. ResidentIn(r) = ResidentIn(d) /\ DOMAIN r.blocks \subseteq DOMAIN d.blocks
  BY <1>9, <1>11, ResidentsKept DEF Sound, SameResidents
<1>13. Settled(r)
  BY <1>4, <1>11 DEF Settled
<1> QED BY <1>1, <1>3, <1>4, <1>6, <1>10, <1>11, <1>12, <1>13 DEF Left

\* lirs_remove: the counters lose the block if it was resident, total_size does
\* whether it was or not.
Dropped(c, k) ==
  [OutOfQ(OutOfS(c, k), k) EXCEPT
     !.total = Wrap(@ - SizeOf[c.blocks[k].value]),
     !.lir = IF c.blocks[k].type = LIR THEN @ - 1 ELSE @,
     !.hir = IF c.blocks[k].type = HIR_RESIDENT THEN @ - 1 ELSE @]

\* The removal of a block keeps the cache in order.
LEMMA Removed ==
  ASSUME NEW c, Sound(c), Settled(c), NEW k \in DOMAIN c.blocks
  PROVE  /\ Sound(lirs_prune_s_stack(Destroy(Dropped(c, k), {k})))
         /\ Settled(lirs_prune_s_stack(Destroy(Dropped(c, k), {k})))
         /\ DOMAIN lirs_prune_s_stack(Destroy(Dropped(c, k), {k})).blocks \subseteq DOMAIN c.blocks \ {k}
         /\ Weighed(c) /\ c.blocks[k].type # HIR_NON_RESIDENT
              => Weighed(lirs_prune_s_stack(Destroy(Dropped(c, k), {k})))
<1>0. c \in AnyCache /\ Listed(c) /\ Counted(c)
  BY DEF Sound
<1>a. /\ IsInjective(c.S) /\ IsInjective(c.Q) /\ Range(c.S) \subseteq DOMAIN c.blocks
      /\ Range(c.Q) = Kind(c, HIR_RESIDENT) /\ DOMAIN c.blocks = Range(c.S) \union Range(c.Q)
      /\ c.lir \in Int /\ c.hir \in Int /\ c.total \in Int
      /\ c.Q \in Seq(Keys) /\ Len(c.Q) \in Nat
  BY <1>0, CacheParts, ListOf, Constants DEF Listed
<1>1. PICK s : s = OutOfS(c, k)
  OBVIOUS
<1>2. /\ s \in AnyCache /\ s.Q = c.Q /\ s.blocks = c.blocks
      /\ s.lir = c.lir /\ s.hir = c.hir /\ s.total = c.total
      /\ IsInjective(s.S) /\ Range(s.S) = Range(c.S) \ {k}
  BY <1>0, <1>1, <1>a, OutOfSFields
<1>3. PICK q : q = OutOfQ(s, k)
  OBVIOUS
<1>4. /\ q \in AnyCache /\ q.S = s.S /\ q.blocks = c.blocks
      /\ q.lir = c.lir /\ q.hir = c.hir /\ q.total = c.total
      /\ IsInjective(q.Q) /\ Range(q.Q) = Range(c.Q) \ {k}
      /\ Len(q.Q) \in {Len(c.Q), Len(c.Q) - 1}
  <2>1. IsInjective(s.Q)
    BY <1>2, <1>a
  <2>2. /\ q \in AnyCache /\ q.S = s.S /\ q.blocks = s.blocks
        /\ q.lir = s.lir /\ q.hir = s.hir /\ q.total = s.total
        /\ IsInjective(q.Q) /\ Range(q.Q) = Range(s.Q) \ {k}
        /\ Len(q.Q) = IF k \in Range(s.Q) THEN Len(s.Q) - 1 ELSE Len(s.Q)
    BY <1>2, <1>3, <2>1, OutOfQFields
  <2> QED BY <1>2, <2>2
<1>5. PICK size : size = SizeOf[c.blocks[k].value]
  OBVIOUS
<1>6. size \in Nat /\ SizesOf(c, {k}) = size
  BY <1>0, <1>5, SizeOfOne
<1>7. PICK total : total = Wrap(c.total - size)
  OBVIOUS
<1>8. total \in 0 .. Word - 1
  <2>1. c.total - size \in Int
    BY <1>6, <1>a
  <2> QED BY <1>7, <2>1, WrapRange, Zenon
<1>9. PICK lir \in Int : lir = IF c.blocks[k].type = LIR THEN c.lir - 1 ELSE c.lir
  BY <1>a
<1>10. PICK hir \in Int : hir = IF c.blocks[k].type = HIR_RESIDENT THEN c.hir - 1 ELSE c.hir
  BY <1>a
<1>11. Dropped(c, k) = [q EXCEPT !.total = total, !.lir = lir, !.hir = hir]
  BY <1>1, <1>3, <1>4, <1>5, <1>7, <1>9, <1>10 DEF Dropped
<1>12. PICK d : d = [q EXCEPT !.total = total, !.lir = lir, !.hir = hir]
  OBVIOUS
<1>13. /\ d \in AnyCache /\ d.S = q.S /\ d.Q = q.Q /\ d.blocks = c.blocks
       /\ d.total = total /\ d.lir = lir /\ d.hir = hir
  BY <1>4, <1>8, <1>12 DEF AnyCache
<1>14. PICK e : e = Destroy(d, {k})
  OBVIOUS
<1>15. /\ e \in AnyCache /\ e.S = d.S /\ e.Q = d.Q /\ e.lir = lir /\ e.hir = hir /\ e.total = total
       /\ DOMAIN e.blocks = DOMAIN c.blocks \ {k}
       /\ \A x \in DOMAIN c.blocks \ {k} : e.blocks[x] = c.blocks[x]
  BY <1>13, <1>14, Destroyed
<1>16. /\ \A type : Kind(e, type) = Kind(c, type) \ {k}
       /\ ResidentIn(e) = ResidentIn(c) \ {k}
  BY <1>15 DEF Kind, ResidentIn
<1>17. Listed(e)
  BY <1>2, <1>4, <1>13, <1>15, <1>16, <1>a DEF Listed
<1>18. Counted(e)
  <2>1. \A type : IsFiniteSet(Kind(c, type))
    BY <1>0, KindsFinite
  <2>2. \A type : /\ c.blocks[k].type = type => Cardinality(Kind(c, type) \ {k}) = Cardinality(Kind(c, type)) - 1
                  /\ c.blocks[k].type # type => Kind(c, type) \ {k} = Kind(c, type)
    BY <2>1, OneMore DEF Kind
  <2> QED BY <1>0, <1>9, <1>10, <1>15, <1>16, <2>2 DEF Counted
<1>19. Sound(e)
  BY <1>15, <1>17, <1>18 DEF Sound
<1>20. ASSUME Weighed(c), c.blocks[k].type # HIR_NON_RESIDENT
       PROVE  Weighed(e)
  <2>1. PICK A : A = ResidentIn(c)
    OBVIOUS
  <2>2. A \subseteq DOMAIN c.blocks /\ IsFiniteSet(A) /\ {k} \subseteq A
    BY <1>0, <1>20, <2>1, KindsFinite DEF ResidentIn
  <2>3. PICK B : B = A \ {k}
    OBVIOUS
  <2>4. SizesOf(c, A) = SizesOf(c, {k}) + SizesOf(c, B)
    BY <1>0, <2>2, <2>3, SizesParts
  <2>5. IsFiniteSet(B) /\ B \subseteq DOMAIN c.blocks
    BY <2>2, <2>3, FS_Subset
  <2>6. SizesOf(c, B) \in Nat /\ SizesOf(c, A) \in Nat
    BY <1>0, <2>2, <2>5, SizesTyped
  <2>7. SizesOf(c, B) = SizesOf(e, B)
    <3>1. \A x \in B : c.blocks[x].value = e.blocks[x].value
      BY <1>15, <2>3, <2>5
    <3> QED BY <2>5, <3>1, SizesAgree
  <2>8. PICK a : a = SizesOf(c, A)
    OBVIOUS
  <2>9. a \in Int /\ a - size = SizesOf(c, B)
    BY <1>6, <2>4, <2>6, <2>8
  <2>10. total = Wrap(Wrap(a) - size)
    BY <1>7, <1>20, <2>1, <2>8 DEF Weighed
  <2>11. Wrap(Wrap(a) - size) = Wrap(a - size)
    BY <1>6, <2>9, WrapSubtracts
  <2> QED BY <1>15, <1>16, <2>1, <2>3, <2>7, <2>9, <2>10, <2>11 DEF Weighed
<1>21. PICK r : r = lirs_prune_s_stack(e)
  OBVIOUS
<1>22. Sound(r) /\ SameResidents(e, r) /\ r.Q = e.Q /\ (Weighed(e) => Weighed(r))
  BY <1>19, <1>21, Pruned
<1>23. Settled(r)
  BY <1>4, <1>13, <1>15, <1>22, <1>a, Constants DEF Settled
<1>24. DOMAIN r.blocks \subseteq DOMAIN c.blocks \ {k}
  BY <1>15, <1>22 DEF SameResidents
<1> QED BY <1>11, <1>12, <1>14, <1>20, <1>21, <1>22, <1>23, <1>24

-----------------------------------------------------------------------------
(* What the puts and a resize leave.                                       *)

\* A known block gets another value, whose size may wrap total_size.
Revalued(c, k, v) == [c EXCEPT !.blocks[k].value = v,
                               !.total = Wrap(@ - SizeOf[c.blocks[k].value] + SizeOf[v])]

\* So does a new value.
LEMMA RevaluedIs ==
  ASSUME NEW c, Sound(c), NEW k \in DOMAIN c.blocks, NEW v \in Values
  PROVE  /\ Sound(Revalued(c, k, v)) /\ Revalued(c, k, v).Q = c.Q
         /\ DOMAIN Revalued(c, k, v).blocks = DOMAIN c.blocks
         /\ ResidentIn(Revalued(c, k, v)) = ResidentIn(c)
         /\ Weighed(c) /\ c.blocks[k].type # HIR_NON_RESIDENT => Weighed(Revalued(c, k, v))
<1>0. c \in AnyCache /\ Listed(c) /\ Counted(c)
  BY DEF Sound
<1>1. PICK x : x = [c.blocks[k] EXCEPT !.value = v]
  OBVIOUS
<1>2. x \in Block /\ x.type = c.blocks[k].type /\ x.value = v
  <2>1. c.blocks[k] \in Block
    BY <1>0, CacheParts
  <2> QED BY <1>1, <2>1 DEF Block
<1>3. PICK b : b = [c.blocks EXCEPT ![k] = x]
  OBVIOUS
<1>4. PICK D : D = DOMAIN c.blocks
  OBVIOUS
<1>5. D \in SUBSET Keys /\ c.blocks \in [D -> Block] /\ k \in D
  BY <1>0, <1>4, CacheParts
<1>6. b \in [D -> Block] /\ b[k] = x /\ \A y \in D \ {k} : b[y] = c.blocks[y]
  BY <1>2, <1>3, <1>5
<1>7. b \in AnyBlocks
  BY <1>5, <1>6, TableIs
<1>8. PICK old : old = SizeOf[c.blocks[k].value]
  OBVIOUS
<1>9. PICK size : size = SizeOf[v]
  OBVIOUS
<1>10. old \in Nat /\ SizesOf(c, {k}) = old /\ size \in Nat /\ c.total \in Int
  <2>1. SizeOf \in [Values -> Nat \ {0}]
    BY LirsAssumption
  <2> QED BY <1>0, <1>8, <1>9, <2>1, SizeOfOne, CacheParts, Constants
<1>11. PICK total : total = Wrap(c.total - old + size)
  OBVIOUS
<1>12. total \in 0 .. Word - 1
  BY <1>10, <1>11, WrapRange
<1>13. Revalued(c, k, v) = [c EXCEPT !.blocks = b, !.total = total]
  BY <1>1, <1>3, <1>8, <1>9, <1>11 DEF Revalued
<1>14. PICK r : r = [c EXCEPT !.blocks = b, !.total = total]
  OBVIOUS
<1>15. /\ r \in AnyCache /\ r.S = c.S /\ r.Q = c.Q /\ r.blocks = b
       /\ r.lir = c.lir /\ r.hir = c.hir /\ r.total = total
  BY <1>0, <1>7, <1>12, <1>14 DEF AnyCache
<1>16. DOMAIN r.blocks = DOMAIN c.blocks /\ \A y \in DOMAIN c.blocks : r.blocks[y].type = c.blocks[y].type
  BY <1>2, <1>4, <1>6, <1>15
<1>17. (\A type : Kind(r, type) = Kind(c, type)) /\ ResidentIn(r) = ResidentIn(c)
  BY <1>16 DEF Kind, ResidentIn
<1>18. Listed(r) /\ Counted(r)
  BY <1>0, <1>15, <1>16, <1>17 DEF Listed, Counted
<1>19. ASSUME Weighed(c), c.blocks[k].type # HIR_NON_RESIDENT
       PROVE  Weighed(r)
  <2>1. PICK A : A = ResidentIn(c)
    OBVIOUS
  <2>2. A \subseteq DOMAIN c.blocks /\ IsFiniteSet(A) /\ {k} \subseteq A
    BY <1>0, <1>19, <2>1, KindsFinite DEF ResidentIn
  <2>3. PICK B : B = A \ {k}
    OBVIOUS
  <2>4. SizesOf(c, A) = SizesOf(c, {k}) + SizesOf(c, B)
    BY <1>0, <2>2, <2>3, SizesParts
  <2>5. SizesOf(r, A) = SizesOf(r, {k}) + SizesOf(r, B) /\ SizesOf(r, {k}) = size
    <3>1. A \subseteq DOMAIN r.blocks /\ k \in DOMAIN r.blocks /\ r.blocks[k].value = v
      BY <1>2, <1>6, <1>15, <1>16, <2>2
    <3>2. SizesOf(r, {k}) = size
      BY <1>9, <1>15, <3>1, SizeOfOne
    <3>3. SizesOf(r, A) = SizesOf(r, {k}) + SizesOf(r, B)
      BY <1>15, <2>2, <2>3, <3>1, SizesParts
    <3> QED BY <3>2, <3>3
  <2>6. IsFiniteSet(B) /\ B \subseteq DOMAIN c.blocks
    BY <2>2, <2>3, FS_Subset
  <2>7. SizesOf(c, B) \in Nat /\ SizesOf(c, A) \in Nat
    BY <1>0, <2>2, <2>6, SizesTyped
  <2>8. SizesOf(c, B) = SizesOf(r, B)
    <3>1. \A y \in B : c.blocks[y].value = r.blocks[y].value
      BY <1>4, <1>6, <1>15, <2>3, <2>6
    <3> QED BY <2>6, <3>1, SizesAgree
  <2>9. PICK a : a = SizesOf(c, A)
    OBVIOUS
  <2>10. PICK w : w = Wrap(a)
    OBVIOUS
  <2>11. PICK change : change = size - old
    OBVIOUS
  <2>12. /\ a \in Int /\ w \in Int /\ change \in Int /\ w - old + size = w + change
         /\ a + change = SizesOf(r, A)
    <3>1. w \in Int
      BY <1>10, <2>7, <2>9, <2>10, WrapRange, Constants
    <3> QED BY <1>10, <2>4, <2>5, <2>7, <2>8, <2>9, <2>11, <3>1
  <2>13. total = Wrap(w + change)
    BY <1>11, <1>19, <2>1, <2>9, <2>10, <2>12 DEF Weighed
  <2>14. Wrap(w + change) = Wrap(a + change)
    BY <2>10, <2>12, WrapAdds
  <2> QED BY <1>15, <1>17, <2>1, <2>12, <2>13, <2>14 DEF Weighed
<1> QED BY <1>0, <1>13, <1>14, <1>15, <1>16, <1>17, <1>18, <1>19 DEF Sound

\* MakeRoom for any cache.
MadeRoom(c, v) ==
  LET evicted == lirs_evict_hir(c)
  IN IF Room(c, v) THEN c ELSE IF Room(evicted, v) THEN evicted ELSE lirs_prune_s_stack(evicted)

\* Making room takes no LIR block.
LEMMA MadeRoomIs ==
  ASSUME NEW c, Sound(c), Settled(c), NEW v
  PROVE  /\ Left(c, MadeRoom(c, v)) /\ Settled(MadeRoom(c, v))
         /\ Kind(MadeRoom(c, v), LIR) = Kind(c, LIR)
<1>1. PICK e : e = lirs_evict_hir(c)
  OBVIOUS
<1>2. /\ Sound(e) /\ Settled(e) /\ DOMAIN e.blocks \subseteq DOMAIN c.blocks
      /\ Kind(e, LIR) = Kind(c, LIR) /\ (Weighed(c) => Weighed(e))
  BY <1>1, Evicts
<1>3. PICK p : p = lirs_prune_s_stack(e)
  OBVIOUS
<1>4. Sound(p) /\ SameResidents(e, p) /\ p.Q = e.Q /\ (Weighed(e) => Weighed(p))
  BY <1>2, <1>3, Pruned
<1>5. Kind(p, LIR) = Kind(e, LIR) /\ DOMAIN p.blocks \subseteq DOMAIN e.blocks
  BY <1>2, <1>4, ResidentsKept DEF Sound, SameResidents
<1>6. Settled(p)
  BY <1>2, <1>4 DEF Settled
<1>7. MadeRoom(c, v) \in {c, e, p}
  BY <1>1, <1>3 DEF MadeRoom
<1> QED BY <1>2, <1>4, <1>5, <1>6, <1>7 DEF Left

\* A new block in the table and on the lists, before what is in excess goes.
Inserted(c, k, v, lir) ==
  LET block == [type |-> IF lir THEN LIR ELSE HIR_RESIDENT, value |-> v]
      new == [c EXCEPT !.blocks = [x \in DOMAIN @ \union {k} |-> IF x = k THEN block ELSE @[x]],
                       !.lir = IF lir THEN @ + 1 ELSE @,
                       !.hir = IF lir THEN @ ELSE @ + 1,
                       !.total = Wrap(@ + SizeOf[v])]
  IN OnTop(IF lir THEN new ELSE Queued(new, k), k)

\* A new block is added to the lists of its status.
LEMMA InsertedIs ==
  ASSUME NEW c, Sound(c), NEW k \in Keys \ DOMAIN c.blocks, NEW v \in Values, NEW lir \in BOOLEAN
  PROVE  /\ Sound(Inserted(c, k, v, lir))
         /\ Inserted(c, k, v, lir).Q = IF lir THEN c.Q ELSE Append(c.Q, k)
         /\ DOMAIN Inserted(c, k, v, lir).blocks = DOMAIN c.blocks \union {k}
         /\ Inserted(c, k, v, lir).blocks[k].type = (IF lir THEN LIR ELSE HIR_RESIDENT)
         /\ Kind(c, LIR) \subseteq Kind(Inserted(c, k, v, lir), LIR)
         /\ Weighed(c) => Weighed(Inserted(c, k, v, lir))
<1>0. c \in AnyCache /\ Listed(c) /\ Counted(c)
  BY DEF Sound
<1>a. /\ IsInjective(c.S) /\ IsInjective(c.Q) /\ Range(c.S) \subseteq DOMAIN c.blocks
      /\ Range(c.Q) = Kind(c, HIR_RESIDENT) /\ DOMAIN c.blocks = Range(c.S) \union Range(c.Q)
      /\ c.lir \in Int /\ c.hir \in Int /\ c.total \in Int
  BY <1>0, CacheParts, Constants DEF Listed
<1>1. PICK x : x = [type |-> IF lir THEN LIR ELSE HIR_RESIDENT, value |-> v]
  OBVIOUS
<1>2. x \in Block /\ x.type = (IF lir THEN LIR ELSE HIR_RESIDENT) /\ x.value = v
  BY <1>1 DEF Block
<1>3. PICK b : b = [y \in DOMAIN c.blocks \union {k} |-> IF y = k THEN x ELSE c.blocks[y]]
  OBVIOUS
<1>4. /\ DOMAIN b = DOMAIN c.blocks \union {k} /\ b[k] = x
      /\ \A y \in DOMAIN c.blocks : b[y] = c.blocks[y]
  BY <1>3
<1>5. PICK D : D = DOMAIN c.blocks \union {k}
  OBVIOUS
<1>6. D \in SUBSET Keys /\ \A y \in D : b[y] \in Block
  BY <1>0, <1>2, <1>4, <1>5, CacheParts
<1>7. b \in AnyBlocks
  <2>1. b \in [D -> Block]
    BY <1>3, <1>5, <1>6
  <2> QED BY <1>6, <2>1, TableIs
<1>8. PICK size : size = SizeOf[v]
  OBVIOUS
<1>9. size \in Nat
  BY <1>8, LirsAssumption
<1>10. PICK total : total = Wrap(c.total + size)
  OBVIOUS
<1>11. total \in 0 .. Word - 1
  BY <1>9, <1>10, <1>a, WrapRange
<1>12. PICK n \in Int : n = IF lir THEN c.lir + 1 ELSE c.lir
  BY <1>a
<1>13. PICK m \in Int : m = IF lir THEN c.hir ELSE c.hir + 1
  BY <1>a
<1>14. PICK new : new = [c EXCEPT !.blocks = b, !.lir = n, !.hir = m, !.total = total]
  OBVIOUS
<1>15. /\ new \in AnyCache /\ new.S = c.S /\ new.Q = c.Q /\ new.blocks = b
       /\ new.lir = n /\ new.hir = m /\ new.total = total
  BY <1>0, <1>7, <1>11, <1>14 DEF AnyCache
<1>16. PICK q : q = IF lir THEN new ELSE Queued(new, k)
  OBVIOUS
<1>17. k \notin Range(c.Q) /\ k \notin Range(c.S)
  BY <1>a
<1>18. /\ q \in AnyCache /\ q.S = c.S /\ q.blocks = b /\ q.lir = n /\ q.hir = m /\ q.total = total
       /\ IsInjective(q.Q) /\ Range(q.Q) = (IF lir THEN Range(c.Q) ELSE Range(c.Q) \union {k})
       /\ q.Q = IF lir THEN c.Q ELSE Append(c.Q, k)
  <2>1. CASE lir
    BY <1>15, <1>16, <1>a, <2>1
  <2>2. CASE ~lir
    <3>1. /\ Queued(new, k) \in AnyCache
          /\ Queued(new, k).S = new.S /\ Queued(new, k).blocks = new.blocks
          /\ Queued(new, k).lir = new.lir /\ Queued(new, k).hir = new.hir /\ Queued(new, k).total = new.total
          /\ IsInjective(Queued(new, k).Q)
          /\ Range(Queued(new, k).Q) = Range(new.Q) \union {k}
          /\ k \notin Range(new.Q) => Queued(new, k).Q = Append(new.Q, k)
      <4>1. IsInjective(new.Q)
        BY <1>15, <1>a
      <4> QED BY <4>1, <1>15, QueuedFields
    <3>2. q = Queued(new, k)
      BY <1>16, <2>2
    <3> QED BY <1>15, <1>17, <2>2, <3>1, <3>2
  <2> QED BY <2>1, <2>2
<1>19. PICK r : r = OnTop(q, k)
  OBVIOUS
<1>20. /\ r \in AnyCache /\ r.Q = q.Q /\ r.blocks = b /\ r.lir = n /\ r.hir = m /\ r.total = total
       /\ IsInjective(r.S) /\ Range(r.S) = Range(c.S) \union {k}
  <2>1. IsInjective(q.S)
    BY <1>18, <1>a
  <2> QED BY <1>18, <1>19, <2>1, OnTopFields
<1>21. Inserted(c, k, v, lir) = r
  BY <1>1, <1>3, <1>8, <1>10, <1>12, <1>13, <1>14, <1>16, <1>19 DEF Inserted
<1>22. /\ lir => /\ Kind(r, LIR) = Kind(c, LIR) \union {k}
                 /\ Kind(r, HIR_RESIDENT) = Kind(c, HIR_RESIDENT)
       /\ ~lir => /\ Kind(r, LIR) = Kind(c, LIR)
                  /\ Kind(r, HIR_RESIDENT) = Kind(c, HIR_RESIDENT) \union {k}
       /\ ResidentIn(r) = ResidentIn(c) \union {k}
  BY <1>2, <1>4, <1>20, TypesDiffer DEF Kind, ResidentIn
<1>23. Listed(r)
  BY <1>4, <1>18, <1>20, <1>22, <1>a DEF Listed
<1>24. Counted(r)
  <2>1. IsFiniteSet(Kind(c, LIR)) /\ IsFiniteSet(Kind(c, HIR_RESIDENT))
        /\ k \notin Kind(c, LIR) /\ k \notin Kind(c, HIR_RESIDENT)
    BY <1>0, KindsFinite DEF Kind
  <2>2. /\ Cardinality(Kind(c, LIR) \union {k}) = Cardinality(Kind(c, LIR)) + 1
        /\ Cardinality(Kind(c, HIR_RESIDENT) \union {k}) = Cardinality(Kind(c, HIR_RESIDENT)) + 1
    BY <2>1, OneMore
  <2> QED BY <1>0, <1>12, <1>13, <1>20, <1>22, <2>2 DEF Counted
<1>25. ASSUME Weighed(c)
       PROVE  Weighed(r)
  <2>1. PICK B : B = ResidentIn(c)
    OBVIOUS
  <2>2. B \subseteq DOMAIN c.blocks /\ IsFiniteSet(B)
    BY <1>0, <2>1, KindsFinite DEF ResidentIn
  <2>3. PICK A : A = B \union {k}
    OBVIOUS
  <2>4. IsFiniteSet(A) /\ A \subseteq DOMAIN r.blocks /\ {k} \subseteq A /\ A \ {k} = B
    <3>1. k \notin B
      BY <2>2
    <3>2. IsFiniteSet(A)
      BY <2>2, <2>3, FS_AddElement
    <3> QED BY <1>4, <1>20, <2>2, <2>3, <3>1, <3>2
  <2>5. SizesOf(r, A) = SizesOf(r, {k}) + SizesOf(r, B)
    BY <1>20, <2>4, SizesParts
  <2>6. SizesOf(r, {k}) = size
    BY <1>2, <1>4, <1>8, <1>20, SizeOfOne
  <2>7. SizesOf(c, B) = SizesOf(r, B)
    <3>1. \A y \in B : c.blocks[y].value = r.blocks[y].value
      BY <1>4, <1>20, <2>2
    <3> QED BY <2>2, <3>1, SizesAgree
  <2>8. PICK a : a = SizesOf(c, B)
    OBVIOUS
  <2>9. a \in Nat /\ a + size = SizesOf(r, A)
    <3>1. a \in Nat
      BY <1>0, <2>2, <2>8, SizesTyped
    <3> QED BY <1>9, <2>5, <2>6, <2>7, <2>8, <3>1
  <2>10. total = Wrap(Wrap(a) + size)
    BY <1>10, <1>25, <2>1, <2>8 DEF Weighed
  <2>11. Wrap(Wrap(a) + size) = Wrap(a + size)
    BY <1>9, <2>9, WrapAdds
  <2> QED BY <1>20, <1>22, <2>1, <2>3, <2>9, <2>10, <2>11 DEF Weighed
<1> QED BY <1>2, <1>4, <1>18, <1>20, <1>21, <1>22, <1>23, <1>24, <1>25 DEF Sound

\* The head of Q goes for a new block, never the new block itself.
LEMMA InsertedStays ==
  ASSUME NEW c, Sound(c), Settled(c), NEW k \in Keys \ DOMAIN c.blocks, NEW v \in Values,
         NEW lir \in BOOLEAN
  PROVE  /\ Sound(lirs_evict_hir(lirs_prune_s_stack(Inserted(c, k, v, lir))))
         /\ Settled(lirs_evict_hir(lirs_prune_s_stack(Inserted(c, k, v, lir))))
         /\ DOMAIN lirs_evict_hir(lirs_prune_s_stack(Inserted(c, k, v, lir))).blocks
              \subseteq DOMAIN c.blocks \union {k}
         /\ k \in DOMAIN lirs_evict_hir(lirs_prune_s_stack(Inserted(c, k, v, lir))).blocks
         /\ Kind(c, LIR) \subseteq Kind(lirs_evict_hir(lirs_prune_s_stack(Inserted(c, k, v, lir))), LIR)
         /\ Weighed(c) => Weighed(lirs_evict_hir(lirs_prune_s_stack(Inserted(c, k, v, lir))))
<1>1. PICK i : i = Inserted(c, k, v, lir)
  OBVIOUS
<1>2. /\ Sound(i) /\ i.Q = (IF lir THEN c.Q ELSE Append(c.Q, k))
      /\ DOMAIN i.blocks = DOMAIN c.blocks \union {k}
      /\ i.blocks[k].type = (IF lir THEN LIR ELSE HIR_RESIDENT)
      /\ Kind(c, LIR) \subseteq Kind(i, LIR) /\ (Weighed(c) => Weighed(i))
  BY <1>1, InsertedIs
<1>3. PICK p : p = lirs_prune_s_stack(i)
  OBVIOUS
<1>4. Sound(p) /\ SameResidents(i, p) /\ p.Q = i.Q /\ (Weighed(i) => Weighed(p))
  BY <1>2, <1>3, Pruned
<1>5. Kind(p, LIR) = Kind(i, LIR) /\ DOMAIN p.blocks \subseteq DOMAIN i.blocks
  BY <1>2, <1>4, ResidentsKept DEF Sound, SameResidents
<1>6. k \in DOMAIN p.blocks /\ p.blocks[k].type = i.blocks[k].type
  BY <1>2, <1>4, TypesDiffer DEF SameResidents
<1>7. k \notin Evicted(p)
  <2>1. CASE lir
    <3>1. k \notin Kind(p, HIR_RESIDENT)
      BY <1>2, <1>6, <2>1, TypesDiffer DEF Kind
    <3> QED BY <1>4, <3>1, EvictedIs DEF Sound
  <2>2. CASE ~lir
    <3>1. p.Q = Append(c.Q, k)
      BY <1>2, <1>4, <2>2
    <3>2. PICK n : n = Len(c.Q)
      OBVIOUS
    <3>3. n \in Nat /\ c.Q \in Seq(Keys) /\ n <= hir_capacity
      BY <3>2, CacheParts, ListOf DEF Sound, Settled
    <3>4. p.Q[n + 1] = k /\ Len(p.Q) = n + 1 /\ DOMAIN p.Q = 1 .. n + 1
      BY <3>1, <3>2, <3>3, AppendProperties
    <3>5. IsInjective(p.Q)
      BY <1>4 DEF Sound, Listed
    <3>6. Excess(p) <= 1 /\ Excess(p) \in Nat /\ (Excess(p) = 1 => n # 0)
      BY <3>3, <3>4, Constants DEF Excess
    <3>7. ASSUME NEW j \in 1 .. Excess(p)
          PROVE  p.Q[j] # k
      <4>1. j \in 1 .. n + 1 /\ j # n + 1 /\ n + 1 \in 1 .. n + 1
        BY <3>3, <3>6
      <4> QED BY <3>4, <3>5, <4>1 DEF IsInjective
    <3> QED BY <3>7 DEF Evicted
  <2> QED BY <2>1, <2>2
<1>8. PICK r : r = lirs_evict_hir(p)
  OBVIOUS
<1>9. /\ Sound(r) /\ Settled(r) /\ DOMAIN r.blocks \subseteq DOMAIN p.blocks
      /\ \A x \in DOMAIN p.blocks \ Evicted(p) : x \in DOMAIN r.blocks
      /\ Kind(r, LIR) = Kind(p, LIR) /\ (Weighed(p) => Weighed(r))
  BY <1>4, <1>8, Evicts
<1> QED BY <1>1, <1>2, <1>3, <1>4, <1>5, <1>6, <1>7, <1>8, <1>9

\* Counting two sets that share nothing.
LEMMA BothCounted ==
  ASSUME NEW A, IsFiniteSet(A), NEW B, IsFiniteSet(B), A \cap B = {}
  PROVE  Cardinality(A \union B) = Cardinality(A) + Cardinality(B)
<1>1. Cardinality(A \union B) = Cardinality(A) + Cardinality(B) - Cardinality(A \cap B)
  BY FS_Union
<1>2. PICK a : a = Cardinality(A)
  OBVIOUS
<1>3. PICK b : b = Cardinality(B)
  OBVIOUS
<1>4. a \in Nat /\ b \in Nat
  BY <1>2, <1>3, FS_CardinalityType
<1>5. Cardinality(A \cap B) = 0
  BY FS_EmptySet
<1>6. a + b - 0 = a + b
  BY <1>4
<1> QED BY <1>1, <1>2, <1>3, <1>5, <1>6, Zenon

\* The nodes at the bottom of S, the lowest first.
Bottom(s, n) == [i \in 1 .. n |-> s[Len(s) + 1 - i]]

\* The nodes at the bottom of S.
LEMMA BottomIs ==
  ASSUME NEW T, NEW s \in Seq(T), IsInjective(s), NEW n \in 0 .. Len(s)
  PROVE  /\ Bottom(s, n) \in Seq(T) /\ IsInjective(Bottom(s, n)) /\ Len(Bottom(s, n)) = n
         /\ Range(Bottom(s, n)) \subseteq Range(s)
         /\ Range(SubSeq(s, 1, Len(s) - n)) = Range(s) \ Range(Bottom(s, n))
         /\ \A i \in 1 .. n : Bottom(s, n)[i] \in Range(Bottom(s, n))
<1>1. PICK b : b = Bottom(s, n)
  OBVIOUS
<1>2. /\ Len(s) \in Nat /\ DOMAIN s = 1 .. Len(s) /\ \A i \in 1 .. Len(s) : s[i] \in T
      /\ Range(s) = {s[i] : i \in 1 .. Len(s)}
  BY ListOf
<1>3. \A i \in 1 .. n : Len(s) + 1 - i \in 1 .. Len(s)
  BY <1>2
<1>4. b \in [1 .. n -> T] /\ \A i \in 1 .. n : b[i] = s[Len(s) + 1 - i]
  BY <1>1, <1>2, <1>3 DEF Bottom
<1>5. b \in Seq(T) /\ Len(b) = n /\ DOMAIN b = 1 .. n
  BY <1>4, <1>2
<1>6. Range(b) = {b[i] : i \in 1 .. n}
  BY <1>5, ListOf
<1>7. \A x, y \in 1 .. Len(s) : s[x] = s[y] => x = y
  BY <1>2 DEF IsInjective
<1>8. IsInjective(b)
  <2> SUFFICES ASSUME NEW i \in 1 .. n, NEW j \in 1 .. n, b[i] = b[j]
               PROVE  i = j
    BY <1>5 DEF IsInjective
  <2>1. Len(s) + 1 - i = Len(s) + 1 - j
    BY <1>3, <1>4, <1>7
  <2> QED BY <2>1, <1>2
<1>9. Range(b) = {s[i] : i \in (Len(s) - n) + 1 .. Len(s)}
  <2>1. ASSUME NEW i \in 1 .. n
        PROVE  b[i] \in {s[j] : j \in (Len(s) - n) + 1 .. Len(s)}
    <3>1. Len(s) + 1 - i \in (Len(s) - n) + 1 .. Len(s)
      BY <1>2
    <3> QED BY <1>4, <3>1
  <2>2. ASSUME NEW j \in (Len(s) - n) + 1 .. Len(s)
        PROVE  s[j] \in Range(b)
    <3>1. PICK i : i = Len(s) + 1 - j
      OBVIOUS
    <3>2. i \in 1 .. n /\ Len(s) + 1 - i = j
      BY <1>2, <3>1
    <3>3. b[i] = s[j]
      BY <1>4, <3>2
    <3> QED BY <1>6, <3>2, <3>3
  <2> QED BY <1>6, <2>1, <2>2
<1>10. Range(SubSeq(s, 1, Len(s) - n)) = Range(s) \ Range(b)
  <2>0. Len(s) - n \in 0 .. Len(s)
    BY <1>2
  <2>1. PICK m \in 0 .. Len(s) : m = Len(s) - n
    BY <2>0, Zenon
  <2>2. Range(SubSeq(s, 1, m)) = Range(s) \ {s[i] : i \in m + 1 .. Len(s)}
    BY FirstNodes
  <2> QED BY <1>9, <2>1, <2>2
<1>11. Range(b) \subseteq Range(s)
  BY <1>2, <1>3, <1>4, <1>6
<1>12. \A i \in 1 .. n : b[i] \in Range(b)
  BY <1>6
<1> QED BY <1>1, <1>5, <1>8, <1>10, <1>11, <1>12

\* The LIR blocks in excess go from the bottom of S to the end of Q.
Sunk(c, n) ==
  [c EXCEPT !.S = SubSeq(@, 1, Len(@) - n), !.Q = @ \o Bottom(c.S, n),
            !.lir = @ - n, !.hir = @ + n,
            !.blocks = [k \in DOMAIN @ |-> IF k \in Range(Bottom(c.S, n))
                          THEN [@[k] EXCEPT !.type = HIR_RESIDENT] ELSE @[k]]]

\* A resize demotes LIR blocks at the bottom of S, and leaves the cache in order.
LEMMA SunkIs ==
  ASSUME NEW c, Sound(c), NEW n \in 0 .. Len(c.S),
         \A i \in 1 .. n : c.blocks[Bottom(c.S, n)[i]].type = LIR
  PROVE  /\ Sound(Sunk(c, n)) /\ DOMAIN Sunk(c, n).blocks = DOMAIN c.blocks
         /\ Weighed(c) => Weighed(Sunk(c, n))
<1>0. c \in AnyCache /\ Listed(c) /\ Counted(c)
  BY DEF Sound
<1>a. /\ IsInjective(c.S) /\ IsInjective(c.Q) /\ Range(c.S) \subseteq DOMAIN c.blocks
      /\ Range(c.Q) = Kind(c, HIR_RESIDENT) /\ DOMAIN c.blocks = Range(c.S) \union Range(c.Q)
      /\ c.lir \in Int /\ c.hir \in Int /\ c.S \in Seq(Keys) /\ c.Q \in Seq(Keys)
  BY <1>0, CacheParts DEF Listed
<1>1. PICK u : u = Bottom(c.S, n)
  OBVIOUS
<1>2. PICK s : s = SubSeq(c.S, 1, Len(c.S) - n)
  OBVIOUS
<1>3. PICK B : B = Range(u)
  OBVIOUS
<1>4. /\ u \in Seq(Keys) /\ IsInjective(u) /\ Len(u) = n
      /\ B \subseteq Range(c.S) /\ Range(s) = Range(c.S) \ B
      /\ B = {u[i] : i \in 1 .. n}
  <2>1. /\ u \in Seq(Keys) /\ IsInjective(u) /\ Len(u) = n
        /\ Range(u) \subseteq Range(c.S) /\ Range(s) = Range(c.S) \ Range(u)
    BY <1>a, <1>1, <1>2, BottomIs
  <2>2. Range(u) = {u[i] : i \in 1 .. n}
    BY <2>1, ListOf
  <2> QED BY <1>3, <2>1, <2>2
<1>5. s \in Seq(Keys) /\ IsInjective(s)
  <2>0. Len(c.S) - n \in 0 .. Len(c.S)
    BY <1>a, ListOf
  <2>1. PICK m \in 0 .. Len(c.S) : m = Len(c.S) - n
    BY <2>0, Zenon
  <2>2. SubSeq(c.S, 1, m) \in Seq(Keys) /\ IsInjective(SubSeq(c.S, 1, m))
    BY <1>a, FirstNodes
  <2> QED BY <1>2, <2>1, <2>2
<1>6. B \subseteq Kind(c, LIR)
  BY <1>1, <1>4, <1>a DEF Kind
<1>7. B \cap Range(c.Q) = {} /\ B \subseteq DOMAIN c.blocks
  BY <1>6, <1>a, TypesDiffer DEF Kind
<1>8. PICK q : q = c.Q \o u
  OBVIOUS
<1>9. q \in Seq(Keys) /\ IsInjective(q) /\ Range(q) = Range(c.Q) \union B
  <2>1. Range(c.Q) \cap Range(u) = {}
    BY <1>3, <1>7
  <2>2. c.Q \o u \in Seq(Keys) /\ IsInjective(c.Q \o u) /\ Range(c.Q \o u) = Range(c.Q) \union Range(u)
    BY <1>a, <1>4, <2>1, JoinedLists
  <2> QED BY <1>3, <1>8, <2>2
<1>10. PICK b : b = [k \in DOMAIN c.blocks |-> IF k \in B
                       THEN [c.blocks[k] EXCEPT !.type = HIR_RESIDENT] ELSE c.blocks[k]]
  OBVIOUS
<1>11. \A x \in Block : /\ [x EXCEPT !.type = HIR_RESIDENT] \in Block
                        /\ [x EXCEPT !.type = HIR_RESIDENT].type = HIR_RESIDENT
                        /\ [x EXCEPT !.type = HIR_RESIDENT].value = x.value
  BY DEF Block
<1>12. PICK D : D = DOMAIN c.blocks
  OBVIOUS
<1>13. D \in SUBSET Keys /\ \A k \in D : c.blocks[k] \in Block
  BY <1>0, <1>12, CacheParts
<1>14. b \in [D -> Block]
  BY <1>10, <1>11, <1>12, <1>13
<1>15. b \in AnyBlocks
  BY <1>13, <1>14, TableIs
<1>16. /\ DOMAIN b = DOMAIN c.blocks
       /\ \A k \in DOMAIN c.blocks : b[k].value = c.blocks[k].value
       /\ \A k \in B : b[k].type = HIR_RESIDENT
       /\ \A k \in DOMAIN c.blocks \ B : b[k] = c.blocks[k]
  BY <1>7, <1>10, <1>11, <1>12, <1>13
<1>17. PICK r : r = [c EXCEPT !.S = s, !.Q = q, !.lir = c.lir - n, !.hir = c.hir + n, !.blocks = b]
  OBVIOUS
<1>18. /\ r \in AnyCache /\ r.S = s /\ r.Q = q /\ r.lir = c.lir - n /\ r.hir = c.hir + n
       /\ r.blocks = b /\ r.total = c.total
  <2>1. c.lir - n \in Int /\ c.hir + n \in Int
    BY <1>a
  <2> QED BY <2>1, <1>0, <1>5, <1>9, <1>15, <1>17 DEF AnyCache
<1>19. Sunk(c, n) = r
  BY <1>1, <1>2, <1>3, <1>8, <1>10, <1>17, Zenon DEF Sunk
<1>20. Kind(r, LIR) = Kind(c, LIR) \ B
  <2>1. ASSUME NEW k \in Kind(r, LIR)
        PROVE  k \in Kind(c, LIR) \ B
    BY <1>16, <1>18, TypesDiffer DEF Kind
  <2>2. ASSUME NEW k \in Kind(c, LIR) \ B
        PROVE  k \in Kind(r, LIR)
    BY <1>16, <1>18 DEF Kind
  <2> QED BY <2>1, <2>2
<1>21. Kind(r, HIR_RESIDENT) = Kind(c, HIR_RESIDENT) \union B
  <2>1. ASSUME NEW k \in Kind(r, HIR_RESIDENT)
        PROVE  k \in Kind(c, HIR_RESIDENT) \union B
    BY <1>16, <1>18 DEF Kind
  <2>2. ASSUME NEW k \in Kind(c, HIR_RESIDENT)
        PROVE  k \in Kind(r, HIR_RESIDENT)
    <3>1. k \in DOMAIN c.blocks \ B /\ c.blocks[k].type = HIR_RESIDENT
      BY <1>6, TypesDiffer DEF Kind
    <3> QED BY <3>1, <1>16, <1>18 DEF Kind
  <2>3. ASSUME NEW k \in B
        PROVE  k \in Kind(r, HIR_RESIDENT)
    BY <1>7, <1>16, <1>18 DEF Kind
  <2> QED BY <2>1, <2>2, <2>3
<1>22. ResidentIn(r) = ResidentIn(c)
  <2>1. \A k \in B : c.blocks[k].type # HIR_NON_RESIDENT /\ b[k].type # HIR_NON_RESIDENT
    BY <1>6, <1>16, TypesDiffer DEF Kind
  <2> QED BY <1>16, <1>18, <2>1 DEF ResidentIn
<1>23. Listed(r)
  BY <1>4, <1>5, <1>7, <1>9, <1>16, <1>18, <1>21, <1>a DEF Listed
<1>24. Counted(r)
  <2>1. IsFiniteSet(Kind(c, LIR)) /\ IsFiniteSet(Kind(c, HIR_RESIDENT))
    BY <1>0, KindsFinite
  <2>2. IsFiniteSet(B) /\ Cardinality(B) = n
    BY <1>3, <1>4, ListCount
  <2>3. Cardinality(Kind(r, LIR)) = Cardinality(Kind(c, LIR)) - n
    BY <1>6, <1>20, <2>1, <2>2, PartGone
  <2>4. Cardinality(Kind(r, HIR_RESIDENT)) = Cardinality(Kind(c, HIR_RESIDENT)) + n
    <3>1. Kind(c, HIR_RESIDENT) \cap B = {}
      BY <1>7, <1>a
    <3> QED BY <1>21, <2>1, <2>2, <3>1, BothCounted
  <2> QED BY <1>0, <1>18, <2>3, <2>4 DEF Counted
<1>25. Weighed(c) => Weighed(r)
  <2>1. \A k \in ResidentIn(c) : r.blocks[k].value = c.blocks[k].value
    BY <1>16, <1>18 DEF ResidentIn
  <2> QED BY <1>0, <1>18, <1>22, <2>1, SameWeight
<1> QED BY <1>16, <1>18, <1>19, <1>23, <1>24, <1>25 DEF Sound

\* There are at least as many nodes in S as LIR blocks.
LEMMA LirInS ==
  ASSUME NEW c, Sound(c)
  PROVE  c.lir \in 0 .. Len(c.S) /\ Len(c.S) \in Nat
<1>1. c \in AnyCache /\ Listed(c) /\ c.lir = Cardinality(Kind(c, LIR)) /\ c.S \in Seq(Keys)
  BY CacheParts DEF Sound, Counted
<1>2. Kind(c, LIR) \subseteq Range(c.S)
  BY <1>1, TypesDiffer DEF Listed, Kind
<1>3. IsFiniteSet(Range(c.S)) /\ Cardinality(Range(c.S)) = Len(c.S)
  BY <1>1, ListCount DEF Listed
<1>4. Cardinality(Kind(c, LIR)) <= Cardinality(Range(c.S)) /\ Cardinality(Kind(c, LIR)) \in Nat
  BY <1>2, <1>3, FS_Subset, FS_CardinalityType
<1>5. Len(c.S) \in Nat
  BY <1>1, ListOf
<1> QED BY <1>1, <1>3, <1>4, <1>5

-----------------------------------------------------------------------------
(* The operations: each keeps the invariant, and says which blocks may be  *)
(* gone or new.                                                            *)

\* An empty cache is in order.
LEMMA EmptyCache == Sound(Empty) /\ Settled(Empty) /\ Weighed(Empty)
<1>1. PICK c : c = Empty
  OBVIOUS
<1>2. /\ c.S = <<>> /\ c.Q = <<>> /\ c.blocks = <<>> /\ c.lir = 0 /\ c.hir = 0 /\ c.total = 0
  BY <1>1 DEF Empty
<1>3. \A T : <<>> \in Seq(T)
  OBVIOUS
<1>4. Len(<<>>) = 0 /\ DOMAIN <<>> = {}
  OBVIOUS
<1>5. <<>> \in AnyBlocks
  <2>1. <<>> \in Seq(Block)
    OBVIOUS
  <2>2. <<>> \in [1 .. 0 -> Block] /\ 1 .. 0 = {}
    BY <2>1, <1>4, LenProperties
  <2>3. <<>> \in [{} -> Block]
    BY <2>2
  <2> QED BY <2>3, TableIs
<1>6. c \in AnyCache
  <2>1. <<>> \in Seq(Keys) /\ 0 \in Int /\ 0 \in 0 .. Word - 1
    BY Constants
  <2> QED BY <1>1, <1>5, <2>1 DEF Empty, AnyCache
<1>7. (\A type : Kind(c, type) = {}) /\ ResidentIn(c) = {}
  BY <1>2, <1>4 DEF Kind, ResidentIn
<1>8. IsInjective(<<>>) /\ Range(<<>>) = {}
  BY <1>4 DEF IsInjective, Range
<1>9. Listed(c)
  BY <1>2, <1>4, <1>7, <1>8 DEF Listed
<1>10. Counted(c)
  BY <1>2, <1>7, FS_EmptySet DEF Counted
<1>11. Settled(c)
  BY <1>2, <1>4, Constants DEF Settled
<1>12. Weighed(c)
  <2>1. SizesOf(c, {}) = 0
    BY SumEmpty DEF SizesOf
  <2>2. Wrap(0) = 0
    BY Constants DEF Wrap
  <2> QED BY <1>2, <1>7, <2>1, <2>2 DEF Weighed
<1> QED BY <1>1, <1>6, <1>9, <1>10, <1>11, <1>12 DEF Sound

\* The variables are the fields.
LEMMA CacheFields ==
  /\ Cache.S = S /\ Cache.Q = Q /\ Cache.blocks = blocks
  /\ Cache.lir = lir_count /\ Cache.hir = hir_resident_count /\ Cache.total = total_size
  BY DEF Cache

\* The cache after an operation is the one it computed.
LEMMA BecomesCache ==
  ASSUME NEW c \in AnyCache, Becomes(c)
  PROVE  Cache' = c
<1>1. c = [S |-> c.S, Q |-> c.Q, blocks |-> c.blocks, lir |-> c.lir, hir |-> c.hir, total |-> c.total]
  BY DEF AnyCache
<1> QED BY <1>1 DEF Becomes, Cache

\* The same of an empty one.
LEMMA BecomesEmpty ==
  ASSUME Becomes(Empty)
  PROVE  Cache' = Empty
  BY DEF Becomes, Cache, Empty

\* A live cache takes another value.
LEMMA StaysLive ==
  ASSUME NEW c, Sound(c), Settled(c), Becomes(c),
         status' = "live", capacity' \in Capacities, miscounted' \in BOOLEAN,
         ~miscounted' => Weighed(c)
  PROVE  LirsInv' /\ Cache' = c
<1>1. Cache' = c
  BY BecomesCache DEF Sound
<1>2. Sound(Cache)' /\ Settled(Cache)' /\ (~miscounted' => Weighed(Cache)')
  <2>1. Sound(Cache') /\ Settled(Cache') /\ (~miscounted' => Weighed(Cache'))
    BY <1>1
  <2> QED BY <2>1 DEF Sound, Settled, Weighed, AnyCache, AnyBlocks, Listed, Counted, Kind, ResidentIn,
             SizesOf, Wrap, hir_capacity, LIR, HIR_RESIDENT, HIR_NON_RESIDENT, Block
<1> QED BY <1>1, <1>2 DEF LirsInv

\* Nothing is left of a cache that has ended.
LEMMA Ends ==
  ASSUME NEW how \in {"none", "fault", "stuck"}, status' = how, capacity' = 0, miscounted' = FALSE,
         Becomes(Empty)
  PROVE  LirsInv' /\ DOMAIN blocks' = {}
<1>1. Cache' = Empty
  BY BecomesEmpty
<1>2. PICK c : c = Empty
  OBVIOUS
<1>3. Sound(c) /\ Settled(c) /\ Weighed(c)
  BY <1>2, EmptyCache
<1>4. Cache' = c
  BY <1>1, <1>2
<1>5. Sound(Cache') /\ Settled(Cache') /\ Weighed(Cache')
  BY <1>3, <1>4
<1>6. Sound(Cache)' /\ Settled(Cache)' /\ Weighed(Cache)'
  BY <1>5 DEF Sound, Settled, Weighed, AnyCache, AnyBlocks, Listed, Counted, Kind, ResidentIn,
             SizesOf, Wrap, hir_capacity, LIR, HIR_RESIDENT, HIR_NON_RESIDENT, Block
<1>7. (Cache = Empty)'
  BY <1>1 DEF Empty
<1>8. DOMAIN blocks' = {}
  BY DEF Becomes, Empty
<1> QED BY <1>6, <1>7, <1>8 DEF LirsInv

\* A call that leaves total_size right keeps the history as it is.
LEMMA OpStaysLive ==
  ASSUME LirsInv, NEW c, Op(c), Sound(c), Settled(c), Weighed(Cache) => Weighed(c)
  PROVE  LirsInv' /\ Cache' = c /\ status' = "live" /\ status = "live"
<1>1. /\ status = "live" /\ status' = "live" /\ Becomes(c)
      /\ capacity' = capacity /\ miscounted' = miscounted
  BY DEF Op, Keep
<1>2. capacity \in Capacities /\ miscounted \in BOOLEAN /\ (~miscounted => Weighed(Cache))
  BY <1>1 DEF LirsInv
<1> QED BY <1>1, <1>2, StaysLive

\* Blocks are evicted, but no LIR block.
LEMMA GetKeeps ==
  ASSUME LirsInv, NEW k \in Keys, lirs_get(k)
  PROVE  LirsInv' /\ \A x \in DOMAIN blocks : Type(x) = LIR => x \in Resident'
<1>1. PICK c : c = Cache
  OBVIOUS
<1>2. Sound(c) /\ Settled(c) /\ c.blocks = blocks /\ c.S = S
  BY <1>1, CacheFields DEF LirsInv
<1>3. ASSUME NEW r, Left(c, r), Settled(r), ResidentIn(r) = ResidentIn(c), Op(r)
      PROVE  LirsInv' /\ \A x \in DOMAIN blocks : Type(x) = LIR => x \in Resident'
  <2>1. LirsInv' /\ Cache' = r
    BY <1>1, <1>3, OpStaysLive DEF Left
  <2>2. r.blocks = blocks'
    BY <1>3 DEF Op, Becomes
  <2>3. Resident' = ResidentIn(r)
    BY <2>2 DEF Resident, ResidentIn, HIR_NON_RESIDENT
  <2>4. \A x \in DOMAIN blocks : Type(x) = LIR => x \in ResidentIn(c)
    BY <1>2, TypesDiffer DEF Type, ResidentIn
  <2> QED BY <1>3, <2>1, <2>3, <2>4
<1>4. CASE GetLir(k)
  <2>1. PICK r : r = lirs_prune_s_stack(OnTop(c, k))
    OBVIOUS
  <2>2. k \in DOMAIN c.blocks /\ Op(r)
    BY <1>1, <1>2, <1>4, <2>1 DEF GetLir, Known
  <2> QED BY <1>2, <1>3, <2>1, <2>2, GotLir
<1>5. CASE GetResident(k)
  <2>1. PICK r : r = GotResident(c, k)
    OBVIOUS
  <2>2. k \in Kind(c, HIR_RESIDENT) /\ Op(r)
    BY <1>1, <1>2, <1>5, <2>1 DEF GetResident, GotResident, Known, Type, Kind
  <2> QED BY <1>2, <1>3, <2>1, <2>2, GotResidentIs
<1>6. CASE GetNonResident(k)
  <2>1. PICK r : r = lirs_prune_s_stack(Destroy(OutOfS(c, k), {k}))
    OBVIOUS
  <2>2. k \in Kind(c, HIR_NON_RESIDENT) /\ Op(r)
    BY <1>1, <1>2, <1>6, <2>1 DEF GetNonResident, Known, Type, Kind
  <2> QED BY <1>2, <1>3, <2>1, <2>2, GotNonResident
<1> QED BY <1>4, <1>5, <1>6 DEF lirs_get

\* lirs_put of a known key keeps the invariant and every LIR block.
LEMMA PutKnownKeeps ==
  ASSUME LirsInv, NEW k \in Keys, NEW v \in Values, PutKnown(k, v)
  PROVE  /\ LirsInv' /\ DOMAIN blocks' = DOMAIN blocks
         /\ \A x \in DOMAIN blocks : Type(x) = LIR => x \in Resident'
<1>1. PICK c : c = Cache
  OBVIOUS
<1>2. Sound(c) /\ Settled(c) /\ c.blocks = blocks /\ c.total = total_size
  BY <1>1, CacheFields DEF LirsInv
<1>3. PICK r : r = Revalued(c, k, v)
  OBVIOUS
<1>4. k \in DOMAIN c.blocks /\ OpOn(k, r)
  <2>1. OpOn(k, [Cache EXCEPT !.blocks[k].value = v,
                              !.total = Wrap(@ - SizeOf[blocks[k].value] + SizeOf[v])])
    BY DEF PutKnown
  <2>2. r = [Cache EXCEPT !.blocks[k].value = v,
                          !.total = Wrap(@ - SizeOf[blocks[k].value] + SizeOf[v])]
    BY <1>1, <1>2, <1>3 DEF Revalued
  <2>3. k \in DOMAIN blocks
    BY DEF PutKnown, Known
  <2> QED BY <1>2, <2>1, <2>2, <2>3
<1>5. /\ Sound(r) /\ r.Q = c.Q /\ DOMAIN r.blocks = DOMAIN c.blocks /\ ResidentIn(r) = ResidentIn(c)
      /\ Weighed(c) /\ c.blocks[k].type # HIR_NON_RESIDENT => Weighed(r)
  BY <1>2, <1>3, <1>4, RevaluedIs
<1>6. Settled(r)
  BY <1>2, <1>5 DEF Settled
<1>7. /\ status = "live" /\ status' = "live" /\ Becomes(r) /\ capacity' = capacity
      /\ miscounted' = (miscounted \/ blocks[k].type = HIR_NON_RESIDENT)
  BY <1>4 DEF OpOn, Type
<1>8. capacity \in Capacities /\ miscounted \in BOOLEAN /\ (~miscounted => Weighed(c))
  BY <1>1, <1>7 DEF LirsInv
<1>9. miscounted' \in BOOLEAN /\ (~miscounted' => Weighed(r))
  BY <1>2, <1>5, <1>7, <1>8
<1>10. LirsInv'
  BY <1>5, <1>6, <1>7, <1>8, <1>9, StaysLive
<1>11. r.blocks = blocks'
  BY <1>7 DEF Becomes
<1>12. Resident' = ResidentIn(r)
  BY <1>11 DEF Resident, ResidentIn, HIR_NON_RESIDENT
<1>13. \A x \in DOMAIN blocks : Type(x) = LIR => x \in ResidentIn(c)
  BY <1>2, TypesDiffer DEF Type, ResidentIn
<1> QED BY <1>2, <1>5, <1>10, <1>11, <1>12, <1>13

\* So does one that is refused after it has made room.
LEMMA PutRefusedKeeps ==
  ASSUME LirsInv, NEW k, NEW v, PutRefused(k, v)
  PROVE  /\ LirsInv' /\ DOMAIN blocks' \subseteq DOMAIN blocks /\ status' = "live"
         /\ \A x \in DOMAIN blocks : Type(x) = LIR => x \in Resident'
<1>1. PICK c : c = Cache
  OBVIOUS
<1>2. Sound(c) /\ Settled(c) /\ c.blocks = blocks
  BY <1>1, CacheFields DEF LirsInv
<1>3. PICK r : r = MadeRoom(c, v)
  OBVIOUS
<1>4. Op(r)
  BY <1>1, <1>3 DEF PutRefused, MakeRoom, MadeRoom
<1>5. /\ Sound(r) /\ Settled(r) /\ DOMAIN r.blocks \subseteq DOMAIN c.blocks
      /\ (Weighed(c) => Weighed(r)) /\ Kind(r, LIR) = Kind(c, LIR)
  BY <1>2, <1>3, MadeRoomIs DEF Left
<1>6. LirsInv' /\ status' = "live"
  BY <1>1, <1>4, <1>5, OpStaysLive
<1>7. r.blocks = blocks'
  BY <1>4 DEF Op, Becomes
<1>8. Resident' = ResidentIn(r)
  BY <1>7 DEF Resident, ResidentIn, HIR_NON_RESIDENT
<1>9. \A x \in DOMAIN blocks : Type(x) = LIR => x \in ResidentIn(r)
  <2>1. \A x \in DOMAIN blocks : Type(x) = LIR => x \in Kind(c, LIR)
    BY <1>2 DEF Type, Kind
  <2>2. Kind(r, LIR) \subseteq ResidentIn(r)
    BY TypesDiffer DEF Kind, ResidentIn
  <2> QED BY <1>5, <2>1, <2>2
<1> QED BY <1>2, <1>5, <1>6, <1>7, <1>8, <1>9

\* So does one that adds a block.
LEMMA PutNewKeeps ==
  ASSUME LirsInv, NEW k \in Keys, NEW v \in Values, PutNew(k, v)
  PROVE  /\ LirsInv' /\ DOMAIN blocks' \subseteq DOMAIN blocks \union {k} /\ k \in DOMAIN blocks'
         /\ k \notin DOMAIN blocks /\ status' = "live"
         /\ \A x \in DOMAIN blocks : Type(x) = LIR => x \in Resident'
<1>1. PICK c : c = Cache
  OBVIOUS
<1>2. Sound(c) /\ Settled(c) /\ c.blocks = blocks
  BY <1>1, CacheFields DEF LirsInv
<1>3. PICK m : m = MadeRoom(c, v)
  OBVIOUS
<1>4. /\ Sound(m) /\ Settled(m) /\ DOMAIN m.blocks \subseteq DOMAIN c.blocks
      /\ (Weighed(c) => Weighed(m)) /\ Kind(m, LIR) = Kind(c, LIR)
  BY <1>2, <1>3, MadeRoomIs DEF Left
<1>5. PICK lir \in BOOLEAN : lir = (Len(m.S) < capacity - hir_capacity)
  <2>1. (Len(m.S) < capacity - hir_capacity) \in BOOLEAN
    OBVIOUS
  <2> QED BY <2>1, Zenon
<1>6. PICK r : r = lirs_evict_hir(lirs_prune_s_stack(Inserted(m, k, v, lir)))
  OBVIOUS
<1>7. Op(r) /\ k \notin DOMAIN blocks
  <2>1. MakeRoom(v) = m
    BY <1>1, <1>3 DEF MakeRoom, MadeRoom
  <2> QED BY <1>5, <1>6, <2>1 DEF PutNew, Inserted, Known
<1>8. k \in Keys \ DOMAIN m.blocks
  BY <1>2, <1>4, <1>7
<1>9. /\ Sound(r) /\ Settled(r) /\ DOMAIN r.blocks \subseteq DOMAIN m.blocks \union {k}
      /\ k \in DOMAIN r.blocks /\ Kind(m, LIR) \subseteq Kind(r, LIR) /\ (Weighed(m) => Weighed(r))
  BY <1>4, <1>6, <1>8, InsertedStays
<1>10. LirsInv' /\ status' = "live"
  BY <1>1, <1>4, <1>7, <1>9, OpStaysLive
<1>11. r.blocks = blocks'
  BY <1>7 DEF Op, Becomes
<1>12. Resident' = ResidentIn(r)
  BY <1>11 DEF Resident, ResidentIn, HIR_NON_RESIDENT
<1>13. \A x \in DOMAIN blocks : Type(x) = LIR => x \in ResidentIn(r)
  <2>1. \A x \in DOMAIN blocks : Type(x) = LIR => x \in Kind(c, LIR)
    BY <1>2 DEF Type, Kind
  <2>2. Kind(r, LIR) \subseteq ResidentIn(r)
    BY TypesDiffer DEF Kind, ResidentIn
  <2> QED BY <1>4, <1>9, <2>1, <2>2
<1> QED BY <1>2, <1>4, <1>7, <1>9, <1>10, <1>11, <1>12, <1>13

\* lirs_remove keeps the invariant.
LEMMA RemoveKeeps ==
  ASSUME LirsInv, NEW k \in Keys, lirs_remove(k)
  PROVE  LirsInv' /\ DOMAIN blocks' \subseteq DOMAIN blocks \ {k} /\ status' = "live"
<1>1. PICK c : c = Cache
  OBVIOUS
<1>2. Sound(c) /\ Settled(c) /\ c.blocks = blocks
  BY <1>1, CacheFields DEF LirsInv
<1>3. PICK r : r = lirs_prune_s_stack(Destroy(Dropped(c, k), {k}))
  OBVIOUS
<1>4. k \in DOMAIN c.blocks /\ OpOn(k, r)
  BY <1>1, <1>2, <1>3 DEF lirs_remove, Dropped, Known, Type
<1>5. /\ Sound(r) /\ Settled(r) /\ DOMAIN r.blocks \subseteq DOMAIN c.blocks \ {k}
      /\ Weighed(c) /\ c.blocks[k].type # HIR_NON_RESIDENT => Weighed(r)
  BY <1>2, <1>3, <1>4, Removed
<1>6. /\ status = "live" /\ status' = "live" /\ Becomes(r) /\ capacity' = capacity
      /\ miscounted' = (miscounted \/ blocks[k].type = HIR_NON_RESIDENT)
  BY <1>4 DEF OpOn, Type
<1>7. capacity \in Capacities /\ miscounted \in BOOLEAN /\ (~miscounted => Weighed(c))
  BY <1>1, <1>6 DEF LirsInv
<1>8. miscounted' \in BOOLEAN /\ (~miscounted' => Weighed(r))
  BY <1>2, <1>5, <1>6, <1>7
<1>9. LirsInv'
  BY <1>5, <1>6, <1>7, <1>8, StaysLive
<1>10. r.blocks = blocks'
  BY <1>6 DEF Becomes
<1> QED BY <1>2, <1>5, <1>6, <1>9, <1>10

\* The loop of lirs_resize ends with a smaller stack, or never.
LEMMA ResizeKeeps ==
  ASSUME LirsInv, status = "live", NEW n \in Capacities, Resize(n)
  PROVE  /\ LirsInv' /\ DOMAIN blocks' \subseteq DOMAIN blocks
         /\ status' \in {"live", "stuck"}
<1>1. PICK c : c = Cache
  OBVIOUS
<1>2. Sound(c) /\ Settled(c) /\ c.blocks = blocks /\ c.S = S /\ c.Q = Q /\ c.lir = lir_count
  BY <1>1, CacheFields DEF LirsInv
<1>3. PICK excess : excess = IF lir_count > n - hir_capacity THEN lir_count - (n - hir_capacity) ELSE 0
  OBVIOUS
<1>4. excess \in 0 .. Len(c.S)
  <2>1. c.lir \in 0 .. Len(c.S) /\ Len(c.S) \in Nat
    BY <1>2, LirInS
  <2>2. n \in Nat /\ n > hir_capacity
    BY LirsAssumption DEF hir_capacity
  <2> QED BY <1>2, <1>3, <2>1, <2>2, Constants
<1>5. PICK u : u = Bottom(c.S, excess)
  OBVIOUS
<1>6. u = [i \in 1 .. excess |-> S[Len(S) + 1 - i]]
  BY <1>2, <1>5 DEF Bottom
<1>7. PICK d : d = Sunk(c, excess)
  OBVIOUS
<1>8. d = [Cache EXCEPT !.S = SubSeq(@, 1, Len(@) - excess), !.Q = @ \o u,
                        !.lir = @ - excess, !.hir = @ + excess,
                        !.blocks = [k \in DOMAIN @ |-> IF k \in Range(u)
                                  THEN [@[k] EXCEPT !.type = HIR_RESIDENT] ELSE @[k]]]
  BY <1>1, <1>5, <1>7 DEF Sunk
<1>9. IF \E i \in 1 .. excess : Type(u[i]) # LIR
      THEN End("stuck")
      ELSE /\ capacity' = n /\ UNCHANGED <<status, miscounted>>
           /\ Becomes(lirs_evict_hir(d))
  BY <1>3, <1>6, <1>8, Zenon DEF Resize
<1>10. CASE \E i \in 1 .. excess : Type(u[i]) # LIR
  <2>1. End("stuck")
    BY <1>9, <1>10
  <2>2. "stuck" \in {"none", "fault", "stuck"} /\ status' = "stuck" /\ capacity' = 0 /\ miscounted' = FALSE
        /\ Becomes(Empty)
    BY <2>1 DEF End
  <2>3. LirsInv' /\ DOMAIN blocks' = {}
    BY <2>2, Ends
  <2> QED BY <2>2, <2>3
<1>11. CASE \A i \in 1 .. excess : Type(u[i]) = LIR
  <2>1. PICK r : r = lirs_evict_hir(d)
    OBVIOUS
  <2>2. capacity' = n /\ status' = "live" /\ miscounted' = miscounted /\ Becomes(r)
    BY <1>9, <1>11, <2>1
  <2>3. \A i \in 1 .. excess : c.blocks[Bottom(c.S, excess)[i]].type = LIR
    BY <1>2, <1>5, <1>11 DEF Type
  <2>4. Sound(d) /\ DOMAIN d.blocks = DOMAIN c.blocks /\ (Weighed(c) => Weighed(d))
    BY <1>2, <1>4, <1>7, <2>3, SunkIs
  <2>5. Sound(r) /\ Settled(r) /\ DOMAIN r.blocks \subseteq DOMAIN d.blocks /\ (Weighed(d) => Weighed(r))
    BY <2>1, <2>4, Evicts
  <2>6. miscounted \in BOOLEAN /\ (~miscounted => Weighed(c))
    BY <1>1 DEF LirsInv
  <2>7. LirsInv'
    BY <2>2, <2>4, <2>5, <2>6, StaysLive
  <2>8. blocks' = r.blocks
    BY <2>2 DEF Becomes
  <2> QED BY <1>2, <2>2, <2>4, <2>5, <2>7, <2>8
<1> QED BY <1>10, <1>11

-----------------------------------------------------------------------------
(* The theorems of the cache.                                              *)

\* The invariant holds before there is a cache.
LEMMA LirsInit == Init => LirsInv
<1> SUFFICES ASSUME Init PROVE LirsInv
  OBVIOUS
<1>1. Cache = Empty
  BY DEF Init, Cache, Empty
<1> QED BY <1>1, EmptyCache DEF Init, LirsInv

\* lirs_create keeps the invariant.
LEMMA CreateKeeps ==
  ASSUME LirsInv, lirs_create
  PROVE  LirsInv' /\ DOMAIN blocks' = {}
<1>1. PICK c : c = Cache
  OBVIOUS
<1>2. c = Empty
  BY <1>1 DEF LirsInv, lirs_create
<1>3. Sound(c) /\ Settled(c) /\ Weighed(c) /\ c.blocks = <<>>
  BY <1>2, EmptyCache DEF Empty
<1>4. /\ Becomes(c) /\ status' = "live" /\ capacity' \in Capacities /\ miscounted' = miscounted
  BY <1>1, CacheFields DEF Becomes, lirs_create, cache
<1>5. miscounted \in BOOLEAN
  BY DEF LirsInv
<1>6. LirsInv' /\ blocks' = c.blocks
  BY <1>3, <1>4, <1>5, StaysLive DEF Becomes
<1>7. DOMAIN <<>> = {}
  OBVIOUS
<1> QED BY <1>3, <1>6, <1>7

\* Every step keeps it.
LEMMA LirsStep == LirsInv /\ [Next]_vars => LirsInv'
<1> SUFFICES ASSUME LirsInv, [Next]_vars PROVE LirsInv'
  OBVIOUS
<1>1. CASE lirs_create
  BY <1>1, CreateKeeps
<1>2. CASE lirs_destroy
  <2>1. "none" \in {"none", "fault", "stuck"} /\ status' = "none" /\ capacity' = 0
        /\ miscounted' = FALSE /\ Becomes(Empty)
    BY <1>2 DEF lirs_destroy
  <2> QED BY <2>1, Ends
<1>3. CASE lirs_clear
  <2>1. PICK c : c = Empty
    OBVIOUS
  <2>2. Sound(c) /\ Settled(c) /\ Weighed(c) /\ Op(c)
    BY <1>3, <2>1, EmptyCache DEF lirs_clear
  <2> QED BY <2>2, OpStaysLive
<1>4. CASE lirs_resize
  BY <1>4, ResizeKeeps DEF lirs_resize
<1>5. CASE AbsentFault \/ ClearFault
  <2>1. "fault" \in {"none", "fault", "stuck"} /\ status' = "fault" /\ capacity' = 0
        /\ miscounted' = FALSE /\ Becomes(Empty)
    BY <1>5 DEF AbsentFault, ClearFault, End
  <2> QED BY <2>1, Ends
<1>6. ASSUME NEW k \in Keys, lirs_get(k)
      PROVE  LirsInv'
  BY <1>6, GetKeeps
<1>7. ASSUME NEW k \in Keys, lirs_remove(k)
      PROVE  LirsInv'
  BY <1>7, RemoveKeeps
<1>8. ASSUME NEW k \in Keys, NEW v \in Values, lirs_put(k, v)
      PROVE  LirsInv'
  BY <1>8, PutKnownKeeps, PutRefusedKeeps, PutNewKeeps DEF lirs_put
<1>9. CASE UNCHANGED vars
  BY <1>9 DEF vars, cache, LirsInv, Cache, Empty, Sound, Settled, Weighed, AnyCache, AnyBlocks, Listed,
       Counted, Kind, ResidentIn, SizesOf, Wrap, hir_capacity, LIR, HIR_RESIDENT, HIR_NON_RESIDENT, Block
<1> QED BY <1>1, <1>2, <1>3, <1>4, <1>5, <1>6, <1>7, <1>8, <1>9 DEF Next

\* Whatever the calls of a cache, in any order, with any keys, values, capacities
\* and faults: what the invariant says of the lists and the counters stays true.
THEOREM LirsKept == Spec => []LirsInv
  BY LirsInit, LirsStep, PTL DEF Spec

\* The invariant has the types in it.
LEMMA LirsTypes == LirsInv => TypeOK
<1> SUFFICES ASSUME LirsInv PROVE TypeOK
  OBVIOUS
<1>1. PICK c : c = Cache
  OBVIOUS
<1>2. Sound(c) /\ c.S = S /\ c.Q = Q /\ c.blocks = blocks /\ c.total = total_size
  BY <1>1, CacheFields DEF LirsInv
<1>3. IsInjective(S) /\ IsInjective(Q) /\ Range(S) \subseteq DOMAIN blocks /\ Range(Q) \subseteq DOMAIN blocks
  BY <1>2 DEF Sound, Listed
<1>4. DOMAIN blocks \subseteq Keys /\ Range(blocks) \subseteq Block /\ total_size \in 0 .. Word - 1
  BY <1>2, CacheParts DEF Sound, Range
<1> QED BY <1>3, <1>4 DEF LirsInv, TypeOK

\* The lists and the table of a cache keep their types, and no list gets a node
\* twice or keeps one whose block was destroyed.
THEOREM LirsTyped == Spec => []TypeOK
  BY LirsKept, LirsTypes, PTL

\* A sound cache has its lists in order.
LEMMA LirsListed == LirsInv => EveryBlockListed
<1> SUFFICES ASSUME LirsInv PROVE EveryBlockListed
  OBVIOUS
<1>1. PICK c : c = Cache
  OBVIOUS
<1>2. Sound(c) /\ c.S = S /\ c.Q = Q /\ c.blocks = blocks
  BY <1>1, CacheFields DEF LirsInv
<1>3. Range(Q) = {k \in DOMAIN blocks : Type(k) = HIR_RESIDENT}
  BY <1>2 DEF Sound, Listed, Kind, Type
<1>4. \A k \in DOMAIN blocks : Type(k) # HIR_RESIDENT => k \in Range(S)
  BY <1>2, <1>3 DEF Sound, Listed
<1>5. S \in Seq(Keys)
  BY <1>2, CacheParts DEF Sound
<1> QED BY <1>3, <1>4, <1>5, ListOf DEF EveryBlockListed

\* Q has exactly the resident HIR blocks and S every other block, after any
\* promotion, demotion, pruning, eviction, removal and resize: lirs_clear and the
\* evictions, which follow the lists, miss no block of the table.
THEOREM LirsEveryBlockListed == Spec => []EveryBlockListed
  BY LirsKept, LirsListed, PTL

\* The resident blocks are those of the two statuses that are counted.
LEMMA LirsCounted == LirsInv => CountersAreResident
<1> SUFFICES ASSUME LirsInv PROVE CountersAreResident
  OBVIOUS
<1>1. PICK c : c = Cache
  OBVIOUS
<1>2. /\ Sound(c) /\ c.blocks = blocks /\ c.lir = lir_count /\ c.hir = hir_resident_count
      /\ c.total = total_size /\ (~miscounted => Weighed(c))
  BY <1>1, CacheFields DEF LirsInv
<1>3. Resident = ResidentIn(c)
  BY <1>2 DEF Resident, ResidentIn
<1>4. ResidentIn(c) = Kind(c, LIR) \union Kind(c, HIR_RESIDENT) /\ Kind(c, LIR) \cap Kind(c, HIR_RESIDENT) = {}
  <2>1. \A k \in DOMAIN c.blocks : c.blocks[k].type \in {LIR, HIR_RESIDENT, HIR_NON_RESIDENT}
    BY <1>2, CacheParts, BlockParts DEF Sound
  <2> QED BY <2>1, TypesDiffer DEF ResidentIn, Kind
<1>5. Cardinality(ResidentIn(c)) = Cardinality(Kind(c, LIR)) + Cardinality(Kind(c, HIR_RESIDENT))
  <2>1. IsFiniteSet(Kind(c, LIR)) /\ IsFiniteSet(Kind(c, HIR_RESIDENT))
    BY <1>2, KindsFinite DEF Sound
  <2> QED BY <1>4, <2>1, BothCounted
<1>6. lir_count + hir_resident_count = Cardinality(Resident)
  BY <1>2, <1>3, <1>5 DEF Sound, Counted
<1>7. ~miscounted => total_size = Wrap(SizesOf(Cache, Resident))
  BY <1>1, <1>2, <1>3 DEF Weighed
<1> QED BY <1>6, <1>7 DEF CountersAreResident

\* The two counters are the number of resident blocks, and total_size is their
\* size modulo the width of size_t, for as long as no block that was evicted is
\* removed or given another value.
THEOREM LirsCountersAreResident == Spec => []CountersAreResident
  BY LirsKept, LirsCounted, PTL

\* Neither lirs_get nor lirs_put evicts or destroys a block that is LIR when it
\* is called, the one it demotes included.
THEOREM LirsLirSurvives == Spec => LirSurvives
<1>1. LirsInv /\ [Next]_vars
        => [(\E k \in Keys : lirs_get(k) \/ \E v \in Values : lirs_put(k, v))
              => \A k \in DOMAIN blocks : Type(k) = LIR => k \in Resident']_vars
  <2> SUFFICES ASSUME LirsInv, NEW k \in Keys, lirs_get(k) \/ \E v \in Values : lirs_put(k, v)
               PROVE  \A x \in DOMAIN blocks : Type(x) = LIR => x \in Resident'
    OBVIOUS
  <2>1. CASE lirs_get(k)
    BY <2>1, GetKeeps
  <2>2. ASSUME NEW v \in Values, lirs_put(k, v)
        PROVE  \A x \in DOMAIN blocks : Type(x) = LIR => x \in Resident'
    BY <2>2, PutKnownKeeps, PutRefusedKeeps, PutNewKeeps DEF lirs_put
  <2> QED BY <2>1, <2>2
<1> QED BY <1>1, LirsKept, PTL DEF Spec, LirSurvives

-----------------------------------------------------------------------------
(* The manager: what its threads have between two steps.                   *)

PutThreads == {t \in Threads : op[t] = "put"}

ThreadsTyped ==
  /\ pc \in [Threads -> Steps] /\ op \in [Threads -> Calls \union {NULL}]
  /\ key \in [Threads -> Keys \union {NULL}] /\ bin_cache \in BOOLEAN
  /\ \A t \in Threads : pc[t] \notin {"lock", "use"} => op[t] = NULL
  /\ \A t \in Threads : op[t] \in {"put", "remove"} => key[t] \in Keys

\* No block is in two puts.
OneEach == \A t, u \in PutThreads : key[t] = key[u] => t = u

\* Every block has one owner.
Owned ==
  Runs =>
    /\ arena \union held \union Put \union DOMAIN blocks = Keys
    /\ arena \cap held = {} /\ arena \cap Put = {} /\ held \cap Put = {}
    /\ DOMAIN blocks \cap (arena \union held \union Put) = {}
    /\ OneEach

\* A shutdown holds global_lock, and there is a cache until it destroys that; while
\* there is none, no thread is on its way to one, unless init failed or shutdown met
\* a call.
ShutdownTyped ==
  /\ \A t \in Threads : pc[t] \in {"sd_destroy", "sd_null"} => global_lock = t
  /\ status = "live" => \A t \in Threads : pc[t] # "sd_null"
  /\ status = "none" /\ ~raced =>
       /\ \A t \in Threads : pc[t] \in {"idle", "sd_null"}
       /\ bin_cache => \E t \in Threads : pc[t] = "sd_null"
  /\ stale => status = "fault" /\ raced

ManagerInv == LirsInv /\ ThreadsTyped /\ Owned /\ ShutdownTyped

\* The blocks in a put are the keys of the calls of lirs_manager_put.
LEMMA PutIs == Put = {key[t] : t \in PutThreads}
  BY DEF Put, PutThreads

\* They are the same when no thread moves.
LEMMA PutSame ==
  ASSUME UNCHANGED threads
  PROVE  Put' = Put /\ (OneEach => OneEach')
  BY DEF threads, Put, OneEach, PutThreads

\* A put that begins takes its block.
LEMMA PutBegins ==
  ASSUME ThreadsTyped, NEW t \in Threads, NEW name \in Calls, NEW k \in Keys \union {NULL},
         pc[t] = "idle", op' = [op EXCEPT ![t] = name], key' = [key EXCEPT ![t] = k]
  PROVE  /\ name = "put" => Put' = Put \union {k} /\ (OneEach /\ k \notin Put => OneEach')
         /\ name # "put" => Put' = Put /\ (OneEach => OneEach')
<1>1. op[t] = NULL /\ DOMAIN op = Threads /\ DOMAIN key = Threads
  BY DEF ThreadsTyped
<1>2. t \notin PutThreads
  BY <1>1, LirsManagerAssumption DEF PutThreads, Calls
<1>3. \A u \in PutThreads : u \in Threads /\ key'[u] = key[u]
  BY <1>1, <1>2 DEF PutThreads
<1>4. CASE name = "put"
  <2>1. PutThreads' = PutThreads \union {t} /\ key'[t] = k
    BY <1>1, <1>4 DEF PutThreads
  <2>2. Put' = Put \union {k}
    <3>1. Put' = {key'[u] : u \in PutThreads'}
      BY DEF Put, PutThreads
    <3> QED BY <1>3, <2>1, <3>1, PutIs
  <2>3. OneEach /\ k \notin Put => OneEach'
    <3> SUFFICES ASSUME OneEach, k \notin Put, NEW x \in PutThreads', NEW y \in PutThreads', key'[x] = key'[y]
                 PROVE  x = y
      BY DEF OneEach
    <3>1. \A u \in PutThreads : key'[u] # key'[t]
      BY <1>3, <2>1, PutIs
    <3> QED BY <1>3, <2>1, <3>1 DEF OneEach
  <2> QED BY <1>4, <2>2, <2>3
<1>5. CASE name # "put"
  <2>1. PutThreads' = PutThreads
    BY <1>1, <1>2, <1>5 DEF PutThreads
  <2>2. Put' = Put
    <3>1. Put' = {key'[u] : u \in PutThreads'}
      BY DEF Put, PutThreads
    <3> QED BY <1>3, <2>1, <3>1, PutIs
  <2>3. OneEach => OneEach'
    BY <1>3, <2>1 DEF OneEach
  <2> QED BY <1>5, <2>2, <2>3
<1> QED BY <1>4, <1>5

\* A call that returns gives back the block it was putting, if any.
LEMMA PutReturns ==
  ASSUME ThreadsTyped, OneEach, NEW t \in Threads,
         op' = [op EXCEPT ![t] = NULL], key' = [key EXCEPT ![t] = NULL]
  PROVE  Put' = Put \ GivenBack(t) /\ OneEach'
<1>1. DOMAIN op = Threads /\ DOMAIN key = Threads
  BY DEF ThreadsTyped
<1>2. PutThreads' = PutThreads \ {t}
  BY <1>1, LirsManagerAssumption DEF PutThreads, Calls
<1>3. \A u \in PutThreads \ {t} : key'[u] = key[u]
  BY <1>1 DEF PutThreads
<1>4. Put' = {key'[u] : u \in PutThreads'}
  BY DEF Put, PutThreads
<1>5. OneEach'
  BY <1>2, <1>3 DEF OneEach
<1>6. CASE op[t] = "put"
  <2>1. t \in PutThreads /\ GivenBack(t) = {key[t]}
    BY <1>6 DEF PutThreads, GivenBack
  <2>2. \A u \in PutThreads \ {t} : key[u] # key[t]
    BY <2>1 DEF OneEach
  <2>3. Put' = {key[u] : u \in PutThreads \ {t}}
    BY <1>2, <1>3, <1>4
  <2> QED BY <1>5, <2>1, <2>2, <2>3, PutIs
<1>7. CASE op[t] # "put"
  <2>1. t \notin PutThreads /\ GivenBack(t) = {}
    BY <1>7 DEF PutThreads, GivenBack
  <2>2. PutThreads \ {t} = PutThreads
    BY <2>1
  <2>3. Put' = {key[u] : u \in PutThreads}
    BY <1>2, <1>3, <1>4, <2>2
  <2> QED BY <1>5, <2>1, <2>3, PutIs
<1> QED BY <1>6, <1>7

-----------------------------------------------------------------------------
(* The manager's steps.                                                    *)

\* The cache stays in order when it is left alone.
LEMMA VarsKept ==
  ASSUME LirsInv, UNCHANGED vars
  PROVE  LirsInv' /\ status' = status /\ blocks' = blocks
  BY LirsStep DEF vars, cache

\* The invariant holds before the manager is initialized.
LEMMA ManagerInits == ManagerInit => ManagerInv
<1> SUFFICES ASSUME ManagerInit PROVE ManagerInv
  OBVIOUS
<1>1. LirsInv
  BY LirsInit DEF ManagerInit
<1>2. ThreadsTyped
  BY LirsManagerAssumption DEF ManagerInit, ThreadsTyped, Steps, Calls
<1>3. PutThreads = {} /\ Put = {}
  BY LirsManagerAssumption DEF ManagerInit, PutThreads, Put, Calls
<1>4. Owned
  <2>1. DOMAIN blocks = {}
    <3>1. DOMAIN <<>> = {}
      OBVIOUS
    <3> QED BY <3>1 DEF ManagerInit, Init
  <2> QED BY <1>3, <2>1 DEF ManagerInit, Owned, OneEach
<1>5. ShutdownTyped
  BY DEF ManagerInit, Init, ShutdownTyped
<1> QED BY <1>1, <1>2, <1>4, <1>5 DEF ManagerInv

\* Its init keeps it, complete or failed.
LEMMA InitStep ==
  ASSUME ManagerInv, lirs_manager_init \/ InitFails
  PROVE  ManagerInv'
<1>0. LirsInv /\ ThreadsTyped /\ Owned /\ ShutdownTyped
  BY DEF ManagerInv
<1>1. CASE lirs_manager_init
  <2>1. /\ status = "none" /\ lirs_create /\ bin_cache' = TRUE /\ global_lock' = NULL
        /\ raced' = FALSE /\ UNCHANGED <<arena, held, pc, op, key, stale>> /\ status' = "live" /\ AllIdle
    BY <1>1 DEF lirs_manager_init, clients, threads, lirs_create
  <2>2. LirsInv' /\ DOMAIN blocks' = {}
    BY <1>0, <2>1, CreateKeeps
  <2>3. ThreadsTyped'
    BY <1>0, <2>1 DEF ThreadsTyped
  <2>4. Owned'
    <3>1. DOMAIN blocks = {}
      <4>1. DOMAIN <<>> = {} /\ Empty.blocks = <<>>
        BY DEF Empty
      <4> QED BY <1>0, <2>1, <4>1, CacheFields DEF LirsInv
    <3>2. Put' = Put /\ (OneEach => OneEach')
      BY <2>1, PutSame DEF threads
    <3> QED BY <1>0, <2>1, <2>2, <3>1, <3>2 DEF Owned, Runs
  <2>5. ShutdownTyped'
    BY <1>0, <2>1 DEF ShutdownTyped, AllIdle
  <2> QED BY <2>2, <2>3, <2>4, <2>5 DEF ManagerInv
<1>2. CASE InitFails
  <2>1. /\ status = "none" /\ bin_cache' \in BOOLEAN /\ global_lock' = NULL /\ raced' = bin_cache'
        /\ UNCHANGED <<arena, held, pc, op, key, stale>> /\ UNCHANGED vars /\ AllIdle
    BY <1>2 DEF InitFails, clients, threads
  <2>2. LirsInv' /\ status' = status /\ blocks' = blocks
    BY <1>0, <2>1, VarsKept
  <2>3. ThreadsTyped'
    BY <1>0, <2>1 DEF ThreadsTyped
  <2>4. Owned'
    <3>1. Put' = Put /\ (OneEach => OneEach')
      BY <2>1, PutSame DEF threads
    <3> QED BY <1>0, <2>1, <2>2, <3>1 DEF Owned, Runs
  <2>5. ShutdownTyped'
    BY <1>0, <2>1, <2>2 DEF ShutdownTyped, AllIdle
  <2> QED BY <2>2, <2>3, <2>4, <2>5 DEF ManagerInv
<1> QED BY <1>1, <1>2

\* So do the steps of a shutdown.
LEMMA ShutdownStep ==
  ASSUME ManagerInv, NEW t \in Threads, lirs_manager_shutdown(t)
  PROVE  ManagerInv'
<1>0. LirsInv /\ ThreadsTyped /\ Owned /\ ShutdownTyped
  BY DEF ManagerInv
<1>1. CASE ShutdownLock(t)
  <2>1. /\ Runs /\ pc[t] = "idle" /\ global_lock = NULL /\ bin_cache /\ global_lock' = t
        /\ pc' = [pc EXCEPT ![t] = "sd_destroy"]
        /\ UNCHANGED vars /\ UNCHANGED <<bin_cache, arena, held, op, key, stale, raced>>
    BY <1>1 DEF ShutdownLock, At, Goto, clients
  <2>2. LirsInv' /\ status' = status /\ blocks' = blocks
    BY <1>0, <2>1, VarsKept
  <2>3. ThreadsTyped'
    BY <1>0, <2>1 DEF ThreadsTyped, Steps
  <2>4. Owned'
    <3>1. Put' = Put /\ (OneEach => OneEach')
      BY <2>1 DEF Put, OneEach, PutThreads
    <3> QED BY <1>0, <2>1, <2>2, <3>1 DEF Owned, Runs
  <2>5. ShutdownTyped'
    <3>1. \A u \in Threads : pc[u] \notin {"sd_destroy", "sd_null"}
      BY <1>0, <2>1, LirsManagerAssumption DEF ShutdownTyped
    <3>2. ~(status = "none" /\ ~raced)
      BY <1>0, <2>1, <3>1 DEF ShutdownTyped
    <3>3. \A u \in Threads : pc'[u] = IF u = t THEN "sd_destroy" ELSE pc[u]
      BY <1>0, <2>1 DEF ThreadsTyped
    <3> QED BY <1>0, <2>1, <2>2, <3>1, <3>2, <3>3 DEF ShutdownTyped
  <2> QED BY <2>2, <2>3, <2>4, <2>5 DEF ManagerInv
<1>2. CASE ShutdownDestroy(t)
  <2>1. /\ pc[t] = "sd_destroy" /\ status = "live" /\ lirs_destroy
        /\ arena' = arena \union (DOMAIN blocks \ DOMAIN blocks')
        /\ raced' = (\E u \in Threads \ {t} : pc[u] # "idle")
        /\ pc' = [pc EXCEPT ![t] = "sd_null"]
        /\ UNCHANGED <<bin_cache, global_lock, held, op, key, stale>>
    BY <1>2 DEF ShutdownDestroy, At, Goto, manager, lirs_evict_callback, CalledBack
  <2>2. LirsInv' /\ DOMAIN blocks' = {} /\ status' = "none"
    BY <2>1, Ends DEF lirs_destroy
  <2>3. ThreadsTyped'
    BY <1>0, <2>1 DEF ThreadsTyped, Steps
  <2>4. Owned'
    <3>1. Put' = Put /\ (OneEach => OneEach')
      BY <2>1 DEF Put, OneEach, PutThreads
    <3> QED BY <1>0, <2>1, <2>2, <3>1 DEF Owned, Runs
  <2>5. ShutdownTyped'
    <3>1. \A u \in Threads : pc'[u] = IF u = t THEN "sd_null" ELSE pc[u]
      BY <1>0, <2>1 DEF ThreadsTyped
    <3> QED BY <1>0, <2>1, <2>2, <3>1 DEF ShutdownTyped
  <2> QED BY <2>2, <2>3, <2>4, <2>5 DEF ManagerInv
<1>3. CASE ShutdownNull(t)
  <2>1. /\ Runs /\ pc[t] = "sd_null" /\ bin_cache' = FALSE /\ global_lock' = NULL
        /\ pc' = [pc EXCEPT ![t] = "idle"]
        /\ op' = [op EXCEPT ![t] = NULL] /\ key' = [key EXCEPT ![t] = NULL]
        /\ UNCHANGED vars /\ UNCHANGED <<arena, held, stale, raced>>
    BY <1>3 DEF ShutdownNull, At, Goto, Return, clients
  <2>2. LirsInv' /\ status' = status /\ blocks' = blocks
    BY <1>0, <2>1, VarsKept
  <2>3. ThreadsTyped'
    BY <1>0, <2>1, LirsManagerAssumption DEF ThreadsTyped, Steps, Calls
  <2>4. Owned'
    <3>1. op[t] = NULL
      BY <1>0, <2>1 DEF ThreadsTyped
    <3>2. GivenBack(t) = {}
      BY <3>1, LirsManagerAssumption DEF GivenBack, Calls
    <3>3. OneEach
      BY <1>0, <2>1 DEF Owned
    <3>4. Put' = Put /\ OneEach'
      BY <1>0, <2>1, <3>2, <3>3, PutReturns
    <3> QED BY <1>0, <2>1, <2>2, <3>4 DEF Owned, Runs
  <2>5. ShutdownTyped'
    <3>1. \A u \in Threads : pc'[u] = IF u = t THEN "idle" ELSE pc[u]
      BY <1>0, <2>1 DEF ThreadsTyped
    <3>2. \A u \in Threads \ {t} : pc[u] \notin {"sd_destroy", "sd_null"}
      BY <1>0, <2>1 DEF ShutdownTyped
    <3>3. status = "none"
      BY <1>0, <2>1 DEF ShutdownTyped, Runs
    <3> QED BY <1>0, <2>1, <2>2, <3>1, <3>2, <3>3 DEF ShutdownTyped
  <2> QED BY <2>2, <2>3, <2>4, <2>5 DEF ManagerInv
<1> QED BY <1>1, <1>2, <1>3 DEF lirs_manager_shutdown

\* So does lirs_manager_configure.
LEMMA ConfigureStep ==
  ASSUME ManagerInv, lirs_manager_configure
  PROVE  ManagerInv'
<1>0. LirsInv /\ ThreadsTyped /\ Owned /\ ShutdownTyped
  BY DEF ManagerInv
<1>1. /\ global_lock = NULL /\ status = "live" /\ Resize(capacity)
      /\ arena' = arena \union (DOMAIN blocks \ DOMAIN blocks')
      /\ UNCHANGED <<bin_cache, global_lock, held, pc, op, key, stale, raced>>
  BY DEF lirs_manager_configure, manager, threads, lirs_evict_callback, CalledBack
<1>2. LirsInv' /\ DOMAIN blocks' \subseteq DOMAIN blocks /\ status' \in {"live", "stuck"}
  <2>1. capacity \in Capacities
    BY <1>0, <1>1 DEF LirsInv
  <2> QED BY <1>0, <1>1, <2>1, ResizeKeeps
<1>3. ThreadsTyped'
  BY <1>0, <1>1 DEF ThreadsTyped
<1>4. Owned'
  <2>1. Put' = Put /\ (OneEach => OneEach')
    BY <1>1, PutSame DEF threads
  <2> QED BY <1>0, <1>1, <1>2, <2>1 DEF Owned, Runs
<1>5. ShutdownTyped'
  BY <1>0, <1>1, <1>2 DEF ShutdownTyped
<1> QED BY <1>2, <1>3, <1>4, <1>5 DEF ManagerInv

\* So does an allocation from the arena.
LEMMA MallocStep ==
  ASSUME ManagerInv, arena_malloc
  PROVE  ManagerInv'
<1>0. LirsInv /\ ThreadsTyped /\ Owned /\ ShutdownTyped
  BY DEF ManagerInv
<1>1. PICK k \in arena : Runs /\ arena' = arena \ {k} /\ held' = held \union {k}
                         /\ UNCHANGED <<vars, manager, threads, stale, raced>>
  BY DEF arena_malloc
<1>2. UNCHANGED vars /\ UNCHANGED <<bin_cache, global_lock, pc, op, key, stale, raced>>
  BY <1>1 DEF manager, threads
<1>3. LirsInv' /\ status' = status /\ blocks' = blocks
  BY <1>0, <1>2, VarsKept
<1>4. ThreadsTyped'
  BY <1>0, <1>2 DEF ThreadsTyped
<1>5. Owned'
  <2>1. Put' = Put /\ (OneEach => OneEach')
    BY <1>2, PutSame DEF threads
  <2> QED BY <1>0, <1>1, <1>3, <2>1 DEF Owned, Runs
<1>6. ShutdownTyped'
  BY <1>0, <1>2, <1>3 DEF ShutdownTyped
<1> QED BY <1>3, <1>4, <1>5, <1>6 DEF ManagerInv

\* A call starts: the thread was idle, and what it puts was its own.
LEMMA BeginStep ==
  ASSUME ManagerInv, NEW t \in Threads, BeginPut(t) \/ BeginGet(t) \/ BeginRemove(t)
  PROVE  ManagerInv'
<1>0. LirsInv /\ ThreadsTyped /\ Owned /\ ShutdownTyped
  BY DEF ManagerInv
<1>1. PICK name \in Calls, k \in Keys \union {NULL} :
        /\ Begin(t, name, k) /\ (name # "get" => k \in Keys)
        /\ name = "put" => k \in held /\ held' = held \ {k}
        /\ name # "put" => UNCHANGED held
  <2>a. Runs
    BY DEF BeginPut, BeginGet, BeginRemove, Begin, At
  <2>b. held \subseteq Keys
    BY <1>0, <2>a DEF Owned
  <2>1. CASE BeginPut(t)
    BY <2>1, <2>b, Zenon DEF BeginPut, Calls
  <2>2. CASE BeginGet(t)
    BY <2>2 DEF BeginGet, Calls
  <2>3. CASE BeginRemove(t)
    BY <2>3 DEF BeginRemove, Calls
  <2> QED BY <2>1, <2>2, <2>3
<1>2. /\ Runs /\ pc[t] = "idle" /\ bin_cache
      /\ op' = [op EXCEPT ![t] = name] /\ key' = [key EXCEPT ![t] = k] /\ pc' = [pc EXCEPT ![t] = "lock"]
      /\ raced' = (raced \/ \E u \in Threads : pc[u] = "sd_null")
      /\ UNCHANGED vars /\ UNCHANGED <<bin_cache, global_lock, arena, stale>>
  BY <1>1 DEF Begin, At, Goto, manager
<1>3. LirsInv' /\ status' = status /\ blocks' = blocks
  BY <1>0, <1>2, VarsKept
<1>4. ThreadsTyped'
  BY <1>0, <1>1, <1>2 DEF ThreadsTyped, Steps
<1>5. Owned'
  <2>1. /\ name = "put" => Put' = Put \union {k} /\ (OneEach /\ k \notin Put => OneEach')
        /\ name # "put" => Put' = Put /\ (OneEach => OneEach')
    BY <1>0, <1>2, PutBegins
  <2>2. CASE name = "put"
    <3>1. k \in held /\ held' = held \ {k} /\ k \notin Put
      BY <1>0, <1>1, <1>2, <2>2 DEF Owned
    <3> QED BY <1>0, <1>2, <1>3, <2>1, <2>2, <3>1 DEF Owned, Runs
  <2>3. CASE name # "put"
    BY <1>0, <1>1, <1>2, <1>3, <2>1, <2>3 DEF Owned, Runs
  <2> QED BY <2>2, <2>3
<1>6. ShutdownTyped'
  <2>1. \A u \in Threads : pc'[u] = IF u = t THEN "lock" ELSE pc[u]
    BY <1>0, <1>2 DEF ThreadsTyped
  <2>2. status = "none" => raced'
    BY <1>0, <1>2 DEF ShutdownTyped
  <2>3. ~stale'
    BY <1>0, <1>2 DEF ShutdownTyped, Runs
  <2>4. \A u \in Threads : pc'[u] \in {"sd_destroy", "sd_null"} => global_lock' = u
    BY <1>0, <1>2, <2>1 DEF ShutdownTyped
  <2>5. status' = "live" => \A u \in Threads : pc'[u] # "sd_null"
    BY <1>0, <1>3, <2>1 DEF ShutdownTyped
  <2>6. ~(status' = "none" /\ ~raced')
    BY <1>3, <2>2
  <2> QED BY <2>3, <2>4, <2>5, <2>6 DEF ShutdownTyped
<1> QED BY <1>3, <1>4, <1>5, <1>6 DEF ManagerInv

\* A thread goes back to its client, or into the bin, without touching the cache.
LEMMA LockBinStep ==
  ASSUME ManagerInv, NEW t \in Threads, LockBin(t)
  PROVE  ManagerInv'
<1>0. LirsInv /\ ThreadsTyped /\ Owned /\ ShutdownTyped
  BY DEF ManagerInv
<1>1. /\ Runs /\ pc[t] = "lock" /\ UNCHANGED vars
      /\ UNCHANGED <<bin_cache, global_lock, arena, stale, raced>>
  BY DEF LockBin, At
<1>2. LirsInv' /\ status' = status /\ blocks' = blocks
  BY <1>0, <1>1, VarsKept
<1>3. CASE bin_cache
  <2>1. pc' = [pc EXCEPT ![t] = "use"] /\ UNCHANGED <<held, op, key>>
    BY <1>3 DEF LockBin, Goto
  <2>2. ThreadsTyped'
    BY <1>0, <1>1, <2>1 DEF ThreadsTyped, Steps
  <2>3. Owned'
    <3>1. Put' = Put /\ (OneEach => OneEach')
      BY <2>1 DEF Put, OneEach, PutThreads
    <3> QED BY <1>0, <1>1, <1>2, <2>1, <3>1 DEF Owned, Runs
  <2>4. ShutdownTyped'
    <3>1. \A u \in Threads : pc'[u] = IF u = t THEN "use" ELSE pc[u]
      BY <1>0, <2>1 DEF ThreadsTyped
    <3> QED BY <1>0, <1>1, <1>2, <3>1 DEF ShutdownTyped
  <2> QED BY <1>2, <2>2, <2>3, <2>4 DEF ManagerInv
<1>4. CASE ~bin_cache
  <2>1. /\ held' = held \union GivenBack(t) /\ pc' = [pc EXCEPT ![t] = "idle"]
        /\ op' = [op EXCEPT ![t] = NULL] /\ key' = [key EXCEPT ![t] = NULL]
    BY <1>4 DEF LockBin, Return, Goto
  <2>2. ThreadsTyped'
    BY <1>0, <1>1, <2>1, LirsManagerAssumption DEF ThreadsTyped, Steps, Calls
  <2>3. Owned'
    <3>1. OneEach
      BY <1>0, <1>1 DEF Owned
    <3>2. Put' = Put \ GivenBack(t) /\ OneEach'
      BY <1>0, <2>1, <3>1, PutReturns
    <3>3. GivenBack(t) \subseteq Put
      BY PutIs DEF GivenBack, PutThreads
    <3> QED BY <1>0, <1>1, <1>2, <2>1, <3>2, <3>3 DEF Owned, Runs
  <2>4. ShutdownTyped'
    <3>1. \A u \in Threads : pc'[u] = IF u = t THEN "idle" ELSE pc[u]
      BY <1>0, <2>1 DEF ThreadsTyped
    <3> QED BY <1>0, <1>1, <1>2, <3>1 DEF ShutdownTyped
  <2> QED BY <1>2, <2>2, <2>3, <2>4 DEF ManagerInv
<1> QED BY <1>3, <1>4

\* A call uses the cache and returns: its block stays in one place.
LEMMA UseStep ==
  ASSUME ManagerInv, NEW t \in Threads,
         lirs_manager_put(t) \/ lirs_manager_get(t) \/ lirs_manager_remove(t)
  PROVE  ManagerInv'
<1>0. LirsInv /\ ThreadsTyped /\ Owned /\ ShutdownTyped
  BY DEF ManagerInv
<1>1. /\ Runs /\ pc[t] = "use" /\ status = "live"
      /\ pc' = [pc EXCEPT ![t] = "idle"]
      /\ op' = [op EXCEPT ![t] = NULL] /\ key' = [key EXCEPT ![t] = NULL]
      /\ UNCHANGED <<bin_cache, global_lock, stale, raced>>
  BY DEF lirs_manager_put, lirs_manager_get, lirs_manager_remove, Use, At, Unlock, Return, Goto
<1>2. ThreadsTyped'
  BY <1>0, <1>1, LirsManagerAssumption DEF ThreadsTyped, Steps, Calls
<1>3. Put' = Put \ GivenBack(t) /\ OneEach' /\ GivenBack(t) \subseteq Put
  <2>1. OneEach
    BY <1>0, <1>1 DEF Owned
  <2>2. GivenBack(t) \subseteq Put
    BY PutIs DEF GivenBack, PutThreads
  <2> QED BY <1>0, <1>1, <2>1, <2>2, PutReturns
<1>4. status' = "live" => ShutdownTyped'
  <2>1. \A u \in Threads : pc'[u] = IF u = t THEN "idle" ELSE pc[u]
    BY <1>0, <1>1 DEF ThreadsTyped
  <2> QED BY <1>0, <1>1, <2>1 DEF ShutdownTyped
<1>5. CASE lirs_manager_put(t)
  <2>1. op[t] = "put" /\ key[t] \in Keys /\ GivenBack(t) = {key[t]}
    BY <1>0, <1>5 DEF lirs_manager_put, Use, ThreadsTyped, GivenBack
  <2>2. PICK k \in Keys : k = key[t]
    BY <2>1
  <2>3. /\ arena' = arena \union (DOMAIN blocks \ DOMAIN blocks')
        /\ \E v \in Values : \/ PutNew(k, v) /\ UNCHANGED held
                             \/ PutRefused(k, v) /\ held' = held \union {k}
    BY <1>5, <2>1, <2>2 DEF lirs_manager_put, lirs_evict_callback, CalledBack
  <2>4. PICK v \in Values : \/ PutNew(k, v) /\ UNCHANGED held
                            \/ PutRefused(k, v) /\ held' = held \union {k}
    BY <2>3
  <2>5. CASE PutNew(k, v) /\ UNCHANGED held
    <3>1. LirsInv' /\ DOMAIN blocks' \subseteq DOMAIN blocks \union {k} /\ k \in DOMAIN blocks'
          /\ status' = "live"
      BY <1>0, <2>5, PutNewKeeps
    <3>2. Owned'
      BY <1>0, <1>1, <1>3, <2>1, <2>2, <2>3, <2>5, <3>1 DEF Owned, Runs
    <3> QED BY <1>2, <1>4, <3>1, <3>2 DEF ManagerInv
  <2>6. CASE PutRefused(k, v) /\ held' = held \union {k}
    <3>1. LirsInv' /\ DOMAIN blocks' \subseteq DOMAIN blocks /\ status' = "live"
      BY <1>0, <2>6, PutRefusedKeeps
    <3>2. Owned'
      BY <1>0, <1>1, <1>3, <2>1, <2>2, <2>3, <2>6, <3>1 DEF Owned, Runs
    <3> QED BY <1>2, <1>4, <3>1, <3>2 DEF ManagerInv
  <2> QED BY <2>4, <2>5, <2>6
<1>6. CASE lirs_manager_get(t)
  <2>1. UNCHANGED vars /\ UNCHANGED <<arena, held>> /\ op[t] = "get"
    BY <1>6 DEF lirs_manager_get, Use, clients
  <2>2. LirsInv' /\ status' = status /\ blocks' = blocks
    BY <1>0, <2>1, VarsKept
  <2>3. GivenBack(t) = {}
    BY <2>1 DEF GivenBack
  <2>4. Owned'
    BY <1>0, <1>1, <1>3, <2>1, <2>2, <2>3 DEF Owned, Runs
  <2> QED BY <1>1, <1>2, <1>4, <2>2, <2>4 DEF ManagerInv
<1>7. CASE lirs_manager_remove(t)
  <2>1. /\ op[t] = "remove" /\ key[t] \in Keys /\ GivenBack(t) = {} /\ UNCHANGED held
        /\ arena' = arena \union (DOMAIN blocks \ DOMAIN blocks')
        /\ IF Known(key[t]) THEN lirs_remove(key[t]) ELSE UNCHANGED vars
    BY <1>0, <1>7 DEF lirs_manager_remove, Use, ThreadsTyped, GivenBack, lirs_evict_callback, CalledBack
  <2>2. LirsInv' /\ DOMAIN blocks' \subseteq DOMAIN blocks /\ status' = "live"
    <3>1. CASE Known(key[t])
      BY <1>0, <2>1, <3>1, RemoveKeeps
    <3>2. CASE ~Known(key[t])
      BY <1>0, <1>1, <2>1, <3>2, VarsKept
    <3> QED BY <3>1, <3>2
  <2>3. Owned'
    BY <1>0, <1>1, <1>3, <2>1, <2>2 DEF Owned, Runs
  <2> QED BY <1>2, <1>4, <2>2, <2>3 DEF ManagerInv
<1> QED BY <1>5, <1>6, <1>7

\* After a fault nothing is said, but that no shutdown between calls led to it.
LEMMA FaultStep ==
  ASSUME ManagerInv, NEW t \in Threads, UsesFreed(t) \/ ReadsAstray(t)
  PROVE  ManagerInv'
<1>0. LirsInv /\ ThreadsTyped /\ Owned /\ ShutdownTyped
  BY DEF ManagerInv
<1>1. End("fault") /\ UNCHANGED <<bin_cache, global_lock, arena, held, pc, op, key, raced>>
  BY DEF UsesFreed, ReadsAstray, AbsentFault, ClearFault, manager, clients, threads
<1>2. LirsInv' /\ status' = "fault"
  <2>1. "fault" \in {"none", "fault", "stuck"} /\ status' = "fault" /\ capacity' = 0
        /\ miscounted' = FALSE /\ Becomes(Empty)
    BY <1>1 DEF End
  <2> QED BY <2>1, Ends
<1>3. ThreadsTyped'
  BY <1>0, <1>1 DEF ThreadsTyped
<1>4. Owned'
  BY <1>2 DEF Owned, Runs
<1>5. stale' => raced
  <2>1. CASE UsesFreed(t)
    <3>1. status = "none" /\ pc[t] \in {"use", "sd_destroy"}
      BY <2>1 DEF UsesFreed, At
    <3> QED BY <1>0, <3>1 DEF ShutdownTyped
  <2>2. CASE ReadsAstray(t)
    BY <1>0, <2>2 DEF ReadsAstray, ShutdownTyped
  <2> QED BY <2>1, <2>2
<1>6. ShutdownTyped'
  BY <1>0, <1>1, <1>2, <1>5 DEF ShutdownTyped
<1> QED BY <1>2, <1>3, <1>4, <1>6 DEF ManagerInv

\* Every step keeps the invariant.
LEMMA ManagerStep == ManagerInv /\ [ManagerNext]_allVars => ManagerInv'
<1> SUFFICES ASSUME ManagerInv, [ManagerNext]_allVars PROVE ManagerInv'
  OBVIOUS
<1>1. CASE UNCHANGED allVars
  <2>1. UNCHANGED vars /\ UNCHANGED <<bin_cache, global_lock, arena, held, pc, op, key, stale, raced>>
    BY <1>1 DEF allVars, manager, clients, threads
  <2>2. LirsInv' /\ status' = status /\ blocks' = blocks
    BY <2>1, VarsKept DEF ManagerInv
  <2>3. Put' = Put /\ (OneEach => OneEach')
    BY <2>1, PutSame DEF threads
  <2>4. ThreadsTyped' /\ ShutdownTyped'
    BY <2>1, <2>2 DEF ManagerInv, ThreadsTyped, ShutdownTyped
  <2>5. Owned'
    BY <2>1, <2>2, <2>3 DEF ManagerInv, Owned, Runs
  <2> QED BY <2>2, <2>4, <2>5 DEF ManagerInv
<1>2. CASE ManagerNext
  BY <1>2, InitStep, ConfigureStep, MallocStep, ShutdownStep, BeginStep, LockBinStep, UseStep, FaultStep
  DEF ManagerNext
<1> QED BY <1>1, <1>2

\* The owners of the blocks, and the way of a shutdown, for any threads.
THEOREM ManagerKept == ManagerSpec => []ManagerInv
  BY ManagerInits, ManagerStep, PTL DEF ManagerSpec

\* Four sets that are apart and together are the keys count as many as they.
LEMMA OwnersCounted == ManagerInv => OneOwner
<1> SUFFICES ASSUME ManagerInv, Runs
             PROVE  /\ arena \union held \union Put \union DOMAIN blocks = Keys
                    /\ Cardinality(arena) + Cardinality(held) + Cardinality(Put)
                         + Cardinality(DOMAIN blocks) = Cardinality(Keys)
  BY DEF OneOwner
<1>1. /\ arena \union held \union Put \union DOMAIN blocks = Keys
      /\ arena \cap held = {} /\ arena \cap Put = {} /\ held \cap Put = {}
      /\ DOMAIN blocks \cap (arena \union held \union Put) = {}
  BY DEF ManagerInv, Owned
<1>2. PICK A : A = arena
  OBVIOUS
<1>3. PICK H : H = held
  OBVIOUS
<1>4. PICK P : P = Put
  OBVIOUS
<1>5. PICK B : B = DOMAIN blocks
  OBVIOUS
<1>6. /\ IsFiniteSet(A) /\ IsFiniteSet(H) /\ IsFiniteSet(P) /\ IsFiniteSet(B)
      /\ IsFiniteSet(A \union H) /\ IsFiniteSet((A \union H) \union P)
  BY <1>1, <1>2, <1>3, <1>4, <1>5, FS_Subset, FS_Union, LirsManagerAssumption
<1>7. Cardinality(A \union H) = Cardinality(A) + Cardinality(H)
  BY <1>1, <1>2, <1>3, <1>6, BothCounted
<1>8. Cardinality((A \union H) \union P) = Cardinality(A \union H) + Cardinality(P)
  <2>1. (A \union H) \cap P = {}
    BY <1>1, <1>2, <1>3, <1>4
  <2> QED BY <1>6, <2>1, BothCounted
<1>9. Cardinality(((A \union H) \union P) \union B) = Cardinality((A \union H) \union P) + Cardinality(B)
  <2>1. ((A \union H) \union P) \cap B = {}
    BY <1>1, <1>2, <1>3, <1>4, <1>5
  <2> QED BY <1>6, <2>1, BothCounted
<1>10. ((A \union H) \union P) \union B = Keys
  BY <1>1, <1>2, <1>3, <1>4, <1>5
<1> QED BY <1>1, <1>2, <1>3, <1>4, <1>5, <1>7, <1>8, <1>9, <1>10

\* What lirs_evict_callback, lirs_manager_put, lirs_manager_remove and
\* lirs_manager_shutdown hand over: each block has one owner at any time, so none
\* is freed twice and none is lost, however the calls interleave.
THEOREM ManagerOneOwner == ManagerSpec => []OneOwner
  BY ManagerKept, OwnersCounted, PTL

\* A shutdown that meets no call leaves no pointer by which a later call, or a
\* later shutdown, could reach the caches it freed.
THEOREM ManagerFreedUnused == ManagerSpec => []FreedUnused
<1>1. ManagerInv => FreedUnused
  BY DEF ManagerInv, ShutdownTyped, FreedUnused
<1> QED BY <1>1, ManagerKept, PTL

\* The cache of a bin stays sound under the threads that share it.
THEOREM ManagerLirsKept == ManagerSpec => []LirsInv
<1>1. ManagerInv => LirsInv
  BY DEF ManagerInv
<1> QED BY <1>1, ManagerKept, PTL

=============================================================================
