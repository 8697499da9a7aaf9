---------------------------- MODULE SumTheorems -----------------------------
(***************************************************************************)
(* Sums over finite sets, which the totals and counts of the components    *)
(* are compared with, and arithmetic modulo the width of a counter.  A sum *)
(* is a fold, defined by recursion over the subsets of its set: that it    *)
(* depends on the values alone and not on the order comes from a smallest  *)
(* set for which it would not.                                             *)
(***************************************************************************)
EXTENDS Integers, FiniteSets, Functions, FiniteSetTheorems, WellFoundedInduction, TLAPS

\* A set of numbers has a least one.
LEMMA LeastIsIn ==
  ASSUME NEW A \in SUBSET Nat, A # {}
  PROVE  \E x \in A : \A y \in A : x <= y
<1> DEFINE R == {ss \in Nat \X Nat : ss[1] < ss[2]}
<1>a. IsWellFoundedOn(R, Nat)
  BY NatLessThanWellFounded, Zenon DEF OpToRel
<1>b. \A x, y \in Nat : <<y, x>> \notin R => x <= y
  OBVIOUS
<1> HIDE DEF R
<1>1. PICK x \in A : \A y \in A : <<y, x>> \notin R
  BY <1>a, WFMin, Zenon
<1> QED BY <1>1, <1>b, Zenon

-----------------------------------------------------------------------------
(* Sums over a finite set of the values of a function.                     *)

\* The element the fold takes first.
Pick(s) == CHOOSE x \in s : TRUE

\* g adds up f over the subsets of A, one element after the other.
Adds(g, f, A) ==
  g = [s \in SUBSET A |-> IF s = {} THEN 0 ELSE f[Pick(s)] + g[s \ {Pick(s)}]]

\* The sum of the library is the value of such a function, if there is one.
LEMMA SumIs ==
  ASSUME NEW f, NEW A
  PROVE  SumFunctionOnSet(f, A) = (CHOOSE g : Adds(g, f, A))[A]
  BY DEF SumFunctionOnSet, FoldFunctionOnSet, MapThenFoldSet, Adds, Pick

\* What is taken is in the set.
LEMMA PickIsIn == \A s : s # {} => Pick(s) \in s
  BY DEF Pick

\* A set without one of its elements is smaller by one.
LEMMA OneLess ==
  ASSUME NEW s, IsFiniteSet(s), NEW x \in s
  PROVE  /\ IsFiniteSet(s \ {x}) /\ Cardinality(s) \in Nat \ {0}
         /\ Cardinality(s \ {x}) = Cardinality(s) - 1
  BY FS_RemoveElement, FS_CardinalityType, FS_EmptySet

\* Over a finite set there is one: it is built up by the size of the subsets.
LEMMA AddsExists ==
  ASSUME NEW f, NEW A, IsFiniteSet(A)
  PROVE  \E g : Adds(g, f, A)
<1> DEFINE Below(n) == {s \in SUBSET A : Cardinality(s) <= n}
           Step(g, s) == IF s = {} THEN 0 ELSE f[Pick(s)] + g[s \ {Pick(s)}]
           Good(n) == \E g : g = [s \in Below(n) |-> Step(g, s)]
<1>0. \A s \in SUBSET A : IsFiniteSet(s) /\ Cardinality(s) \in Nat
  BY FS_Subset, FS_CardinalityType
<1>1. Good(0)
  <2>1. \A s \in Below(0) : s = {}
    BY <1>0, FS_EmptySet
  <2> DEFINE g == [s \in Below(0) |-> 0]
  <2>2. g = [s \in Below(0) |-> Step(g, s)]
    BY <2>1
  <2> QED BY <2>2
<1>2. ASSUME NEW n \in Nat, Good(n)
      PROVE  Good(n + 1)
  <2>1. PICK g : g = [s \in Below(n) |-> Step(g, s)]
    BY <1>2
  <2> DEFINE h == [s \in Below(n + 1) |-> Step(g, s)]
  <2>2. \A s \in Below(n) : s \in Below(n + 1)
    BY <1>0
  <2>3. \A s \in Below(n) : h[s] = g[s]
    <3> HIDE DEF Below, Step
    <3>1. \A s \in Below(n) : g[s] = Step(g, s)
      BY <2>1, Zenon
    <3> QED BY <2>2, <3>1
  <2>4. ASSUME NEW s \in Below(n + 1)
        PROVE  h[s] = Step(h, s)
    <3>1. CASE s = {}
      BY <3>1
    <3>2. CASE s # {}
      <4>1. Pick(s) \in s
        BY <3>2, PickIsIn
      <4>2. s \ {Pick(s)} \in Below(n)
        BY <4>1, <1>0, OneLess
      <4>3. h[s] = Step(g, s)
        OBVIOUS
      <4> QED BY <4>2, <4>3, <2>3, <3>2
    <3> QED BY <3>1, <3>2
  <2>5. h = [s \in Below(n + 1) |-> Step(h, s)]
    <3> HIDE DEF Step, Below
    <3> QED BY <2>4
  <2> QED BY <2>5
<1> HIDE DEF Good
<1>3. \A n \in Nat : Good(n)
  <2> DEFINE Bad == {n \in Nat : ~Good(n)}
  <2> SUFFICES ASSUME Bad # {} PROVE FALSE
    OBVIOUS
  <2>1. PICK m \in Bad : \A y \in Bad : m <= y
    BY LeastIsIn
  <2>2. m # 0
    BY <1>1
  <2>3. m - 1 \in Nat /\ m - 1 \notin Bad
    BY <2>1, <2>2
  <2>4. Good((m - 1) + 1)
    BY <1>2, <2>3
  <2>5. (m - 1) + 1 = m
    BY <2>1
  <2> QED BY <2>1, <2>4, <2>5
<1>4. PICK g : g = [s \in Below(Cardinality(A)) |-> Step(g, s)]
  BY <1>3, <1>0 DEF Good
<1>5. Below(Cardinality(A)) = SUBSET A
  BY <1>0, FS_Subset
<1> QED BY <1>4, <1>5 DEF Adds

\* What it is for a subset.
LEMMA AddsAt ==
  ASSUME NEW g, NEW f, NEW A, Adds(g, f, A), NEW s \in SUBSET A
  PROVE  g[s] = IF s = {} THEN 0 ELSE f[Pick(s)] + g[s \ {Pick(s)}]
  BY DEF Adds

\* The sum depends on the values alone.
LEMMA AddsAgree ==
  ASSUME NEW A, IsFiniteSet(A), NEW B, NEW f, NEW h,
         NEW F, Adds(F, f, A), NEW H, Adds(H, h, B),
         NEW s \in SUBSET (A \cap B), \A x \in s : f[x] = h[x]
  PROVE  F[s] = H[s]
<1> DEFINE Bad == {t \in SUBSET s : F[t] # H[t]}
           Sizes == {Cardinality(t) : t \in Bad}
<1>0. \A t \in SUBSET s : IsFiniteSet(t) /\ Cardinality(t) \in Nat
  BY FS_Subset, FS_CardinalityType
<1> SUFFICES ASSUME Bad # {} PROVE FALSE
  OBVIOUS
<1>1. Sizes \in SUBSET Nat /\ Sizes # {}
  BY <1>0
<1>2. PICK n \in Sizes : \A y \in Sizes : n <= y
  BY <1>1, LeastIsIn
<1>3. PICK t \in Bad : Cardinality(t) = n
  BY <1>2
<1>4. t \in SUBSET A /\ t \in SUBSET B
  OBVIOUS
<1>5. /\ F[t] = IF t = {} THEN 0 ELSE f[Pick(t)] + F[t \ {Pick(t)}]
      /\ H[t] = IF t = {} THEN 0 ELSE h[Pick(t)] + H[t \ {Pick(t)}]
  BY <1>4, AddsAt
<1>6. t # {}
  BY <1>5
<1>7. PICK p : p = Pick(t)
  OBVIOUS
<1>8. p \in t
  BY <1>6, <1>7, PickIsIn
<1>9. Cardinality(t \ {p}) = n - 1 /\ n - 1 \in Nat
  BY <1>0, <1>3, <1>8, OneLess
<1>10. F[t \ {p}] = H[t \ {p}]
  <2>1. Cardinality(t \ {p}) \notin Sizes
    BY <1>1, <1>2, <1>9
  <2>2. t \ {p} \notin Bad
    BY <2>1, Zenon
  <2>3. t \ {p} \in SUBSET s
    OBVIOUS
  <2> QED BY <2>2, <2>3
<1> QED BY <1>5, <1>6, <1>7, <1>8, <1>10

\* It gives the sums over all subsets.
LEMMA SumAt ==
  ASSUME NEW A, IsFiniteSet(A), NEW f, NEW F, Adds(F, f, A), NEW s \in SUBSET A
  PROVE  SumFunctionOnSet(f, s) = F[s]
<1>1. IsFiniteSet(s)
  BY FS_Subset
<1>2. PICK G : G = CHOOSE g : Adds(g, f, s)
  OBVIOUS
<1>3. Adds(G, f, s)
  BY <1>1, <1>2, AddsExists, Zenon
<1>4. G[s] = F[s]
  BY <1>1, <1>3, AddsAgree
<1> QED BY <1>2, <1>4, SumIs

\* Functions with the same values on a set have the same sum over it.
LEMMA SumAgrees ==
  ASSUME NEW A, IsFiniteSet(A), NEW f, NEW h, \A x \in A : f[x] = h[x]
  PROVE  SumFunctionOnSet(f, A) = SumFunctionOnSet(h, A)
<1>1. PICK F : Adds(F, f, A)
  BY AddsExists
<1>2. PICK H : Adds(H, h, A)
  BY AddsExists
<1>3. A \in SUBSET (A \cap A)
  OBVIOUS
<1>4. \A s \in SUBSET (A \cap A) : (\A x \in s : f[x] = h[x]) => F[s] = H[s]
  BY <1>1, <1>2, AddsAgree
<1>5. F[A] = H[A]
  BY <1>3, <1>4
<1> QED BY <1>1, <1>2, <1>5, SumAt

\* Nothing adds up to 0.
LEMMA SumEmpty ==
  ASSUME NEW f
  PROVE  SumFunctionOnSet(f, {}) = 0
<1>1. IsFiniteSet({})
  BY FS_EmptySet
<1>2. PICK F : Adds(F, f, {})
  BY <1>1, AddsExists
<1> QED BY <1>1, <1>2, SumAt, AddsAt

\* Sums of naturals are naturals, whatever element is added first.
LEMMA SumTyped ==
  ASSUME NEW A, IsFiniteSet(A), NEW f, \A x \in A : f[x] \in Nat
  PROVE  /\ SumFunctionOnSet(f, A) \in Nat
         /\ \A x \in A : SumFunctionOnSet(f, A) = f[x] + SumFunctionOnSet(f, A \ {x})
<1>1. PICK F : Adds(F, f, A)
  BY AddsExists
<1> DEFINE Right(s) == /\ F[s] \in Nat
                       /\ \A x \in s : F[s] = f[x] + F[s \ {x}]
           Bad == {s \in SUBSET A : ~Right(s)}
           Sizes == {Cardinality(t) : t \in Bad}
<1>0. \A t \in SUBSET A : IsFiniteSet(t) /\ Cardinality(t) \in Nat
  BY FS_Subset, FS_CardinalityType
<1>2. Bad = {}
  <2> SUFFICES ASSUME Bad # {} PROVE FALSE
    OBVIOUS
  <2>1. Sizes \in SUBSET Nat /\ Sizes # {}
    BY <1>0
  <2>2. PICK n \in Sizes : \A y \in Sizes : n <= y
    BY <2>1, LeastIsIn
  <2>3. PICK t \in Bad : Cardinality(t) = n
    BY <2>2
  <2>4. t \in SUBSET A
    OBVIOUS
  <2>5. F[t] = IF t = {} THEN 0 ELSE f[Pick(t)] + F[t \ {Pick(t)}]
    BY <1>1, <2>4, AddsAt
  <2>6. t # {}
    BY <2>5
  <2>7. PICK p : p = Pick(t)
    OBVIOUS
  <2>8. p \in t /\ F[t] = f[p] + F[t \ {p}]
    BY <2>5, <2>6, <2>7, PickIsIn
  <2>9. \A x \in t : Right(t \ {x})
    <3> SUFFICES ASSUME NEW x \in t PROVE Right(t \ {x})
      OBVIOUS
    <3>1. Cardinality(t \ {x}) = n - 1 /\ n - 1 \in Nat
      BY <1>0, <2>3, OneLess
    <3>2. t \ {x} \notin Bad
      <4>1. Cardinality(t \ {x}) \notin Sizes
        BY <2>1, <2>2, <3>1
      <4> QED BY <4>1, Zenon
    <3> QED BY <3>2
  <2>10. F[t] \in Nat
    BY <2>8, <2>9
  <2>11. ASSUME NEW x \in t
         PROVE  F[t] = f[x] + F[t \ {x}]
    <3>1. CASE x = p
      BY <2>8, <3>1
    <3>2. CASE x # p
      <4>1. F[t \ {p}] = f[x] + F[(t \ {p}) \ {x}]
        BY <2>8, <2>9, <3>2
      <4>2. F[t \ {x}] = f[p] + F[(t \ {x}) \ {p}]
        BY <2>8, <2>9, <3>2
      <4>3. (t \ {p}) \ {x} = (t \ {x}) \ {p}
        OBVIOUS
      <4>4. PICK u : u = (t \ {x}) \ {p}
        OBVIOUS
      <4>5. F[u] \in Nat
        <5>1. u \in SUBSET A
          BY <4>4
        <5>2. u \notin Bad
          <6>1. Cardinality(t \ {x}) = n - 1 /\ IsFiniteSet(t \ {x})
            BY <1>0, <2>3, OneLess
          <6>2. p \in t \ {x}
            BY <2>8, <3>2
          <6>3. Cardinality(u) = n - 1 - 1 /\ n \in Nat
            BY <6>1, <6>2, <4>4, OneLess, <2>1
          <6>4. Cardinality(u) \notin Sizes
            BY <2>1, <2>2, <6>3
          <6> QED BY <6>4, Zenon
        <5> QED BY <5>1, <5>2
      <4>6. f[x] \in Nat /\ f[p] \in Nat
        BY <2>8
      <4>7. F[t] = f[p] + (f[x] + F[u]) /\ F[t \ {x}] = f[p] + F[u]
        BY <2>8, <4>1, <4>2, <4>3, <4>4, Zenon
      <4> HIDE DEF Right
      <4> QED BY <4>5, <4>6, <4>7
    <3> QED BY <3>1, <3>2
  <2> QED BY <2>10, <2>11
<1>3. \A s \in SUBSET A : SumFunctionOnSet(f, s) = F[s]
  BY <1>1, SumAt
<1>4. Right(A)
  BY <1>2
<1> QED BY <1>3, <1>4

\* Zeros add up to 0.
LEMMA SumZero ==
  ASSUME NEW A, IsFiniteSet(A), NEW f, \A x \in A : f[x] = 0
  PROVE  SumFunctionOnSet(f, A) = 0
<1>1. PICK F : Adds(F, f, A)
  BY AddsExists
<1> DEFINE Bad == {s \in SUBSET A : F[s] # 0}
           Sizes == {Cardinality(t) : t \in Bad}
<1>0. \A t \in SUBSET A : IsFiniteSet(t) /\ Cardinality(t) \in Nat
  BY FS_Subset, FS_CardinalityType
<1>2. Bad = {}
  <2> SUFFICES ASSUME Bad # {} PROVE FALSE
    OBVIOUS
  <2>1. Sizes \in SUBSET Nat /\ Sizes # {}
    BY <1>0
  <2>2. PICK n \in Sizes : \A y \in Sizes : n <= y
    BY <2>1, LeastIsIn
  <2>3. PICK t \in Bad : Cardinality(t) = n
    BY <2>2
  <2>4. F[t] = IF t = {} THEN 0 ELSE f[Pick(t)] + F[t \ {Pick(t)}]
    <3>1. t \in SUBSET A
      OBVIOUS
    <3> QED BY <1>1, <3>1, AddsAt
  <2>5. PICK p : p = Pick(t)
    OBVIOUS
  <2>6. p \in t /\ F[t] = f[p] + F[t \ {p}]
    BY <2>4, <2>5, PickIsIn
  <2>7. Cardinality(t \ {p}) = n - 1 /\ n \in Nat
    BY <1>0, <2>3, <2>6, OneLess
  <2>8. Cardinality(t \ {p}) \notin Sizes
    BY <2>1, <2>2, <2>7
  <2>9. F[t \ {p}] = 0
    BY <2>8
  <2>10. f[p] = 0
    BY <2>6
  <2> QED BY <2>6, <2>9, <2>10
<1>3. SumFunctionOnSet(f, A) = F[A]
  BY <1>1, SumAt
<1> QED BY <1>2, <1>3

\* One element more.
LEMMA SumWith ==
  ASSUME NEW A, IsFiniteSet(A), NEW x, x \notin A, NEW f,
         f[x] \in Nat, \A y \in A : f[y] \in Nat
  PROVE  SumFunctionOnSet(f, A \union {x}) = f[x] + SumFunctionOnSet(f, A)
<1>1. PICK B : B = A \union {x}
  OBVIOUS
<1>2. IsFiniteSet(B) /\ x \in B /\ B \ {x} = A
  BY <1>1, FS_AddElement
<1>3. \A y \in B : f[y] \in Nat
  BY <1>1
<1>4. SumFunctionOnSet(f, B) = f[x] + SumFunctionOnSet(f, B \ {x})
  BY <1>2, <1>3, SumTyped
<1> QED BY <1>1, <1>2, <1>4, Zenon

\* Another value for one element.
LEMMA SumChanged ==
  ASSUME NEW A, IsFiniteSet(A), NEW x \in A, NEW f, NEW h,
         \A y \in A : f[y] \in Nat, \A y \in A : h[y] \in Nat,
         \A y \in A : y # x => f[y] = h[y]
  PROVE  SumFunctionOnSet(h, A) + f[x] = SumFunctionOnSet(f, A) + h[x]
<1>1. PICK B : B = A \ {x}
  OBVIOUS
<1>2. IsFiniteSet(B) /\ \A y \in B : y \in A /\ y # x
  BY <1>1, FS_Subset
<1>3. SumFunctionOnSet(f, B) = SumFunctionOnSet(h, B)
  BY <1>2, SumAgrees
<1>4. SumFunctionOnSet(f, B) \in Nat
  BY <1>2, SumTyped
<1>5. SumFunctionOnSet(f, A) = f[x] + SumFunctionOnSet(f, B)
  BY <1>1, SumTyped
<1>6. SumFunctionOnSet(h, A) = h[x] + SumFunctionOnSet(h, B)
  BY <1>1, SumTyped
<1>7. f[x] \in Nat /\ h[x] \in Nat
  OBVIOUS
<1> QED BY <1>3, <1>4, <1>5, <1>6, <1>7

\* A set in two parts.
LEMMA SumParts ==
  ASSUME NEW A, IsFiniteSet(A), NEW B \in SUBSET A, NEW f, \A x \in A : f[x] \in Nat
  PROVE  SumFunctionOnSet(f, A) = SumFunctionOnSet(f, B) + SumFunctionOnSet(f, A \ B)
<1> DEFINE Bad == {t \in SUBSET A : SumFunctionOnSet(f, A) # SumFunctionOnSet(f, t) + SumFunctionOnSet(f, A \ t)}
           Sizes == {Cardinality(t) : t \in Bad}
<1>0. \A t \in SUBSET A : IsFiniteSet(t) /\ Cardinality(t) \in Nat
  BY FS_Subset, FS_CardinalityType
<1>1. \A t \in SUBSET A : SumFunctionOnSet(f, t) \in Nat
  BY <1>0, SumTyped
<1> SUFFICES ASSUME Bad # {} PROVE FALSE
  BY Zenon
<1>2. Sizes \in SUBSET Nat /\ Sizes # {}
  BY <1>0
<1>3. PICK n \in Sizes : \A y \in Sizes : n <= y
  BY <1>2, LeastIsIn
<1>4. PICK t \in Bad : Cardinality(t) = n
  BY <1>3
<1>5. t # {}
  <2>1. CASE t = {}
    <3>1. A \ t = A /\ SumFunctionOnSet(f, t) = 0
      BY <2>1, SumEmpty
    <3> QED BY <1>1, <1>4, <3>1
  <2> QED BY <2>1
<1>6. PICK b \in t : TRUE
  BY <1>5
<1>7. PICK u : u = t \ {b}
  OBVIOUS
<1>8. PICK r : r = A \ t
  OBVIOUS
<1>9. u \in SUBSET A /\ r \in SUBSET A /\ b \notin r /\ A \ u = r \union {b} /\ b \in A
  BY <1>7, <1>8
<1>10. u \notin Bad
  <2>1. Cardinality(u) = n - 1 /\ n - 1 \in Nat
    BY <1>0, <1>4, <1>7, OneLess
  <2>2. Cardinality(u) \notin Sizes
    <3> HIDE DEF Sizes, Bad
    <3> QED BY <1>2, <1>3, <2>1
  <2> QED BY <2>2, Zenon
<1>11. SumFunctionOnSet(f, A) = SumFunctionOnSet(f, u) + SumFunctionOnSet(f, r \union {b})
  <2>1. SumFunctionOnSet(f, A) = SumFunctionOnSet(f, u) + SumFunctionOnSet(f, A \ u)
    BY <1>9, <1>10, Zenon
  <2> QED BY <1>9, <2>1, Zenon
<1>12. SumFunctionOnSet(f, t) = f[b] + SumFunctionOnSet(f, u)
  BY <1>0, <1>6, <1>7, SumTyped
<1>13. SumFunctionOnSet(f, r \union {b}) = f[b] + SumFunctionOnSet(f, r)
  <2>1. IsFiniteSet(r) /\ f[b] \in Nat /\ \A y \in r : f[y] \in Nat
    BY <1>0, <1>9
  <2> QED BY <1>9, <2>1, SumWith, Zenon
<1>14. f[b] \in Nat /\ SumFunctionOnSet(f, u) \in Nat /\ SumFunctionOnSet(f, r) \in Nat
  BY <1>1, <1>9
<1>15. SumFunctionOnSet(f, A) # SumFunctionOnSet(f, t) + SumFunctionOnSet(f, r)
  BY <1>4, <1>8, Zenon
<1> QED BY <1>11, <1>12, <1>13, <1>14, <1>15

-----------------------------------------------------------------------------
(* Counters that wrap.                                                     *)

\* A remainder is known by its range.
LEMMA Remainder ==
  ASSUME NEW n \in Nat \ {0}, NEW x \in Int, NEW m \in 0 .. n - 1, NEW a \in Int, a = n * x + m
  PROVE  a % n = m
<1>1. PICK d : d = a \div n
  OBVIOUS
<1>2. PICK r : r = a % n
  OBVIOUS
<1>3. d \in Int /\ r \in 0 .. n - 1 /\ a = n * d + r
  BY <1>1, <1>2
<1>4. PICK z : z = d - x
  OBVIOUS
<1>5. z \in Int /\ n * z = m - r
  BY <1>3, <1>4
<1>6. ~(z >= 1)
  <2> SUFFICES ASSUME z >= 1 PROVE FALSE
    OBVIOUS
  <2>1. n * (z - 1) >= 0
    BY <1>5
  <2>2. n * (z - 1) = n * z - n
    BY <1>5
  <2> QED BY <1>3, <1>5, <2>1, <2>2
<1>7. ~(z <= -1)
  <2> SUFFICES ASSUME z <= -1 PROVE FALSE
    OBVIOUS
  <2>1. n * (-1 - z) >= 0
    BY <1>5
  <2>2. n * (-1 - z) = -n - n * z
    BY <1>5
  <2> QED BY <1>3, <1>5, <2>1, <2>2
<1>8. z = 0
  BY <1>5, <1>6, <1>7
<1> QED BY <1>2, <1>3, <1>5, <1>8

\* What is added before or after a counter wraps.
LEMMA WrappedSum ==
  ASSUME NEW n \in Nat \ {0}, NEW a \in Int, NEW b \in Int
  PROVE  ((a % n) + b) % n = (a + b) % n
<1>1. PICK q : q = a \div n
  OBVIOUS
<1>2. PICK r : r = a % n
  OBVIOUS
<1>3. q \in Int /\ r \in 0 .. n - 1 /\ a = n * q + r
  BY <1>1, <1>2
<1>4. PICK p : p = (r + b) \div n
  OBVIOUS
<1>5. PICK m : m = (r + b) % n
  OBVIOUS
<1>6. p \in Int /\ m \in 0 .. n - 1 /\ r + b = n * p + m
  BY <1>3, <1>4, <1>5
<1>7. a + b = n * (q + p) + m
  BY <1>3, <1>6
<1>8. (a + b) % n = m
  <2>1. PICK x \in Int : x = q + p
    BY <1>3, <1>6
  <2>2. PICK c \in Int : c = a + b
    OBVIOUS
  <2>3. c = n * x + m
    BY <1>7, <2>1, <2>2
  <2>4. m \in 0 .. n - 1
    BY <1>6
  <2>5. c % n = m
    BY <2>3, <2>4, Remainder
  <2> QED BY <2>2, <2>5
<1> QED BY <1>2, <1>5, <1>8

\* What a wrapped counter is subtracted from.
LEMMA WrappedDifference ==
  ASSUME NEW n \in Nat \ {0}, NEW a \in Int, NEW b \in Int
  PROVE  (b - (a % n)) % n = (b - a) % n
<1>1. PICK q : q = a \div n
  OBVIOUS
<1>2. PICK r : r = a % n
  OBVIOUS
<1>3. q \in Int /\ r \in 0 .. n - 1 /\ a = n * q + r
  BY <1>1, <1>2
<1>4. PICK p : p = (b - r) \div n
  OBVIOUS
<1>5. PICK m : m = (b - r) % n
  OBVIOUS
<1>6. p \in Int /\ m \in 0 .. n - 1 /\ b - r = n * p + m
  BY <1>3, <1>4, <1>5
<1>7. b - a = n * (p - q) + m
  BY <1>3, <1>6
<1>8. (b - a) % n = m
  <2>1. PICK x \in Int : x = p - q
    BY <1>3, <1>6
  <2>2. PICK c \in Int : c = b - a
    OBVIOUS
  <2>3. c = n * x + m
    BY <1>7, <2>1, <2>2
  <2>4. m \in 0 .. n - 1
    BY <1>6
  <2>5. c % n = m
    BY <2>3, <2>4, Remainder
  <2> QED BY <2>2, <2>5
<1> QED BY <1>2, <1>5, <1>8

\* The difference of two counters that wrap, when one of them has moved.
LEMMA UpperMoves ==
  ASSUME NEW n \in Nat \ {0}, NEW a \in Int, NEW f \in Int, NEW k \in Int
  PROVE  (((a + k) % n) - f) % n = (((a - f) % n) + k) % n
<1>1. PICK e \in Int : e = 0 - f
  OBVIOUS
<1>2. PICK s \in Int : s = a + k
  OBVIOUS
<1>3. PICK g : g = s % n
  OBVIOUS
<1>4. PICK d \in Int : d = a - f
  OBVIOUS
<1>5. g \in Int
  BY <1>2, <1>3
<1>6. (g + e) % n = (s + e) % n
  BY <1>3, WrappedSum, Zenon
<1>7. ((d % n) + k) % n = (d + k) % n
  BY WrappedSum, Zenon
<1>8. s + e = d + k /\ g + e = g - f
  BY <1>1, <1>2, <1>4, <1>5
<1> QED BY <1>2, <1>3, <1>4, <1>6, <1>7, <1>8, Zenon

\* The same when the one subtracted has moved.
LEMMA LowerMoves ==
  ASSUME NEW n \in Nat \ {0}, NEW a \in Int, NEW f \in Int, NEW k \in Int
  PROVE  (a - ((f + k) % n)) % n = (((a - f) % n) - k) % n
<1>1. PICK e \in Int : e = 0 - k
  OBVIOUS
<1>2. PICK s \in Int : s = f + k
  OBVIOUS
<1>3. PICK d \in Int : d = a - f
  OBVIOUS
<1>4. (a - (s % n)) % n = (a - s) % n
  BY WrappedDifference, Zenon
<1>5. ((d % n) + e) % n = (d + e) % n
  BY WrappedSum, Zenon
<1>6. PICK g : g = d % n
  OBVIOUS
<1>7. g \in Int
  BY <1>6
<1>8. a - s = d + e /\ g + e = g - k
  BY <1>1, <1>2, <1>3, <1>7
<1> QED BY <1>2, <1>3, <1>4, <1>5, <1>6, <1>8, Zenon

\* A counter may wrap before something is subtracted from it.
LEMMA WrappedLess ==
  ASSUME NEW n \in Nat \ {0}, NEW a \in Int, NEW b \in Int
  PROVE  ((a % n) - b) % n = (a - b) % n
<1>1. PICK e \in Int : e = 0 - b
  OBVIOUS
<1>2. PICK g : g = a % n
  OBVIOUS
<1>3. g \in Int
  BY <1>2
<1>4. ((a % n) + e) % n = (a + e) % n
  BY WrappedSum, Zenon
<1>5. g + e = g - b /\ a + e = a - b
  BY <1>1, <1>3
<1> QED BY <1>2, <1>4, <1>5, Zenon
=============================================================================
