--------------------------- MODULE GcPagesProofs ---------------------------
(***************************************************************************)
(* The collector and the large pages.                                      *)
(*                                                                         *)
(* The region manager's books and the collector's lock are proved for      *)
(* every number of threads and regions and any ages of promotion.  Both    *)
(* invariants of the run are conditional: the lists and counts that        *)
(* gc_shutdown leaves behind mean nothing, and a collection may lose the   *)
(* lock to gc_collect_wait.  The inductive invariants say when: what is    *)
(* true while the collector is on, and of the threads that have gc_lock.   *)
(*                                                                         *)
(* What is mapped for large pages, and the count of those reserved, are    *)
(* proved for every size of a page and of the address space.  There the    *)
(* inductive invariant adds that the kernel's large pages are whole, and   *)
(* that no block begins or ends inside one.                                *)
(***************************************************************************)
EXTENDS MCGcPages, SumTheorems, SequenceTheorems, FunctionTheorems, FiniteSetTheorems, TLAPS

-----------------------------------------------------------------------------
(* The invariant of the region manager.                                    *)

\* A list has a region once, and regions of its own type; whether or not the
\* collector is on.
Sorted ==
  \A t \in Types : /\ IsInjective(list[t])
                   /\ \A i \in DOMAIN list[t] : type[list[t][i]] = t

\* Only regions of the array are in lists.
ListedExist == \A t \in Types : \A i \in DOMAIN list[t] : list[t][i] \in regions

OfType(t) == {r \in regions : type[r] = t}
InUse == {r \in regions : type[r] # EMPTY}
Counted ==
  /\ \A t \in Types : region_count[t] = Cardinality(OfType(t))
  /\ used_size = Cardinality(InUse)

HeldInUse == \A r \in Region : holder[r] # NULL => r \in regions /\ type[r] # EMPTY

Booked ==
  IF status = "on"
  THEN ListedExist /\ Counted /\ HeldInUse
  ELSE regions = {} /\ \A r \in Region : holder[r] = NULL

ManagerInv ==
  ManagerTypeOK /\ holder \in [Region -> Threads \union {NULL}] /\ Sorted /\ Booked

-----------------------------------------------------------------------------
(* The invariant of the collector's lock.                                  *)

PcOfOp ==
  /\ pc \in [Threads -> Steps] /\ DOMAIN op = Threads
  /\ \A t \in Threads :
       /\ pc[t] \in {"lock", "mark", "next", "reclaim", "unlock", "stuck"} => op[t] \in Collections
       /\ pc[t] \in {"age", "promote"} => op[t] \in Collections \union {"gc_region_age"}
       /\ pc[t] \in {"cond", "retest"} => op[t] = "gc_collect_wait"
       /\ pc[t] \in {"sd_lock", "sd_manager", "sd_regions"} => op[t] = "gc_shutdown"

\* The thread is between the lock and the unlock of a collection.
Inside(t) == op[t] \in Collections /\ pc[t] \notin {"idle", "lock"}

\* Nothing has taken gc_lock from a collection.
LockKept ==
  ~cleared =>
    \A t \in Threads :
      /\ Inside(t) => gc_lock = t
      /\ pc[t] \notin {"cond", "retest", "sd_lock", "sd_manager", "sd_regions"}

BarrierOn ==
  ~cleared =>
    \A t \in Threads : Collecting(t) /\ op[t] = "gc_collect" => concurrent_active

CollectorInv == PcOfOp /\ LockKept /\ BarrierOn

-----------------------------------------------------------------------------
(* Lists and counts.                                                       *)

\* list_del: the entry goes, the others stay in their order.
LEMMA Unlinked ==
  ASSUME NEW S, NEW s \in Seq(S), IsInjective(s), NEW e, NEW u, u = RemoveFirst(s, e)
  PROVE  /\ u \in Seq(S) /\ IsInjective(u)
         /\ \A i \in DOMAIN u : u[i] # e /\ \E j \in DOMAIN s : u[i] = s[j]
<1> DEFINE I == {i \in 1 .. Len(s) : s[i] = e}
<1>1. CASE ~\E i \in 1 .. Len(s) : s[i] = e
  BY <1>1 DEF RemoveFirst
<1>2. ASSUME NEW k \in 1 .. Len(s), s[k] = e
      PROVE  /\ u \in Seq(S) /\ IsInjective(u)
             /\ \A i \in DOMAIN u : u[i] # e /\ \E j \in DOMAIN s : u[i] = s[j]
  <2>1. I = {k}
    BY <1>2 DEF IsInjective
  <2>2. Min(I) = k
    BY <2>1 DEF Min
  <2>3. SelectInSeq(s, LAMBDA v : v = e) = k
    BY <2>1, <2>2 DEF SelectInSeq
  <2>4. u = SubSeq(s, 1, k - 1) \o SubSeq(s, k + 1, Len(s))
    BY <1>2, <2>3 DEF RemoveFirst, RemoveAt
  <2> DEFINE x == SubSeq(s, 1, k - 1)
             y == SubSeq(s, k + 1, Len(s))
  <2>5. /\ x \in Seq(S) /\ Len(x) = k - 1 /\ \A i \in 1 .. k - 1 : x[i] = s[i]
        /\ y \in Seq(S) /\ Len(y) = Len(s) - k /\ \A i \in 1 .. Len(s) - k : y[i] = s[k + i]
    BY <1>2, Z3
  <2> HIDE DEF x, y
  <2>6. /\ u \in Seq(S) /\ Len(u) = Len(s) - 1
        /\ \A i \in 1 .. Len(s) - 1 : u[i] = IF i <= k - 1 THEN x[i] ELSE y[i - (k - 1)]
    <3>1. u = x \o y
      BY <2>4 DEF x, y
    <3>2. Len(x) + Len(y) = Len(s) - 1
      BY <2>5
    <3>3. x \in Seq(S) /\ y \in Seq(S)
      BY <2>5
    <3>4. /\ x \o y \in Seq(S) /\ Len(x \o y) = Len(x) + Len(y)
          /\ \A i \in 1 .. Len(x) + Len(y) :
               (x \o y)[i] = IF i <= Len(x) THEN x[i] ELSE y[i - Len(x)]
      BY <3>3, ConcatProperties, Zenon
    <3>5. Len(x) = k - 1
      BY <2>5
    <3> QED BY <3>1, <3>2, <3>4, <3>5, Zenon
  <2>7. \A i \in DOMAIN u : u[i] = s[IF i < k THEN i ELSE i + 1]
    <3> TAKE i \in DOMAIN u
    <3>1. i \in 1 .. Len(s) - 1
      BY <2>6
    <3>2. u[i] = IF i <= k - 1 THEN x[i] ELSE y[i - (k - 1)]
      BY <2>6, <3>1
    <3>3. CASE i <= k - 1
      <4>1. i \in 1 .. k - 1 /\ i < k
        BY <3>1, <3>3
      <4> QED BY <2>5, <3>2, <3>3, <4>1
    <3>4. CASE ~(i <= k - 1)
      <4>1. i - (k - 1) \in 1 .. Len(s) - k /\ k + (i - (k - 1)) = i + 1 /\ ~(i < k)
        BY <3>1, <3>4
      <4> QED BY <2>5, <3>2, <3>4, <4>1
    <3> QED BY <3>3, <3>4
  <2>8. \A i \in DOMAIN u : (IF i < k THEN i ELSE i + 1) \in DOMAIN s \ {k}
    BY <2>6
  <2>9. \A i, j \in DOMAIN u : (IF i < k THEN i ELSE i + 1) = (IF j < k THEN j ELSE j + 1)
                                => i = j
    BY <2>6
  <2> DEFINE J(i) == IF i < k THEN i ELSE i + 1
  <2>10. \A i \in DOMAIN u : u[i] = s[J(i)] /\ J(i) \in DOMAIN s /\ J(i) # k
    BY <2>7, <2>8
  <2>11. \A i, j \in DOMAIN u : J(i) = J(j) => i = j
    BY <2>9
  <2>12. k \in DOMAIN s
    OBVIOUS
  <2> HIDE DEF J
  <2> QED BY <1>2, <2>6, <2>10, <2>11, <2>12 DEF IsInjective
<1> QED BY <1>1, <1>2

\* A list stays without repetition when a region is added that was not in it.
LEMMA Linked ==
  ASSUME NEW s \in Seq(Region), IsInjective(s), NEW e \in Region,
         \A i \in DOMAIN s : s[i] # e
  PROVE  /\ Append(s, e) \in Seq(Region) /\ IsInjective(Append(s, e))
         /\ \A i \in DOMAIN Append(s, e) :
              Append(s, e)[i] = e \/ \E j \in DOMAIN s : Append(s, e)[i] = s[j]
  BY DEF IsInjective

\* A region that changes its type is counted there, and no longer where it was.
LEMMA Recounted ==
  ASSUME NEW r \in Region, NEW to \in Types, ManagerTypeOK, r \in regions => type[r] # to,
         regions' = regions \union {r}, type' = [type EXCEPT ![r] = to]
  PROVE  \A t \in Types :
           /\ Cardinality(OfType(t)) \in Int
           /\ Cardinality(OfType(t)') =
                IF t = to THEN Cardinality(OfType(t)) + 1
                ELSE IF t = type[r] /\ r \in regions THEN Cardinality(OfType(t)) - 1
                ELSE Cardinality(OfType(t))
<1> SUFFICES ASSUME NEW t \in Types
             PROVE  /\ Cardinality(OfType(t)) \in Int
                    /\ Cardinality(OfType(t)') =
                         IF t = to THEN Cardinality(OfType(t)) + 1
                         ELSE IF t = type[r] /\ r \in regions THEN Cardinality(OfType(t)) - 1
                         ELSE Cardinality(OfType(t))
  OBVIOUS
<1>1. IsFiniteSet(OfType(t))
  BY FS_Subset, GcRegionAssumption DEF OfType, ManagerTypeOK
<1>2. Cardinality(OfType(t)) \in Int
  BY <1>1, FS_CardinalityType
<1>3. CASE t = to
  <2>1. OfType(t)' = OfType(t) \union {r} /\ r \notin OfType(t)
    BY <1>3 DEF OfType, ManagerTypeOK
  <2> QED BY <1>1, <1>2, <1>3, <2>1, FS_AddElement
<1>4. CASE t # to /\ t = type[r] /\ r \in regions
  <2>1. OfType(t)' = OfType(t) \ {r} /\ r \in OfType(t)
    BY <1>4 DEF OfType, ManagerTypeOK
  <2>2. Cardinality(OfType(t) \ {r}) = Cardinality(OfType(t)) - 1
    BY <1>1, <2>1, FS_RemoveElement, Zenon
  <2> QED BY <1>2, <1>4, <2>1, <2>2
<1>5. CASE t # to /\ ~(t = type[r] /\ r \in regions)
  <2>1. OfType(t)' = OfType(t)
    BY <1>5 DEF OfType, ManagerTypeOK
  <2> QED BY <1>2, <1>5, <2>1
<1> QED BY <1>3, <1>4, <1>5

\* How the number of regions in use changes with the type of one.
LEMMA Reused ==
  ASSUME NEW r \in Region, NEW to \in Types, ManagerTypeOK,
         regions' = regions \union {r}, type' = [type EXCEPT ![r] = to]
  PROVE  /\ Cardinality(InUse) \in Int
         /\ Cardinality(InUse') =
              IF to # EMPTY
              THEN IF r \in InUse THEN Cardinality(InUse) ELSE Cardinality(InUse) + 1
              ELSE IF r \in InUse THEN Cardinality(InUse) - 1 ELSE Cardinality(InUse)
<1>1. IsFiniteSet(InUse)
  BY FS_Subset, GcRegionAssumption DEF InUse, ManagerTypeOK
<1>2. Cardinality(InUse) \in Int
  BY <1>1, FS_CardinalityType
<1>3. CASE to # EMPTY
  <2>1. InUse' = InUse \union {r}
    BY <1>3 DEF InUse, ManagerTypeOK
  <2> QED BY <1>1, <1>2, <1>3, <2>1, FS_AddElement
<1>4. CASE to = EMPTY
  <2>1. InUse' = InUse \ {r}
    BY <1>4 DEF InUse, ManagerTypeOK
  <2> QED BY <1>1, <1>2, <1>4, <2>1, FS_RemoveElement
<1> QED BY <1>3, <1>4

\* A region leaves the list it is in.
LEMMA Withdrawn ==
  ASSUME NEW r, ManagerTypeOK, Sorted, NEW W, W = Without(r)
  PROVE  /\ W \in [Types -> Seq(Region)]
         /\ \A t \in Types :
              /\ IsInjective(W[t])
              /\ \A i \in DOMAIN W[t] :
                   W[t][i] # r /\ \E j \in DOMAIN list[t] : W[t][i] = list[t][j]
<1>1. ASSUME NEW t \in Types
      PROVE  /\ W[t] \in Seq(Region) /\ IsInjective(W[t])
             /\ \A i \in DOMAIN W[t] :
                  W[t][i] # r /\ \E j \in DOMAIN list[t] : W[t][i] = list[t][j]
  <2>1. list[t] \in Seq(Region) /\ IsInjective(list[t])
    BY DEF ManagerTypeOK, Sorted
  <2>2. W[t] = RemoveFirst(list[t], r)
    BY DEF Without
  <2> QED BY <2>1, <2>2, Unlinked
<1>2. W = [t \in Types |-> W[t]]
  BY DEF Without
<1> QED BY <1>1, <1>2

\* ... and enters that of its new type.
LEMMA Filed ==
  ASSUME NEW r \in Region, NEW to \in Types, ManagerTypeOK, Sorted,
         list' = [Without(r) EXCEPT ![to] = Append(@, r)], type' = [type EXCEPT ![r] = to]
  PROVE  /\ list' \in [Types -> Seq(Region)] /\ type' \in [Region -> Types] /\ Sorted'
         /\ \A t \in Types : \A i \in DOMAIN list'[t] :
              list'[t][i] = r \/ \E j \in DOMAIN list[t] : list'[t][i] = list[t][j]
<1>0. PICK W : W = Without(r)
  OBVIOUS
<1>1. /\ W \in [Types -> Seq(Region)]
      /\ \A t \in Types :
           /\ IsInjective(W[t])
           /\ \A i \in DOMAIN W[t] : W[t][i] # r /\ \E j \in DOMAIN list[t] : W[t][i] = list[t][j]
  BY <1>0, Withdrawn
<1>2. type' \in [Region -> Types] /\ \A q \in Region : type'[q] = IF q = r THEN to ELSE type[q]
  BY DEF ManagerTypeOK
<1>3. list' = [W EXCEPT ![to] = Append(@, r)]
  BY <1>0
<1>4. ASSUME NEW t \in Types
      PROVE  /\ list'[t] \in Seq(Region) /\ IsInjective(list'[t])
             /\ \A i \in DOMAIN list'[t] :
                  \/ t = to /\ list'[t][i] = r
                  \/ list'[t][i] # r /\ \E j \in DOMAIN list[t] : list'[t][i] = list[t][j]
  <2>1. W[t] \in Seq(Region)
    BY <1>1
  <2>2. CASE t # to
    <3>1. list'[t] = W[t]
      BY <1>1, <1>3, <2>2
    <3>2. IsInjective(W[t])
          /\ \A i \in DOMAIN W[t] :
               W[t][i] # r /\ \E j \in DOMAIN list[t] : W[t][i] = list[t][j]
      BY <1>1, Zenon
    <3> QED BY <2>1, <2>2, <3>1, <3>2, Zenon
  <2>3. CASE t = to
    <3>1. list'[t] = Append(W[t], r)
      BY <1>1, <1>3, <2>3
    <3>2. /\ IsInjective(W[t])
          /\ \A i \in DOMAIN W[t] :
               W[t][i] # r /\ \E j \in DOMAIN list[t] : W[t][i] = list[t][j]
      BY <1>1, Zenon
    <3>3. /\ list'[t] \in Seq(Region) /\ IsInjective(list'[t])
          /\ \A i \in DOMAIN list'[t] : list'[t][i] = r \/ \E j \in DOMAIN W[t] : list'[t][i] = W[t][j]
      <4>1. \A i \in DOMAIN W[t] : W[t][i] # r
        BY <3>2, Zenon
      <4>2. IsInjective(W[t])
        BY <3>2, Zenon
      <4>3. /\ Append(W[t], r) \in Seq(Region) /\ IsInjective(Append(W[t], r))
            /\ \A i \in DOMAIN Append(W[t], r) :
                 Append(W[t], r)[i] = r \/ \E j \in DOMAIN W[t] : Append(W[t], r)[i] = W[t][j]
        BY <2>1, <4>1, <4>2, Linked
      <4> QED BY <3>1, <4>3, Zenon
    <3>4. ASSUME NEW i \in DOMAIN list'[t], NEW j \in DOMAIN W[t], list'[t][i] = W[t][j]
          PROVE  list'[t][i] # r /\ \E k \in DOMAIN list[t] : list'[t][i] = list[t][k]
      BY <3>2, <3>4
    <3> QED BY <2>3, <3>3, <3>4
  <2> QED BY <2>2, <2>3
<1>5. list' \in [Types -> Seq(Region)]
  <2>1. list' = [t \in Types |-> list'[t]]
    BY <1>1, <1>3
  <2> QED BY <1>4, <2>1
<1>6. Sorted'
  <2> SUFFICES ASSUME NEW t \in Types, NEW i \in DOMAIN list'[t]
               PROVE  type'[list'[t][i]] = t
    BY <1>4, Zenon DEF Sorted
  <2>1. list'[t][i] \in Region
    BY <1>4
  <2>2. CASE t = to /\ list'[t][i] = r
    BY <1>2, <2>2
  <2>3. ASSUME list'[t][i] # r, NEW j \in DOMAIN list[t], list'[t][i] = list[t][j]
        PROVE  type'[list'[t][i]] = t
    <3>1. type[list[t][j]] = t
      BY <2>3 DEF Sorted
    <3> QED BY <1>2, <2>1, <2>3, <3>1
  <2> QED BY <1>4, <2>2, <2>3, Zenon
<1>7. \A t \in Types : \A i \in DOMAIN list'[t] :
        list'[t][i] = r \/ \E j \in DOMAIN list[t] : list'[t][i] = list[t][j]
  BY <1>4, Zenon
<1> QED BY <1>2, <1>5, <1>6, <1>7

-----------------------------------------------------------------------------
(* The operations of the manager.                                          *)

\* gc_region_alloc: the first free region, or a new one, is given away.
LEMMA AllocKeeps ==
  ASSUME ManagerInv, status = "on", status' = status,
         NEW t \in Threads, NEW r \in Region, NEW to \in AllocTypes,
         gc_region_alloc(r, to), holder' = [holder EXCEPT ![r] = t]
  PROVE  ManagerInv'
<1>0. to \in Types /\ to # EMPTY
  BY GcAssumption
<1>1. /\ list' \in [Types -> Seq(Region)] /\ type' \in [Region -> Types] /\ Sorted'
      /\ \A u \in Types : \A i \in DOMAIN list'[u] :
           list'[u][i] = r \/ \E j \in DOMAIN list[u] : list'[u][i] = list[u][j]
  BY <1>0, Filed, Zenon DEF ManagerInv, gc_region_alloc
<1>2. regions' = regions \union {r} /\ type' = [type EXCEPT ![r] = to]
  BY DEF gc_region_alloc
<1>3. r \in regions => type[r] = EMPTY
  <2>1. CASE list[EMPTY] # <<>>
    <3>1. EMPTY \in Types /\ list[EMPTY] \in Seq(Region)
      BY DEF ManagerInv, ManagerTypeOK, Types
    <3>2. 1 \in DOMAIN list[EMPTY] /\ r = list[EMPTY][1]
      BY <2>1, <3>1 DEF gc_region_alloc, Available
    <3> QED BY <3>1, <3>2 DEF ManagerInv, Sorted
  <2>2. CASE list[EMPTY] = <<>>
    BY <2>2 DEF gc_region_alloc, Available
  <2> QED BY <2>1, <2>2
<1>4. \A u \in Types :
        /\ Cardinality(OfType(u)) \in Int
        /\ Cardinality(OfType(u)') =
             IF u = to THEN Cardinality(OfType(u)) + 1
             ELSE IF u = type[r] /\ r \in regions THEN Cardinality(OfType(u)) - 1
             ELSE Cardinality(OfType(u))
  BY <1>0, <1>2, <1>3, Recounted DEF ManagerInv
<1>5. Cardinality(InUse) \in Int /\ Cardinality(InUse') = Cardinality(InUse) + 1
  BY <1>0, <1>2, <1>3, Reused DEF ManagerInv, InUse
<1>6. Counted'
  <2>1. ASSUME NEW u \in Types
        PROVE  region_count'[u] = Cardinality(OfType(u)')
    <3>1. region_count'[u] = IF u = to THEN region_count[u] + 1
                             ELSE IF u = EMPTY /\ r \in regions THEN region_count[u] - 1
                             ELSE region_count[u]
      BY <1>0 DEF ManagerInv, ManagerTypeOK, gc_region_alloc, Count
    <3>2. region_count[u] = Cardinality(OfType(u))
      BY DEF ManagerInv, Booked, Counted
    <3> QED BY <1>3, <1>4, <3>1, <3>2
  <2>2. used_size' = Cardinality(InUse')
    BY <1>5 DEF ManagerInv, Booked, Counted, gc_region_alloc
  <2> QED BY <2>1, <2>2 DEF Counted
<1>7. ManagerTypeOK'
  <2>1. region_count' \in [Types -> Int]
    <3>1. Count(to, 1) \in [Types -> Int]
      BY <1>0 DEF ManagerInv, ManagerTypeOK, Count
    <3>2. EMPTY \in Types
      BY DEF Types
    <3> QED BY <3>1, <3>2 DEF gc_region_alloc
  <2>2. used_size' \in Int /\ regions' \subseteq Region /\ age' \in [Region -> 0 .. AgeCap]
    BY GcRegionAssumption DEF ManagerInv, ManagerTypeOK, gc_region_alloc
  <2> QED BY <1>1, <2>1, <2>2 DEF ManagerTypeOK
<1>8. ListedExist'
  BY <1>1, <1>2 DEF ManagerInv, Booked, ListedExist
<1>9. HeldInUse' /\ holder' \in [Region -> Threads \union {NULL}]
  <2>1. \A q \in Region : /\ holder'[q] = IF q = r THEN t ELSE holder[q]
                          /\ type'[q] = IF q = r THEN to ELSE type[q]
    BY <1>2 DEF ManagerInv, ManagerTypeOK
  <2>2. holder' \in [Region -> Threads \union {NULL}]
    BY DEF ManagerInv
  <2> QED BY <1>0, <1>2, <2>1, <2>2 DEF ManagerInv, Booked, HeldInUse
<1> QED BY <1>1, <1>6, <1>7, <1>8, <1>9 DEF ManagerInv, Booked

\* What the lists say of a region that is in one.
LEMMA ListedIs ==
  ASSUME ManagerInv, NEW r, Listed(r)
  PROVE  r \in Region /\ (status = "on" => r \in regions)
<1>0. PICK t \in Types : Contains(list[t], r)
  BY DEF Listed
<1>1. PICK i \in 1 .. Len(list[t]) : list[t][i] = r
  BY <1>0 DEF Contains
<1>2. list[t] \in Seq(Region)
  BY DEF ManagerInv, ManagerTypeOK
<1> QED BY <1>1, <1>2 DEF ManagerInv, Booked, ListedExist

\* gc_region_free: a region its client holds is a free one again.
LEMMA FreeKeeps ==
  ASSUME ManagerInv, status = "on", status' = status,
         NEW t \in Threads, NEW r \in Region, holder[r] = t,
         gc_region_free(r), holder' = [holder EXCEPT ![r] = NULL]
  PROVE  ManagerInv'
<1>0. EMPTY \in Types /\ r \in regions /\ type[r] # EMPTY /\ type[r] \in Types
  BY GcAssumption DEF ManagerInv, ManagerTypeOK, Booked, HeldInUse, Types
<1>1. /\ list' \in [Types -> Seq(Region)] /\ type' \in [Region -> Types] /\ Sorted'
      /\ \A u \in Types : \A i \in DOMAIN list'[u] :
           list'[u][i] = r \/ \E j \in DOMAIN list[u] : list'[u][i] = list[u][j]
  BY <1>0, Filed, Zenon DEF ManagerInv, gc_region_free
<1>2. regions' = regions \union {r} /\ type' = [type EXCEPT ![r] = EMPTY]
  BY <1>0 DEF gc_region_free
<1>4. \A u \in Types :
        /\ Cardinality(OfType(u)) \in Int
        /\ Cardinality(OfType(u)') =
             IF u = EMPTY THEN Cardinality(OfType(u)) + 1
             ELSE IF u = type[r] /\ r \in regions THEN Cardinality(OfType(u)) - 1
             ELSE Cardinality(OfType(u))
  BY <1>0, <1>2, Recounted DEF ManagerInv
<1>5. Cardinality(InUse) \in Int /\ Cardinality(InUse') = Cardinality(InUse) - 1
  BY <1>0, <1>2, Reused DEF ManagerInv, InUse
<1>c. region_count' = [Count(type[r], -1) EXCEPT ![EMPTY] = @ + 1]
      /\ Count(type[r], -1) \in [Types -> Int]
  BY <1>0 DEF ManagerInv, ManagerTypeOK, gc_region_free, Count
<1>6. Counted'
  <2>1. ASSUME NEW u \in Types
        PROVE  region_count'[u] = Cardinality(OfType(u)')
    <3>1. region_count'[u] = IF u = EMPTY THEN region_count[u] + 1
                             ELSE IF u = type[r] THEN region_count[u] - 1
                             ELSE region_count[u]
      BY <1>0, <1>c DEF ManagerInv, ManagerTypeOK, Count
    <3>2. region_count[u] = Cardinality(OfType(u))
      BY DEF ManagerInv, Booked, Counted
    <3> QED BY <1>0, <1>4, <3>1, <3>2
  <2>2. used_size' = Cardinality(InUse')
    BY <1>5 DEF ManagerInv, Booked, Counted, gc_region_free
  <2> QED BY <2>1, <2>2 DEF Counted
<1>7. ManagerTypeOK'
  <2>1. region_count' \in [Types -> Int]
    BY <1>0, <1>c
  <2>2. used_size' \in Int /\ regions' \subseteq Region /\ age' \in [Region -> 0 .. AgeCap]
    BY GcRegionAssumption DEF ManagerInv, ManagerTypeOK, gc_region_free
  <2> QED BY <1>1, <2>1, <2>2 DEF ManagerTypeOK
<1>8. ListedExist'
  BY <1>1, <1>2 DEF ManagerInv, Booked, ListedExist
<1>9. HeldInUse' /\ holder' \in [Region -> Threads \union {NULL}]
  <2>1. \A q \in Region : /\ holder'[q] = IF q = r THEN NULL ELSE holder[q]
                          /\ type'[q] = IF q = r THEN EMPTY ELSE type[q]
    BY <1>2 DEF ManagerInv, ManagerTypeOK
  <2>2. holder' \in [Region -> Threads \union {NULL}]
    BY DEF ManagerInv
  <2> QED BY <1>0, <1>2, <2>1, <2>2 DEF ManagerInv, Booked, HeldInUse
<1> QED BY <1>1, <1>6, <1>7, <1>8, <1>9 DEF ManagerInv, Booked

\* gc_region_promote, by a client or a collection, before or after a shutdown,
\* and of a region that was freed and given away since its type was tested.
LEMMA PromoteKeeps ==
  ASSUME ManagerInv, status' = status, holder' = holder,
         NEW r, gc_region_promote(r)
  PROVE  ManagerInv'
<1>0. r \in Region /\ (status = "on" => r \in regions)
  BY ListedIs DEF gc_region_promote
<1>1. CASE type[r] \notin DOMAIN Promoted
  <2>1. list' = Without(r) /\ UNCHANGED <<region_count, type, regions, used_size, age>>
    BY <1>1 DEF gc_region_promote
  <2>2. /\ list' \in [Types -> Seq(Region)]
        /\ \A t \in Types :
             /\ IsInjective(list'[t])
             /\ \A i \in DOMAIN list'[t] :
                  list'[t][i] # r /\ \E j \in DOMAIN list[t] : list'[t][i] = list[t][j]
    BY <2>1, Withdrawn DEF ManagerInv
  <2>3. ManagerTypeOK'
    BY <2>1, <2>2 DEF ManagerInv, ManagerTypeOK
  <2>4. Sorted'
    BY <2>1, <2>2 DEF ManagerInv, Sorted
  <2>5. ListedExist => ListedExist'
    BY <2>1, <2>2 DEF ListedExist
  <2>6. Counted => Counted'
    BY <2>1, Zenon DEF Counted, OfType, InUse
  <2>7. HeldInUse => HeldInUse'
    BY <2>1 DEF HeldInUse
  <2> QED BY <2>1, <2>3, <2>4, <2>5, <2>6, <2>7 DEF ManagerInv, Booked
<1>2. CASE type[r] \in DOMAIN Promoted
  <2> DEFINE to == Promoted[type[r]]
  <2>0. to \in Types /\ to # type[r] /\ to # EMPTY /\ type[r] \in Types /\ type[r] # EMPTY
    BY <1>2 DEF Promoted, Types, EMPTY, YOUNG, SURVIVOR, OLD, HUMONGOUS, PINNED
  <2>m. /\ list' = [Without(r) EXCEPT ![to] = Append(@, r)]
        /\ region_count' = [Count(type[r], -1) EXCEPT ![to] = @ + 1]
        /\ type' = [type EXCEPT ![r] = to] /\ UNCHANGED <<regions, used_size, age>>
    BY <1>2, Zenon DEF gc_region_promote
  <2> HIDE DEF to
  <2>1. /\ list' \in [Types -> Seq(Region)] /\ type' \in [Region -> Types] /\ Sorted'
        /\ \A u \in Types : \A i \in DOMAIN list'[u] :
             list'[u][i] = r \/ \E j \in DOMAIN list[u] : list'[u][i] = list[u][j]
    BY <1>0, <2>0, <2>m, Filed, Zenon DEF ManagerInv
  <2>c. Count(type[r], -1) \in [Types -> Int]
    BY <2>0 DEF ManagerInv, ManagerTypeOK, Count
  <2>3. ManagerTypeOK'
    <3>1. region_count' \in [Types -> Int]
      BY <2>0, <2>m, <2>c
    <3> QED BY <2>1, <2>m, <3>1 DEF ManagerInv, ManagerTypeOK
  <2>4. ASSUME status = "on"
        PROVE  ListedExist' /\ Counted' /\ HeldInUse'
    <3>0. r \in regions /\ regions' = regions \union {r}
      BY <1>0, <2>4, <2>m
    <3>1. \A u \in Types :
            /\ Cardinality(OfType(u)) \in Int
            /\ Cardinality(OfType(u)') =
                 IF u = to THEN Cardinality(OfType(u)) + 1
                 ELSE IF u = type[r] /\ r \in regions THEN Cardinality(OfType(u)) - 1
                 ELSE Cardinality(OfType(u))
      BY <1>0, <2>0, <2>m, <3>0, Recounted DEF ManagerInv
    <3>2. Cardinality(InUse') = Cardinality(InUse)
      BY <1>0, <2>0, <2>m, <3>0, Reused DEF ManagerInv, InUse
    <3>3. ASSUME NEW u \in Types
          PROVE  region_count'[u] = Cardinality(OfType(u)')
      <4>1. region_count'[u] = IF u = to THEN region_count[u] + 1
                               ELSE IF u = type[r] THEN region_count[u] - 1
                               ELSE region_count[u]
        BY <2>0, <2>c, <2>m DEF ManagerInv, ManagerTypeOK, Count
      <4>2. region_count[u] = Cardinality(OfType(u))
        BY <2>4 DEF ManagerInv, Booked, Counted
      <4> QED BY <2>0, <3>0, <3>1, <4>1, <4>2
    <3>4. Counted'
      BY <2>4, <2>m, <3>2, <3>3 DEF ManagerInv, Booked, Counted
    <3>5. ListedExist'
      BY <2>1, <2>4, <2>m, <3>0 DEF ManagerInv, Booked, ListedExist
    <3>6. \A q \in Region : type'[q] = IF q = r THEN to ELSE type[q]
      BY <2>m DEF ManagerInv, ManagerTypeOK
    <3>7. HeldInUse'
      BY <2>0, <2>4, <2>m, <3>6 DEF ManagerInv, Booked, HeldInUse
    <3> QED BY <3>4, <3>5, <3>7
  <2> QED BY <2>1, <2>3, <2>4, <2>m DEF ManagerInv, Booked
<1> QED BY <1>1, <1>2

\* An empty manager, as gc_init, a fault and the initial state leave it.
LEMMA FaultKeeps ==
  ASSUME Fault
  PROVE  ManagerInv'
<1>1. /\ regions' = {} /\ list' = [t \in Types |-> <<>>] /\ type' = [r \in Region |-> EMPTY]
      /\ region_count' = [t \in Types |-> 0] /\ used_size' = 0
      /\ age' = [r \in Region |-> 0] /\ holder' = [r \in Region |-> NULL] /\ status' = "fault"
  BY DEF Fault, gc_region_manager_init
<1>2. ManagerTypeOK'
  BY <1>1, GcRegionAssumption DEF ManagerTypeOK, Types
<1>3. Sorted'
  BY <1>1 DEF Sorted, IsInjective
<1> QED BY <1>1, <1>2, <1>3 DEF ManagerInv, Booked

\* gc_init keeps the invariant of the manager.
LEMMA InitKeeps ==
  ASSUME ManagerInv, gc_init
  PROVE  ManagerInv'
<1>1. /\ regions' = {} /\ list' = [t \in Types |-> <<>>] /\ type' = [r \in Region |-> EMPTY]
      /\ region_count' = [t \in Types |-> 0] /\ used_size' = 0
      /\ age' = [r \in Region |-> 0] /\ holder' = holder /\ status' = "on" /\ status = "off"
  BY DEF gc_init, gc_region_manager_init
<1>2. ManagerTypeOK'
  BY <1>1, GcRegionAssumption DEF ManagerTypeOK, Types
<1>3. Sorted'
  BY <1>1 DEF Sorted, IsInjective
<1>4. Counted' /\ ListedExist'
  <2>1. Cardinality({}) = 0
    BY FS_EmptySet
  <2>2. InUse' = {} /\ \A t \in Types : OfType(t)' = {}
    BY <1>1 DEF InUse, OfType
  <2>3. Counted'
    BY <1>1, <2>1, <2>2, Zenon DEF Counted
  <2>4. ListedExist'
    BY <1>1 DEF ListedExist
  <2> QED BY <2>3, <2>4
<1> QED BY <1>1, <1>2, <1>3, <1>4 DEF ManagerInv, Booked, HeldInUse

\* Most steps touch neither the manager nor what the clients hold.
LEMMA OthersKeep ==
  ASSUME ManagerInv, UNCHANGED <<manager, holder, status>>
  PROVE  ManagerInv'
<1> QED BY ZenonT(40) DEF ManagerInv, ManagerTypeOK, Sorted, Booked, ListedExist, Counted, HeldInUse,
                     OfType, InUse, manager

\* gc_region_age, but for the promotion.
LEMMA AgeKeeps ==
  ASSUME ManagerInv, UNCHANGED <<holder, status>>, NEW r \in Region, GrowOlder(r)
  PROVE  ManagerInv'
<1>1. age' \in [Region -> 0 .. AgeCap]
  <2>1. Older(r) \in 0 .. AgeCap
    BY GcRegionAssumption DEF ManagerInv, ManagerTypeOK, Older
  <2> QED BY <2>1 DEF ManagerInv, ManagerTypeOK, GrowOlder
<1>2. ManagerTypeOK'
  BY <1>1 DEF ManagerInv, ManagerTypeOK, GrowOlder
<1>3. UNCHANGED <<regions, list, region_count, used_size, type, holder, status>>
  BY DEF GrowOlder
<1> QED BY <1>2, <1>3, Zenon DEF ManagerInv, Sorted, Booked, ListedExist, Counted, HeldInUse,
                                 OfType, InUse

\* gc_shutdown leaves lists and counts as they are, without the regions.
LEMMA ShutdownKeeps ==
  ASSUME ManagerInv, NEW t \in Threads, gc_shutdown(t)
  PROVE  ManagerInv'
<1>1. CASE status = "off"
  BY <1>1, FaultKeeps DEF gc_shutdown
<1>2. CASE status # "off"
  <2>1. /\ regions' = {} /\ status' = "off" /\ holder' = [r \in Region |-> NULL]
        /\ UNCHANGED <<list, region_count, used_size, type, age>>
    BY <1>2 DEF gc_shutdown, gc_region_manager_shutdown
  <2>2. ManagerTypeOK' /\ Sorted'
    BY <2>1 DEF ManagerInv, ManagerTypeOK, Sorted
  <2> QED BY <2>1, <2>2 DEF ManagerInv, Booked
<1> QED BY <1>1, <1>2

\* Every step keeps the invariant of the manager.
LEMMA ManagerStep ==
  ASSUME ManagerInv, Next
  PROVE  ManagerInv'
<1>1. CASE gc_init
  BY <1>1, InitKeeps
<1>2. ASSUME NEW t \in Threads, Step(t) \/ WakeUp(t) PROVE ManagerInv'
  <2>1. CASE ShutdownLock(t) \/ ShutdownManager(t) \/ Lock(t) \/ EndOfPass(t) \/ AgeAstray(t)
             \/ Unlock(t) \/ Retest(t) \/ WakeUp(t)
    BY <2>1, OthersKeep
       DEF ShutdownLock, ShutdownManager, Lock, EndOfPass, AgeAstray, Unlock, Retest, WakeUp, gc
  <2>2. CASE gc_shutdown(t)
    BY <2>2, ShutdownKeeps
  <2>3. CASE gc_mark_region(t) \/ Advance(t) \/ gc_reclaim_regions(t)
    BY <2>3, FaultKeeps, OthersKeep DEF gc_mark_region, Advance, gc_reclaim_regions, gc
  <2>4. CASE gc_region_age(t)
    <3>1. at[t] \in regions => at[t] \in Region
      BY DEF ManagerInv, ManagerTypeOK
    <3> QED BY <2>4, <3>1, FaultKeeps, AgeKeeps DEF gc_region_age
  <2>5. CASE Promote(t)
    BY <2>5, FaultKeeps, PromoteKeeps DEF Promote
  <2> QED BY <1>2, <2>1, <2>2, <2>3, <2>4, <2>5 DEF Step
<1>3. ASSUME NEW t \in Threads, Call(t) PROVE ManagerInv'
  <2>1. CASE ShutdownCall(t) \/ gc_enable(t) \/ gc_disable(t) \/ Collect(t)
             \/ gc_check_threshold(t) \/ gc_collect_async(t) \/ gc_collect_wait(t)
    BY <2>1, OthersKeep
       DEF ShutdownCall, gc_enable, gc_disable, Switch, Collect, Enter, gc_check_threshold,
           gc_collect_async, gc_collect_wait, gc
  <2>2. ASSUME NEW r \in Region, ClientAlloc(t, r) PROVE ManagerInv'
    BY <2>2, AllocKeeps DEF ClientAlloc, gc
  <2>3. ASSUME NEW r \in Region, ClientFree(t, r) PROVE ManagerInv'
    BY <2>3, FreeKeeps, FaultKeeps DEF ClientFree, Holds, gc
  <2>4. ASSUME NEW r \in Region, ClientPromote(t, r) PROVE ManagerInv'
    BY <2>4, PromoteKeeps, FaultKeeps DEF ClientPromote, gc
  <2>5. ASSUME NEW r \in Region, ClientAge(t, r) PROVE ManagerInv'
    BY <2>5, OthersKeep DEF ClientAge, gc
  <2> QED BY <1>3, <2>1, <2>2, <2>3, <2>4, <2>5 DEF Call
<1> QED BY <1>1, <1>2, <1>3 DEF Next

\* What the runs check follows: a held region has another type than those of
\* the list of free ones.
LEMMA ManagerImplies == ManagerInv => RegionsFiled
<1> SUFFICES ASSUME ManagerInv PROVE RegionsFiled
  OBVIOUS
<1>1. CountsByType
  BY DEF ManagerInv, Booked, Counted, CountsByType, OfType, InUse
<1>2. ListedByType
  BY DEF ManagerInv, Sorted, ListedByType
<1>3. ASSUME NEW r \in Region, holder[r] # NULL, Contains(list[EMPTY], r) PROVE FALSE
  <2>1. EMPTY \in Types /\ list[EMPTY] \in Seq(Region)
    BY DEF ManagerInv, ManagerTypeOK, Types
  <2>2. PICK i \in 1 .. Len(list[EMPTY]) : list[EMPTY][i] = r
    BY <1>3 DEF Contains
  <2>3. type[r] = EMPTY
    BY <2>1, <2>2 DEF ManagerInv, Sorted
  <2> QED BY <1>3, <2>3 DEF ManagerInv, Booked, HeldInUse
<1> QED BY <1>1, <1>2, <1>3 DEF RegionsFiled, FreeUnheld

\* The books of the region manager are right in every reachable state, whoever
\* allocates, frees, ages and promotes at the same time: the counts are those of
\* the types, the lists those of their regions, and no free region has a client.
THEOREM RegionsAreFiled == Spec => []RegionsFiled
<1>1. Init => ManagerInv
  <2> SUFFICES ASSUME Init PROVE ManagerInv
    OBVIOUS
  <2>1. /\ regions = {} /\ list = [t \in Types |-> <<>>] /\ type = [r \in Region |-> EMPTY]
        /\ region_count = [t \in Types |-> 0] /\ used_size = 0 /\ status = "off"
        /\ age = [r \in Region |-> 0] /\ holder = [r \in Region |-> NULL]
    BY DEF Init, ManagerInit
  <2>2. ManagerTypeOK
    BY <2>1, GcRegionAssumption DEF ManagerTypeOK, Types
  <2>3. Sorted
    BY <2>1 DEF Sorted, IsInjective
  <2> QED BY <2>1, <2>2, <2>3 DEF ManagerInv, Booked
<1>2. ManagerInv /\ [Next]_vars => ManagerInv'
  BY ManagerStep, OthersKeep DEF vars, gc
<1> QED BY <1>1, <1>2, ManagerImplies, PTL DEF Spec

-----------------------------------------------------------------------------
(* The collector's lock and the write barrier.                             *)

\* What a step of a thread does to its own place, and to nobody else's.
LEMMA OthersStay ==
  ASSUME PcOfOp, NEW t \in Threads, NEW s \in Steps, Goto(t, s)
  PROVE  /\ pc' \in [Threads -> Steps]
         /\ \A u \in Threads : pc'[u] = IF u = t THEN s ELSE pc[u]
  BY DEF PcOfOp, Goto

SetOp(t, o) == op' = [op EXCEPT ![t] = o] \/ (op' = op /\ op[t] = o)

\* A thread that begins an operation leaves those of the others.
LEMMA OpOfOthers ==
  ASSUME PcOfOp, NEW t \in Threads, NEW o, SetOp(t, o)
  PROVE  /\ DOMAIN op' = Threads
         /\ \A u \in Threads : op'[u] = IF u = t THEN o ELSE op[u]
  BY DEF PcOfOp, SetOp

\* The walks go on inside the lock.
LEMMA WalkingKeeps ==
  ASSUME CollectorInv, NEW t \in Threads, op[t] \in Collections,
         NEW s \in {"mark", "age", "promote", "next", "reclaim", "stuck"}, Goto(t, s),
         Inside(t), pc[t] # "unlock",
         UNCHANGED <<op, concurrent_active, gc_lock, cleared>>
  PROVE  CollectorInv'
<1>1. s \in Steps
  BY DEF Steps
<1>2. /\ pc' \in [Threads -> Steps]
      /\ \A u \in Threads : pc'[u] = IF u = t THEN s ELSE pc[u]
  BY <1>1, OthersStay DEF CollectorInv
<1>3. PcOfOp'
  BY <1>2 DEF CollectorInv, PcOfOp
<1>4. LockKept'
  BY <1>2 DEF CollectorInv, LockKept, Inside
<1>5. BarrierOn'
  BY <1>2 DEF CollectorInv, BarrierOn, Inside, Collecting
<1> QED BY <1>3, <1>4, <1>5 DEF CollectorInv

\* A client's gc_region_age is outside the lock.
LEMMA AgeingKeeps ==
  ASSUME CollectorInv, NEW t \in Threads,
         NEW s \in {"idle", "age", "promote"}, Goto(t, s), NEW o,
         SetOp(t, o), s = "idle" \/ o = "gc_region_age",
         UNCHANGED <<concurrent_active, gc_lock, cleared>>
  PROVE  CollectorInv'
<1>1. s \in Steps
  BY DEF Steps
<1>2. /\ pc' \in [Threads -> Steps]
      /\ \A u \in Threads : pc'[u] = IF u = t THEN s ELSE pc[u]
  BY <1>1, OthersStay DEF CollectorInv
<1>3. /\ DOMAIN op' = Threads
      /\ \A u \in Threads : op'[u] = IF u = t THEN o ELSE op[u]
  BY OpOfOthers DEF CollectorInv
<1>4. PcOfOp'
  BY <1>2, <1>3 DEF CollectorInv, PcOfOp
<1>5. LockKept'
  BY <1>2, <1>3 DEF CollectorInv, LockKept, Inside, Collections
<1>6. BarrierOn'
  BY <1>2, <1>3 DEF CollectorInv, BarrierOn, Collecting
<1> QED BY <1>4, <1>5, <1>6 DEF CollectorInv

\* gc_shutdown and gc_collect_wait are what the history variable is about.
LEMMA ClearedKeeps ==
  ASSUME CollectorInv, cleared', NEW t \in Threads, NEW s \in Steps, Goto(t, s), NEW o,
         SetOp(t, o),
         \/ s \in {"cond", "retest"} /\ o = "gc_collect_wait"
         \/ s \in {"sd_lock", "sd_manager", "sd_regions"} /\ o = "gc_shutdown"
         \/ s = "idle"
  PROVE  CollectorInv'
<1>2. /\ pc' \in [Threads -> Steps]
      /\ \A u \in Threads : pc'[u] = IF u = t THEN s ELSE pc[u]
  BY OthersStay DEF CollectorInv
<1>3. /\ DOMAIN op' = Threads
      /\ \A u \in Threads : op'[u] = IF u = t THEN o ELSE op[u]
  BY OpOfOthers DEF CollectorInv
<1>4. PcOfOp'
  BY <1>2, <1>3 DEF CollectorInv, PcOfOp
<1> QED BY <1>4 DEF CollectorInv, LockKept, BarrierOn

\* A state in which every thread is outside: gc_init and a fault.
LEMMA IdleKeeps ==
  ASSUME pc' = [t \in Threads |-> "idle"], DOMAIN op' = Threads
  PROVE  CollectorInv'
  BY DEF CollectorInv, PcOfOp, LockKept, BarrierOn, Inside, Collecting, Steps

\* A step that leaves the lock alone keeps the invariant of the collector.
LEMMA QuietKeeps ==
  ASSUME CollectorInv, UNCHANGED <<pc, op, concurrent_active, gc_lock, cleared>>
  PROVE  CollectorInv'
  BY DEF CollectorInv, PcOfOp, LockKept, BarrierOn, Inside, Collecting

\* A thread waits for the lock.
LEMMA EnterKeeps ==
  ASSUME CollectorInv, NEW t \in Threads, NEW name \in Collections, Enter(t, name)
  PROVE  CollectorInv'
<1>1. "lock" \in Steps /\ Goto(t, "lock") /\ op' = [op EXCEPT ![t] = name]
      /\ UNCHANGED <<concurrent_active, gc_lock, cleared>>
  BY DEF Steps, Enter, gc
<1>2. /\ pc' \in [Threads -> Steps]
      /\ \A u \in Threads : pc'[u] = IF u = t THEN "lock" ELSE pc[u]
  BY <1>1, OthersStay DEF CollectorInv
<1>3. /\ DOMAIN op' = Threads
      /\ \A u \in Threads : op'[u] = IF u = t THEN name ELSE op[u]
  BY <1>1, OpOfOthers DEF CollectorInv, SetOp
<1>4. PcOfOp'
  BY <1>2, <1>3 DEF CollectorInv, PcOfOp
<1>5. LockKept'
  BY <1>1, <1>2, <1>3 DEF CollectorInv, LockKept, Inside
<1>6. BarrierOn'
  BY <1>1, <1>2, <1>3 DEF CollectorInv, BarrierOn, Collecting
<1> QED BY <1>4, <1>5, <1>6 DEF CollectorInv

\* The lock was free, so no other thread was inside.
LEMMA LockKeeps ==
  ASSUME CollectorInv, NEW t \in Threads, Lock(t)
  PROVE  CollectorInv'
<1>1. PICK s \in {"mark", "age"} : Goto(t, s)
  BY DEF Lock, BeginPass
<1>2. /\ pc[t] = "lock" /\ gc_lock = NULL /\ gc_lock' = t /\ UNCHANGED <<op, cleared>>
      /\ concurrent_active' = (concurrent_active \/ op[t] = "gc_collect")
  BY DEF Lock, At
<1>3. s \in Steps /\ op[t] \in Collections
  BY <1>2 DEF Steps, CollectorInv, PcOfOp
<1>4. /\ pc' \in [Threads -> Steps]
      /\ \A u \in Threads : pc'[u] = IF u = t THEN s ELSE pc[u]
  BY <1>1, <1>3, OthersStay DEF CollectorInv
<1>5. PcOfOp'
  BY <1>1, <1>2, <1>3, <1>4 DEF CollectorInv, PcOfOp
<1>6. ASSUME ~cleared, NEW u \in Threads, u # t PROVE ~Inside(u)
  BY <1>2, <1>6, GcAssumption DEF CollectorInv, LockKept
<1>7. LockKept'
  BY <1>1, <1>2, <1>4, <1>6 DEF CollectorInv, LockKept, Inside
<1>8. BarrierOn'
  BY <1>1, <1>2, <1>4, <1>6 DEF CollectorInv, BarrierOn, Inside, Collecting
<1> QED BY <1>5, <1>7, <1>8 DEF CollectorInv

\* The barrier goes off after the last walk, with the lock held ...
LEMMA ReclaimKeeps ==
  ASSUME CollectorInv, NEW t \in Threads, gc_reclaim_regions(t)
  PROVE  CollectorInv'
<1>0. CASE list[OLD] # <<>>
  BY <1>0, IdleKeeps DEF gc_reclaim_regions, Fault
<1>1. CASE list[OLD] = <<>>
  <2>1. /\ pc[t] = "reclaim" /\ Goto(t, "unlock") /\ UNCHANGED <<gc_lock, op, cleared>>
        /\ concurrent_active' = (concurrent_active /\ op[t] # "gc_collect")
    BY <1>1 DEF gc_reclaim_regions, At
  <2>2. "unlock" \in Steps /\ op[t] \in Collections
    BY <2>1 DEF Steps, CollectorInv, PcOfOp
  <2>3. /\ pc' \in [Threads -> Steps]
        /\ \A u \in Threads : pc'[u] = IF u = t THEN "unlock" ELSE pc[u]
    BY <2>1, <2>2, OthersStay DEF CollectorInv
  <2>4. PcOfOp'
    BY <2>1, <2>2, <2>3 DEF CollectorInv, PcOfOp
  <2>5. LockKept'
    BY <2>1, <2>2, <2>3 DEF CollectorInv, LockKept, Inside
  <2>6. ASSUME ~cleared, NEW u \in Threads, u # t PROVE ~Inside(u)
    BY <2>1, <2>2, <2>6 DEF CollectorInv, LockKept, Inside
  <2>7. BarrierOn'
    BY <2>1, <2>3, <2>6 DEF CollectorInv, BarrierOn, Inside, Collecting
  <2> QED BY <2>4, <2>5, <2>7 DEF CollectorInv
<1> QED BY <1>0, <1>1

\* ... and the lock is released by the thread that has it.
LEMMA UnlockKeeps ==
  ASSUME CollectorInv, NEW t \in Threads, Unlock(t)
  PROVE  CollectorInv'
<1>1. /\ pc[t] = "unlock" /\ Goto(t, "idle") /\ op' = [op EXCEPT ![t] = NULL]
      /\ UNCHANGED <<concurrent_active, cleared>>
  BY DEF Unlock, At, Return
<1>2. "idle" \in Steps /\ op[t] \in Collections
  BY <1>1 DEF Steps, CollectorInv, PcOfOp
<1>3. /\ pc' \in [Threads -> Steps]
      /\ \A u \in Threads : pc'[u] = IF u = t THEN "idle" ELSE pc[u]
  BY <1>1, <1>2, OthersStay DEF CollectorInv
<1>4. /\ DOMAIN op' = Threads
      /\ \A u \in Threads : op'[u] = IF u = t THEN NULL ELSE op[u]
  BY <1>1, OpOfOthers DEF CollectorInv, SetOp
<1>5. PcOfOp'
  BY <1>3, <1>4 DEF CollectorInv, PcOfOp
<1>6. ASSUME ~cleared, NEW u \in Threads, u # t PROVE ~Inside(u)
  BY <1>1, <1>2, <1>6 DEF CollectorInv, LockKept, Inside
<1>7. LockKept'
  BY <1>1, <1>3, <1>4, <1>6 DEF CollectorInv, LockKept, Inside
<1>8. BarrierOn'
  BY <1>1, <1>3, <1>4 DEF CollectorInv, BarrierOn, Collecting
<1> QED BY <1>5, <1>7, <1>8 DEF CollectorInv

\* The walk of a collection, and a client's gc_region_age.
LEMMA WalkStep ==
  ASSUME CollectorInv, NEW t \in Threads,
         EndOfPass(t) \/ gc_mark_region(t) \/ AgeAstray(t) \/ gc_region_age(t)
         \/ Promote(t) \/ Advance(t)
  PROVE  CollectorInv'
<1>0. ASSUME Fault PROVE CollectorInv'
  BY <1>0, IdleKeeps DEF Fault
<1>1. pc[t] \in {"mark", "age", "promote", "next"}
  BY DEF EndOfPass, gc_mark_region, AgeAstray, gc_region_age, Promote, Advance, At
<1>2. UNCHANGED <<concurrent_active, gc_lock, cleared>> \/ Fault
  BY DEF EndOfPass, gc_mark_region, AgeAstray, gc_region_age, Promote, Advance, gc
<1>3. CASE op[t] \in Collections
  <2>1. Inside(t) /\ pc[t] # "unlock" /\ op[t] # "gc_region_age"
    BY <1>1, <1>3 DEF Inside, Collections
  <2>2. \/ Fault
        \/ /\ UNCHANGED op
           /\ \E s \in {"mark", "age", "promote", "next", "reclaim", "stuck"} : Goto(t, s)
    <3>1. CASE EndOfPass(t)
      BY <3>1 DEF EndOfPass, BeginPass
    <3>2. CASE gc_mark_region(t)
      BY <3>2 DEF gc_mark_region
    <3>3. CASE AgeAstray(t)
      BY <3>3 DEF AgeAstray
    <3>4. CASE gc_region_age(t)
      BY <2>1, <3>4 DEF gc_region_age, AgeDone
    <3>5. CASE Promote(t)
      BY <2>1, <3>5 DEF Promote, AgeDone
    <3>6. CASE Advance(t)
      BY <3>6 DEF Advance
    <3> QED BY <3>1, <3>2, <3>3, <3>4, <3>5, <3>6
  <2> QED BY <1>0, <1>2, <1>3, <2>1, <2>2, WalkingKeeps
<1>4. CASE op[t] \notin Collections
  <2>1. pc[t] \in {"age", "promote"} /\ op[t] = "gc_region_age"
    BY <1>1, <1>4 DEF CollectorInv, PcOfOp
  <2>2. gc_region_age(t) \/ Promote(t)
    BY <1>4, <2>1 DEF EndOfPass, gc_mark_region, AgeAstray, Advance, At
  <2>3. \/ Fault
        \/ \E s \in {"idle", "age", "promote"}, o \in {NULL, "gc_region_age"} :
             /\ Goto(t, s) /\ SetOp(t, o)
             /\ s = "idle" \/ o = "gc_region_age"
    BY <2>1, <2>2 DEF gc_region_age, Promote, AgeDone, Return, SetOp
  <2> QED BY <1>0, <1>2, <2>3, AgeingKeeps
<1> QED BY <1>3, <1>4

\* Every step keeps the invariant of the collector.
LEMMA CollectorStep ==
  ASSUME CollectorInv, Next
  PROVE  CollectorInv'
<1>0. ASSUME Fault PROVE CollectorInv'
  BY <1>0, IdleKeeps DEF Fault
<1>1. CASE gc_init
  <2>1. pc = [t \in Threads |-> "idle"]
    BY <1>1 DEF gc_init, CollectorInv, PcOfOp
  <2> QED BY <1>1, <2>1, IdleKeeps DEF gc_init, thread, CollectorInv, PcOfOp
<1>2. ASSUME NEW t \in Threads, Step(t) \/ WakeUp(t) PROVE CollectorInv'
  <2>1. CASE EndOfPass(t) \/ gc_mark_region(t) \/ AgeAstray(t) \/ gc_region_age(t)
             \/ Promote(t) \/ Advance(t)
    BY <2>1, WalkStep
  <2>2. CASE Lock(t)
    BY <2>2, LockKeeps
  <2>3. CASE gc_reclaim_regions(t)
    BY <2>3, ReclaimKeeps
  <2>4. CASE Unlock(t)
    BY <2>4, UnlockKeeps
  <2>5. CASE ShutdownLock(t) \/ ShutdownManager(t) \/ gc_shutdown(t) \/ WakeUp(t) \/ Retest(t)
    <3>1. pc[t] \in {"sd_lock", "sd_manager", "sd_regions", "cond", "retest"}
      BY <2>5 DEF ShutdownLock, ShutdownManager, gc_shutdown, WakeUp, Retest, At
    <3>2. cleared
      BY <3>1 DEF CollectorInv, LockKept
    <3>3. CASE ShutdownLock(t) \/ ShutdownManager(t)
      <4>1. SetOp(t, "gc_shutdown")
        BY <3>3 DEF ShutdownLock, ShutdownManager, At, CollectorInv, PcOfOp, SetOp
      <4> QED BY <3>2, <3>3, <4>1, ClearedKeeps DEF ShutdownLock, ShutdownManager, Steps
    <3>4. CASE gc_shutdown(t)
      BY <1>0, <3>2, <3>4, ClearedKeeps DEF gc_shutdown, Return, Steps, SetOp
    <3>5. CASE WakeUp(t)
      <4>1. SetOp(t, "gc_collect_wait")
        BY <3>5 DEF WakeUp, At, CollectorInv, PcOfOp, SetOp
      <4> QED BY <3>2, <3>5, <4>1, ClearedKeeps DEF WakeUp, Steps
    <3>6. CASE Retest(t)
      <4>1. op[t] = "gc_collect_wait"
        BY <3>6 DEF Retest, At, CollectorInv, PcOfOp
      <4> QED BY <3>2, <3>6, <4>1, ClearedKeeps DEF Retest, Return, Steps, SetOp
    <3> QED BY <2>5, <3>3, <3>4, <3>5, <3>6
  <2> QED BY <1>2, <2>1, <2>2, <2>3, <2>4, <2>5 DEF Step
<1>3. ASSUME NEW t \in Threads, Call(t) PROVE CollectorInv'
  <2>1. CASE ShutdownCall(t) \/ gc_collect_wait(t)
    BY <2>1, ClearedKeeps DEF ShutdownCall, gc_collect_wait, Steps, SetOp
  <2>2. CASE gc_enable(t) \/ gc_disable(t)
    BY <2>2, QuietKeeps DEF gc_enable, gc_disable, Switch, thread
  <2>3. CASE Collect(t) \/ gc_check_threshold(t)
    BY <2>3, EnterKeeps DEF Collect, gc_check_threshold, Collections
  <2>4. CASE gc_collect_async(t)
    BY <2>4 DEF gc_collect_async, thread, CollectorInv, PcOfOp, LockKept, BarrierOn, Inside, Collecting
  <2>5. ASSUME NEW r \in Region, ClientAlloc(t, r) \/ ClientFree(t, r) \/ ClientPromote(t, r)
        PROVE  CollectorInv'
    BY <1>0, <2>5, QuietKeeps DEF ClientAlloc, ClientFree, ClientPromote, gc, thread
  <2>6. ASSUME NEW r \in Region, ClientAge(t, r) PROVE CollectorInv'
    BY <2>6, AgeingKeeps DEF ClientAge, gc, SetOp
  <2> QED BY <1>3, <2>1, <2>2, <2>3, <2>4, <2>5, <2>6 DEF Call
<1> QED BY <1>1, <1>2, <1>3 DEF Next

\* At most one collection walks the regions at a time and the write barrier is
\* on while gc_collect does, in every reachable state that no gc_shutdown and no
\* gc_collect_wait has come before.
THEOREM OneCollectorOnly == Spec => []OneCollector
<1>1. Init => CollectorInv
  BY DEF Init, CollectorInv, PcOfOp, LockKept, BarrierOn, Inside, Collecting, Steps
<1>2. CollectorInv /\ [Next]_vars => CollectorInv'
  BY CollectorStep, QuietKeeps DEF vars, gc, thread
<1>3. CollectorInv => OneCollector
  BY DEF CollectorInv, LockKept, BarrierOn, Inside, Collecting, OneCollector
<1> QED BY <1>1, <1>2, <1>3, PTL DEF Spec

-----------------------------------------------------------------------------
(* The address space of the large pages.                                   *)

PageSizes == {0, Page, TwoMB, OneGB}

\* The kernel's page that p is in goes on after p.
GoesOn(map, p) == map[p] > 0 /\ (p + 1) % map[p] # 0

\* The kernel's pages are mapped from end to end.
WholePages(map) ==
  /\ map \in [Huge!Addresses -> PageSizes]
  /\ \A p \in Huge!Addresses : Huge!Splits(map, p) => p - 1 \in Huge!Addresses /\ map[p - 1] = map[p]
  /\ \A p \in Huge!Addresses : GoesOn(map, p) => p + 1 \in Huge!Addresses /\ map[p + 1] = map[p]

\* What is assumed of the constants.
LEMMA HugeConstants ==
  /\ Page \in Nat \ {0} /\ TwoMB \in Nat /\ TwoMB > Page /\ TwoMB % Page = 0
  /\ OneGB \in Nat /\ OneGB > TwoMB /\ OneGB % TwoMB = 0
  /\ Space \in Nat /\ Sizes \subseteq Nat \ {0}
  /\ MaxHeld \in Nat /\ MaxReserved \in Nat /\ NoCaller \notin Callers
  BY HugeAssumption DEF Huge!ConstantsOK

\* What of a mapping was changed is in the range, and no more.
LEMMA MappedAt ==
  ASSUME NEW map \in [Huge!Addresses -> PageSizes], NEW a \in Int, NEW n \in Int, NEW v \in PageSizes
  PROVE  /\ Huge!Mapped(map, Huge!Block(a, n), v) \in [Huge!Addresses -> PageSizes]
         /\ \A p \in Huge!Addresses :
              Huge!Mapped(map, Huge!Block(a, n), v)[p] = IF a <= p /\ p < a + n THEN v ELSE map[p]
  BY HugeConstants DEF Huge!Mapped, Huge!Block, Huge!Addresses

\* A range that cuts no page leaves the pages around it whole.
LEMMA UnmapWhole ==
  ASSUME NEW map, WholePages(map), NEW a \in Int, NEW n \in Int,
         ~Huge!Splits(map, a), ~Huge!Splits(map, a + n)
  PROVE  WholePages(Huge!Mapped(map, Huge!Block(a, n), 0))
<1>0. HugeConstants
  BY HugeConstants
<1>1. PICK m : m = Huge!Mapped(map, Huge!Block(a, n), 0)
  OBVIOUS
<1>2. /\ m \in [Huge!Addresses -> PageSizes]
      /\ \A p \in Huge!Addresses : m[p] = IF a <= p /\ p < a + n THEN 0 ELSE map[p]
  BY <1>1, MappedAt DEF WholePages, PageSizes
<1>3. ASSUME NEW p \in Huge!Addresses, Huge!Splits(m, p) PROVE p - 1 \in Huge!Addresses /\ m[p - 1] = m[p]
  <2>1. ~(a <= p /\ p < a + n) /\ m[p] = map[p] /\ Huge!Splits(map, p)
    BY <1>2, <1>3 DEF Huge!Splits
  <2>2. p - 1 \in Huge!Addresses /\ map[p - 1] = map[p]
    BY <2>1 DEF WholePages
  <2>3. p # a + n
    BY <2>1
  <2>4. ~(a <= p - 1 /\ p - 1 < a + n)
    BY <2>1, <2>3 DEF Huge!Addresses
  <2> QED BY <1>2, <2>1, <2>2, <2>4
<1>4. ASSUME NEW p \in Huge!Addresses, GoesOn(m, p) PROVE p + 1 \in Huge!Addresses /\ m[p + 1] = m[p]
  <2>1. ~(a <= p /\ p < a + n) /\ m[p] = map[p] /\ GoesOn(map, p)
    BY <1>2, <1>4 DEF GoesOn
  <2>2. p + 1 \in Huge!Addresses /\ map[p + 1] = map[p]
    BY <2>1 DEF WholePages
  <2>3. Huge!Splits(map, p + 1)
    BY <2>1, <2>2 DEF Huge!Splits, GoesOn
  <2>4. ~(a <= p + 1 /\ p + 1 < a + n)
    BY <2>1, <2>3 DEF Huge!Addresses
  <2> QED BY <1>2, <2>1, <2>2, <2>4
<1> QED BY <1>1, <1>2, <1>3, <1>4 DEF WholePages

\* Nothing is mapped in a range of the address space.
Free(map, a, n) == \A p \in Huge!Block(a, n) : p \in Huge!Addresses /\ map[p] = 0

\* What is mapped into a free range is whole if it begins and ends with a page.
LEMMA MapWhole ==
  ASSUME NEW map, WholePages(map), NEW a \in Int, NEW n \in Int, NEW page \in PageSizes,
         Free(map, a, n), page > 0 => a % page = 0 /\ (a + n) % page = 0
  PROVE  WholePages(Huge!Mapped(map, Huge!Block(a, n), page))
<1>1. PICK m : m = Huge!Mapped(map, Huge!Block(a, n), page)
  OBVIOUS
<1>2. /\ m \in [Huge!Addresses -> PageSizes]
      /\ \A p \in Huge!Addresses : m[p] = IF a <= p /\ p < a + n THEN page ELSE map[p]
  BY <1>1, MappedAt DEF WholePages
<1>0. \A p \in Int : a <= p /\ p < a + n => p \in Huge!Addresses /\ map[p] = 0
  BY DEF Free, Huge!Block
<1>3. ASSUME NEW p \in Huge!Addresses, Huge!Splits(m, p) PROVE p - 1 \in Huge!Addresses /\ m[p - 1] = m[p]
  <2>1. CASE a <= p /\ p < a + n
    <3>1. m[p] = page /\ page > 0 /\ p % page # 0
      BY <1>2, <1>3, <2>1 DEF Huge!Splits
    <3>2. a <= p - 1 /\ p - 1 < a + n
      BY <2>1, <3>1 DEF Huge!Addresses
    <3> QED BY <1>0, <1>2, <3>1, <3>2 DEF Huge!Addresses
  <2>2. CASE ~(a <= p /\ p < a + n)
    <3>1. m[p] = map[p] /\ Huge!Splits(map, p)
      BY <1>2, <1>3, <2>2 DEF Huge!Splits
    <3>2. p - 1 \in Huge!Addresses /\ map[p - 1] = map[p] /\ map[p] > 0
      BY <3>1 DEF WholePages, Huge!Splits
    <3>3. ~(a <= p - 1 /\ p - 1 < a + n)
      BY <1>0, <3>2 DEF Huge!Addresses
    <3> QED BY <1>2, <3>1, <3>2, <3>3
  <2> QED BY <2>1, <2>2
<1>4. ASSUME NEW p \in Huge!Addresses, GoesOn(m, p) PROVE p + 1 \in Huge!Addresses /\ m[p + 1] = m[p]
  <2>1. CASE a <= p /\ p < a + n
    <3>1. m[p] = page /\ page > 0 /\ (p + 1) % page # 0
      BY <1>2, <1>4, <2>1 DEF GoesOn
    <3>2. p + 1 # a + n
      BY <3>1
    <3>3. a <= p + 1 /\ p + 1 < a + n
      BY <2>1, <3>2 DEF Huge!Addresses
    <3> QED BY <1>0, <1>2, <3>1, <3>3 DEF Huge!Addresses
  <2>2. CASE ~(a <= p /\ p < a + n)
    <3>1. m[p] = map[p] /\ GoesOn(map, p)
      BY <1>2, <1>4, <2>2 DEF GoesOn
    <3>2. p + 1 \in Huge!Addresses /\ map[p + 1] = map[p] /\ map[p] > 0
      BY <3>1 DEF WholePages, GoesOn
    <3>3. ~(a <= p + 1 /\ p + 1 < a + n)
      BY <1>0, <3>2 DEF Huge!Addresses
    <3> QED BY <1>2, <3>1, <3>2, <3>3
  <2> QED BY <2>1, <2>2
<1> QED BY <1>1, <1>2, <1>3, <1>4 DEF WholePages

-----------------------------------------------------------------------------
(* The lengths: what is rounded up.                                        *)

\* A multiple of a page further on, a page begins or ends as well.
LEMMA MultipleOn ==
  ASSUME NEW page \in Nat \ {0}, NEW a \in Int, a % page = 0, NEW n \in Int
  PROVE  (a + n * page) % page = 0
<1>1. PICK d : d = a \div page
  OBVIOUS
<1>2. d \in Int /\ a = page * d
  BY <1>1
<1>3. d + n \in Int /\ a + n * page = page * (d + n) + 0 /\ a + n * page \in Int /\ 0 \in 0 .. page - 1
  BY <1>2
<1> QED BY <1>3, Remainder

\* What is a multiple of a large page is one of a page that divides it.
LEMMA MultipleOfPage ==
  ASSUME NEW page \in Nat \ {0}, NEW large \in Nat \ {0}, large % page = 0, NEW a \in Int, a % large = 0
  PROVE  a % page = 0
<1>1. PICK d : d = a \div large
  OBVIOUS
<1>2. PICK e : e = large \div page
  OBVIOUS
<1>3. d \in Int /\ a = large * d /\ e \in Int /\ large = page * e
  BY <1>1, <1>2
<1>4. PICK z : z = e * d
  OBVIOUS
<1>5. z \in Int /\ (page * e) * d = page * z
  BY <1>3, <1>4
<1>6. a = page * z + 0 /\ 0 \in 0 .. page - 1
  BY <1>3, <1>5
<1> QED BY <1>5, <1>6, Remainder

\* Sums and differences of multiples are multiples.
LEMMA MultiplesAdd ==
  ASSUME NEW page \in Nat \ {0}, NEW a \in Int, NEW b \in Int, a % page = 0, b % page = 0
  PROVE  (a + b) % page = 0 /\ (a - b) % page = 0
<1>1. PICK d : d = a \div page
  OBVIOUS
<1>2. PICK e : e = b \div page
  OBVIOUS
<1>3. d \in Int /\ a = page * d /\ e \in Int /\ b = page * e
  BY <1>1, <1>2
<1>4. d + e \in Int /\ a + b = page * (d + e) + 0 /\ a + b \in Int /\ 0 \in 0 .. page - 1
  BY <1>3
<1>5. d - e \in Int /\ a - b = page * (d - e) + 0 /\ a - b \in Int
  BY <1>3
<1>6. (a + b) % page = 0
  BY <1>4, Remainder
<1>7. (a - b) % page = 0
  <2>1. PICK x : x = a - b
    OBVIOUS
  <2>2. PICK z : z = d - e
    OBVIOUS
  <2>3. x \in Int /\ z \in Int /\ x = page * z + 0 /\ 0 \in 0 .. page - 1
    BY <1>4, <1>5, <2>1, <2>2
  <2>4. x % page = 0
    BY <2>3, Remainder
  <2> QED BY <2>1, <2>4
<1> QED BY <1>6, <1>7

\* Two multiples that are less than a page apart are the same.
LEMMA MultiplesApart ==
  ASSUME NEW page \in Nat \ {0}, NEW a \in Int, NEW b \in Int, a % page = 0, b % page = 0,
         a < b + page, b < a + page
  PROVE  a = b
<1>1. PICK d : d = a - b
  OBVIOUS
<1>2. d \in Int /\ d % page = 0 /\ d < page /\ -d < page
  BY <1>1, MultiplesAdd
<1>3. PICK q : q = d \div page
  OBVIOUS
<1>4. q \in Int /\ d = page * q
  BY <1>2, <1>3
<1>5. q < 1
  <2> SUFFICES ASSUME q >= 1 PROVE FALSE
    BY <1>4
  <2>1. page * (q - 1) >= 0 /\ page * (q - 1) = page * q - page
    BY <1>4
  <2> QED BY <1>2, <1>4, <2>1
<1>6. q > -1
  <2> SUFFICES ASSUME q <= -1 PROVE FALSE
    BY <1>4
  <2>1. page * (q + 1) <= 0 /\ page * (q + 1) = page * q + page
    BY <1>4
  <2> QED BY <1>2, <1>4, <2>1
<1>7. q = 0
  BY <1>4, <1>5, <1>6
<1> QED BY <1>1, <1>4, <1>7

\* hugepage_round_up gives the next multiple.
LEMMA RoundUp ==
  ASSUME NEW size \in Nat, NEW page \in Nat \ {0}
  PROVE  /\ Huge!hugepage_round_up(size, page) \in size .. size + page - 1
         /\ Huge!hugepage_round_up(size, page) % page = 0
         /\ Huge!hugepage_num_pages_needed(size, page) \in Nat
         /\ Huge!hugepage_num_pages_needed(size, page) * page = Huge!hugepage_round_up(size, page)
<1>1. PICK d : d = (size + page - 1) \div page
  OBVIOUS
<1>2. PICK r : r = (size + page - 1) % page
  OBVIOUS
<1>3. d \in Nat /\ r \in 0 .. page - 1 /\ size + page - 1 = page * d + r
  BY <1>1, <1>2
<1>4. PICK u : u = d * page
  OBVIOUS
<1>5. u \in size .. size + page - 1
  BY <1>3, <1>4
<1>6. u % page = 0
  <2>1. 0 + d * page = u /\ 0 % page = 0
    BY <1>3, <1>4
  <2> QED BY <2>1, <1>3, MultipleOn, SMTT(40)
<1>7. u \div page = d
  BY <1>3, <1>4, <1>5, <1>6
<1>8. Huge!hugepage_round_up(size, page) = u
  BY <1>1, <1>4 DEF Huge!hugepage_round_up
<1>9. Huge!hugepage_num_pages_needed(size, page) = d
  BY <1>7, <1>8 DEF Huge!hugepage_num_pages_needed
<1> QED BY <1>3, <1>4, <1>5, <1>6, <1>8, <1>9

\* A length in pages, and the next ones.
LEMMA InPages ==
  ASSUME NEW n \in Nat
  PROVE  /\ Huge!InPages(n) \in n .. n + Page - 1 /\ Huge!InPages(n) % Page = 0
         /\ n % Page = 0 => Huge!InPages(n) = n
         /\ \A k \in Nat : k % Page = 0 => Huge!InPages(n + k) = Huge!InPages(n) + k
<1>0. Page \in Nat \ {0}
  BY HugeConstants
<1>1. \A k \in Nat : Huge!InPages(k) = Huge!hugepage_round_up(k, Page)
  BY DEF Huge!InPages, Huge!align_up
<1>2. \A k \in Nat : Huge!InPages(k) \in k .. k + Page - 1 /\ Huge!InPages(k) % Page = 0
  BY <1>0, <1>1, RoundUp
<1>3. PICK u : u = Huge!InPages(n)
  OBVIOUS
<1>4. u \in n .. n + Page - 1 /\ u % Page = 0
  BY <1>2, <1>3
<1>5. ASSUME n % Page = 0 PROVE u = n
  <2>1. u \in Int /\ n \in Int /\ u < n + Page /\ n < u + Page
    BY <1>0, <1>4
  <2> QED BY <1>0, <1>4, <1>5, <2>1, MultiplesApart, Zenon
<1>6. ASSUME NEW k \in Nat, k % Page = 0 PROVE Huge!InPages(n + k) = u + k
  <2>1. PICK v : v = Huge!InPages(n + k)
    OBVIOUS
  <2>2. n + k \in Nat
    BY <1>0
  <2>3. v \in n + k .. n + k + Page - 1 /\ v % Page = 0
    BY <1>2, <2>1, <2>2
  <2>4. (u + k) % Page = 0
    <3>1. u \in Int /\ k \in Int
      BY <1>0, <1>4
    <3> QED BY <1>0, <1>4, <1>6, <3>1, MultiplesAdd, Zenon
  <2>5. u + k \in Int /\ v \in Int /\ u + k < v + Page /\ v < u + k + Page
    BY <1>0, <1>4, <2>3
  <2>6. v = u + k
    BY <1>0, <2>3, <2>4, <2>5, MultiplesApart
  <2> QED BY <2>1, <2>6
<1> QED BY <1>3, <1>4, <1>5, <1>6

\* munmap keeps the kernel's pages whole, whatever it is asked for.
LEMMA MunmapWhole ==
  ASSUME NEW map, WholePages(map), NEW a \in Int, NEW n \in Nat
  PROVE  WholePages(Huge!munmap(map, a, n))
<1>1. PICK m : m = Huge!InPages(n)
  OBVIOUS
<1>2. m \in Int
  BY <1>1, InPages, HugeConstants
<1> QED BY <1>1, <1>2, UnmapWhole DEF Huge!munmap

\* The length that hugepage_alloc gives a block.
PageOf(size) == IF Huge!hugepage_align_size(size) >= OneGB THEN OneGB ELSE TwoMB
LengthOf(size) == Huge!hugepage_round_up(size, PageOf(size))

\* hugepage_align_size, which a free rounds with, gives a length, and that of
\* hugepage_alloc from 2 MB on.
LEMMA AlignedSize ==
  ASSUME NEW size \in Nat
  PROVE  /\ Huge!hugepage_align_size(size) \in Nat
         /\ size >= TwoMB => Huge!hugepage_align_size(size) = LengthOf(size)
<1>0. TwoMB \in Nat \ {0} /\ OneGB \in Nat \ {0} /\ OneGB > TwoMB /\ OneGB % TwoMB = 0
  BY HugeConstants
<1>1. PICK m : m = Huge!hugepage_round_up(size, TwoMB)
  OBVIOUS
<1>2. PICK g : g = Huge!hugepage_round_up(size, OneGB)
  OBVIOUS
<1>3. m \in size .. size + TwoMB - 1 /\ m % TwoMB = 0 /\ g \in size .. size + OneGB - 1 /\ g % OneGB = 0
  BY <1>0, <1>1, <1>2, RoundUp
<1>4. PICK s : s = Huge!hugepage_align_size(size)
  OBVIOUS
<1>5. s = IF size >= OneGB THEN g ELSE IF size >= TwoMB THEN m ELSE size
  BY <1>1, <1>2, <1>4 DEF Huge!hugepage_align_size
<1>6. LengthOf(size) = IF s >= OneGB THEN g ELSE m
  BY <1>1, <1>2, <1>4 DEF LengthOf, PageOf
<1>7. ASSUME size >= TwoMB, size < OneGB, m >= OneGB PROVE g = m
  <2>1. m <= OneGB
    <3>1. PICK d : d = OneGB \div TwoMB
      OBVIOUS
    <3>2. d \in Nat /\ OneGB = TwoMB * d
      BY <1>0, <3>1
    <3>3. PICK e : e = m \div TwoMB
      OBVIOUS
    <3>4. e \in Int /\ m = TwoMB * e
      BY <1>0, <1>3, <3>3
    <3>5. TwoMB * (e - d) = TwoMB * e - TwoMB * d
      BY <1>0, <3>2, <3>4
    <3>6. TwoMB * (e - d) < TwoMB
      BY <1>0, <1>3, <1>7, <3>2, <3>4, <3>5
    <3>7. e - d <= 0
      <4>1. PICK z : z = e - d
        OBVIOUS
      <4>2. z \in Int /\ TwoMB * z < TwoMB
        BY <3>2, <3>4, <3>6, <4>1
      <4>3. ~(z >= 1)
        <5> SUFFICES ASSUME z >= 1 PROVE FALSE
          OBVIOUS
        <5>1. TwoMB * (z - 1) >= 0
          BY <1>0, <4>2
        <5>2. TwoMB * (z - 1) = TwoMB * z - TwoMB
          BY <1>0, <4>2
        <5> QED BY <1>0, <4>2, <5>1, <5>2
      <4> QED BY <4>1, <4>2, <4>3
    <3>8. TwoMB * (d - e) >= 0
      BY <1>0, <3>2, <3>4, <3>7
    <3> QED BY <1>0, <3>2, <3>4, <3>5, <3>8
  <2>2. g < 2 * OneGB /\ g > 0
    BY <1>0, <1>3, <1>7
  <2>3. g = OneGB
    BY <1>0, <1>3, <2>2
  <2> QED BY <1>0, <1>3, <1>7, <2>1, <2>3
<1>8. s \in Nat
  BY <1>0, <1>3, <1>5
<1>9. size >= TwoMB => s = LengthOf(size)
  BY <1>0, <1>3, <1>5, <1>6, <1>7
<1> QED BY <1>4, <1>8, <1>9

\* A block of hugepage_alloc has at least a page.
LEMMA LengthPositive ==
  ASSUME NEW size \in Nat \ {0}
  PROVE  LengthOf(size) \in Nat \ {0}
<1>1. PageOf(size) \in Nat \ {0}
  BY HugeConstants DEF PageOf
<1>2. PICK g : g = PageOf(size)
  OBVIOUS
<1>3. Huge!hugepage_round_up(size, g) \in size .. size + g - 1
  BY <1>1, <1>2, RoundUp
<1> QED BY <1>1, <1>2, <1>3 DEF LengthOf

-----------------------------------------------------------------------------
(* What the kernel gives for a block.                                      *)

\* A block of n bytes, in large pages or in ordinary ones, where a free range of
\* m begins that is mapped; what is behind the block is leaked.
Given(a, n, m, page) ==
  /\ a \in Nat /\ n \in Nat \ {0} /\ m \in Nat /\ n <= m /\ page \in PageSizes \ {0}
  /\ Free(mapped, a, m)
  /\ a % page = 0 /\ (a + m) % page = 0 /\ (a + n) % page = 0
  /\ a % Page = 0 /\ n % Page = 0
  /\ mapped' = Huge!Mapped(mapped, Huge!Block(a, m), page)
  /\ leaked' = leaked \union Huge!Block(a + n, m - n)

\* A block that ends with a page leaves nothing behind, any other a page.
Left(n) == IF n % Page = 0 THEN 0 ELSE Page

\* memory_alloc_aligned gives back the head and the tail, and keeps a block of
\* the size at the aligned address; the tail of a block that does not end with a
\* page stays, and is a page if the alignment is one.
LEMMA AlignedGives ==
  ASSUME WholePages(mapped), NEW raw \in Huge!Addresses, raw % Page = 0,
         NEW n \in Nat \ {0}, NEW alignment \in Nat \ {0}, alignment % Page = 0,
         n % Page = 0 \/ alignment = Page,
         Huge!Unmapped(raw, Huge!InPages(n + alignment)),
         mapped' = Huge!memory_alloc_aligned(raw, n, alignment),
         leaked' = leaked \union IF n % Page = 0 THEN {}
                     ELSE Huge!Block(Huge!align_up(raw, alignment) + Huge!InPages(n), Page)
  PROVE  Given(Huge!align_up(raw, alignment), Huge!InPages(n), Huge!InPages(n) + Left(n), Page)
<1>0. Page \in Nat \ {0} /\ Page \in PageSizes \ {0}
  BY HugeConstants DEF PageSizes
<1>1. PICK a : a = Huge!align_up(raw, alignment)
  OBVIOUS
<1>2. raw \in Nat /\ a \in raw .. raw + alignment - 1 /\ a % alignment = 0
  BY <1>1, RoundUp DEF Huge!align_up, Huge!Addresses
<1>3. a % Page = 0 /\ (a - raw) % Page = 0
  <2>0. a \in Int /\ raw \in Int
    BY <1>2
  <2>1. a % Page = 0
    BY <1>0, <1>2, <2>0, MultipleOfPage, Zenon
  <2> QED BY <1>0, <2>0, <2>1, MultiplesAdd, Zenon
<1>4. PICK l : l = Huge!InPages(n)
  OBVIOUS
<1>5. PICK s : s = Huge!InPages(n + alignment)
  OBVIOUS
<1>6. l \in n .. n + Page - 1 /\ l % Page = 0 /\ (n % Page = 0 => l = n) /\ s = l + alignment
  BY <1>4, <1>5, InPages
<1>7. /\ l \in Nat \ {0} /\ s \in Nat
      /\ (a + l) % Page = 0 /\ (raw + s) % Page = 0 /\ s % Page = 0
  <2>1. l \in Nat \ {0} /\ s \in Nat
    BY <1>0, <1>6
  <2>2. s % Page = 0
    BY <1>0, <1>6, <2>1, MultiplesAdd
  <2>5. a \in Int /\ raw \in Int /\ l \in Int /\ s \in Int
    BY <1>2, <2>1
  <2>3. (a + l) % Page = 0
    BY <1>0, <1>3, <1>6, <2>5, MultiplesAdd, Zenon
  <2>4. (raw + s) % Page = 0
    BY <1>0, <2>2, <2>5, MultiplesAdd, Zenon
  <2> QED BY <2>1, <2>2, <2>3, <2>4
<1>8. \A p \in Int : raw <= p /\ p < raw + s => p \in Huge!Addresses /\ mapped[p] = 0
  BY <1>2, <1>5, <1>7 DEF Huge!Unmapped, Huge!Block
<1>9. Free(mapped, raw, s)
  BY <1>5 DEF Huge!Unmapped, Free
<1>10. PICK got : got = Huge!Mapped(mapped, Huge!Block(raw, s), Page)
  OBVIOUS
<1>11. WholePages(got)
  BY <1>0, <1>2, <1>7, <1>9, <1>10, MapWhole
<1>12. \A p \in Huge!Addresses : got[p] = IF raw <= p /\ p < raw + s THEN Page ELSE mapped[p]
  <2>1. s \in Int /\ raw \in Int /\ mapped \in [Huge!Addresses -> PageSizes]
    BY <1>2, <1>7 DEF WholePages
  <2> QED BY <1>0, <1>10, <2>1, MappedAt
<1>13. PICK cut : cut = Huge!munmap(got, raw, a - raw)
  OBVIOUS
<1>14. PICK t : t = s - (a - raw) - n
  OBVIOUS
<1>15. mapped' = Huge!munmap(cut, raw + (a - raw) + n, t)
  <2>1. mapped' = Huge!munmap(Huge!munmap(got, raw, a - raw), raw + (a - raw) + n, s - (a - raw) - n)
    BY <1>1, <1>5, <1>10 DEF Huge!memory_alloc_aligned
  <2> QED BY <1>13, <1>14, <2>1
<1>16. raw + (a - raw) + n = a + n
  BY <1>2
<1>17. mapped' = Huge!munmap(cut, a + n, t)
  BY <1>15, <1>16
<1>18. ASSUME NEW m \in Nat, l <= m, Free(mapped, a, m), (a + m) % Page = 0,
              mapped' = Huge!Mapped(mapped, Huge!Block(a, m), Page),
              leaked' = leaked \union Huge!Block(a + l, m - l)
       PROVE  Given(a, l, m, Page)
  BY <1>0, <1>2, <1>3, <1>6, <1>7, <1>18 DEF Given
<1>19. ASSUME n % Page # 0 PROVE Given(a, l, l + Left(n), Page)
  <2>1. alignment = Page /\ Left(n) = Page
    BY <1>19 DEF Left
  <2>2. a = raw
    BY <1>0, <1>2, <1>3, <2>1, MultiplesApart
  <2>3. s = l + Page
    BY <1>6, <2>1
  <2>4. (a + n) % Page # 0
    <3> SUFFICES ASSUME (a + n) % Page = 0 PROVE FALSE
      OBVIOUS
    <3>1. (a + n) - a = n /\ a + n \in Int /\ a \in Int
      BY <1>2
    <3>2. ((a + n) - a) % Page = 0
      BY <1>0, <1>3, <3>1, MultiplesAdd
    <3> QED BY <1>19, <3>1, <3>2
  <2>5. mapped' = cut
    BY <1>17, <2>4 DEF Huge!munmap
  <2>6. cut = got
    <3>1. a - raw = 0
      BY <1>2, <2>2
    <3> QED BY <1>13, <3>1 DEF Huge!munmap
  <2>7. mapped' = Huge!Mapped(mapped, Huge!Block(a, s), Page)
    BY <1>10, <2>2, <2>5, <2>6
  <2>8. leaked' = leaked \union Huge!Block(a + l, s - l)
    <3>1. s - l = Page
      BY <1>0, <1>7, <2>3
    <3>2. leaked' = leaked \union Huge!Block(a + l, Page)
      BY <1>1, <1>4, <1>19
    <3> QED BY <3>1, <3>2
  <2>9. l <= s /\ Free(mapped, a, s) /\ (a + s) % Page = 0
    BY <1>0, <1>7, <1>9, <2>2, <2>3
  <2>10. Given(a, l, s, Page)
    BY <1>7, <1>18, <2>7, <2>8, <2>9
  <2> QED BY <2>1, <2>3, <2>10
<1>20. ASSUME n % Page = 0 PROVE Given(a, l, l + Left(n), Page)
  <2>1. l = n /\ Left(n) = 0
    BY <1>6, <1>20 DEF Left
  <2>2. /\ t \in Nat \ {0} /\ t % Page = 0 /\ a + n + t = raw + s
        /\ a + n \in Nat /\ (a + n) % Page = 0
    <3>1. t = alignment - (a - raw)
      BY <1>2, <1>6, <1>14, <2>1
    <3>2. t % Page = 0
      <4>1. alignment \in Int /\ a - raw \in Int
        BY <1>2
      <4>2. (alignment - (a - raw)) % Page = 0
        BY <1>0, <1>3, <4>1, MultiplesAdd, Zenon
      <4> QED BY <3>1, <4>2
    <3> QED BY <1>2, <1>6, <1>7, <2>1, <3>1, <3>2
  <2>3. Huge!InPages(t) = t /\ Huge!InPages(a - raw) = a - raw
    BY <1>2, <1>3, <2>2, InPages
  <2>4. \A p \in Int : raw <= p /\ p < raw + s => ~Huge!Splits(got, p) \/ p % Page # 0
    BY <1>8, <1>12 DEF Huge!Splits
  <2>5. raw + (a - raw) = a /\ raw <= a /\ a < raw + s
    BY <1>2, <1>6, <1>7
  <2>6. ~Huge!Splits(got, raw) /\ ~Huge!Splits(got, a)
    <3>1. raw \in Int /\ raw <= raw /\ raw < raw + s /\ a \in Int /\ raw % Page = 0
      <4>1. s > 0
        BY <1>2, <1>6, <1>7
      <4>2. raw \in Int /\ raw <= raw /\ raw < raw + s /\ a \in Int
        BY <1>2, <1>7, <4>1
      <4> QED BY <4>2
    <3>2. ~Huge!Splits(got, raw)
      BY <2>4, <3>1, Zenon
    <3>3. ~Huge!Splits(got, a)
      BY <1>3, <2>4, <2>5, <3>1
    <3> QED BY <3>2, <3>3
  <2>7. cut = IF a - raw = 0 THEN got ELSE Huge!Mapped(got, Huge!Block(raw, a - raw), 0)
    BY <1>13, <2>3, <2>5, <2>6 DEF Huge!munmap
  <2>8. /\ cut \in [Huge!Addresses -> PageSizes]
        /\ \A p \in Huge!Addresses : cut[p] = IF raw <= p /\ p < a THEN 0 ELSE got[p]
    <3>1. CASE a - raw = 0
      BY <1>2, <1>11, <2>7, <3>1 DEF WholePages, Huge!Addresses
    <3>2. CASE a - raw # 0
      <4>1. cut = Huge!Mapped(got, Huge!Block(raw, a - raw), 0)
        BY <2>7, <3>2
      <4>2. 0 \in PageSizes /\ got \in [Huge!Addresses -> PageSizes] /\ a - raw \in Int /\ raw \in Int
        BY <1>2, <1>11 DEF WholePages, PageSizes
      <4>3. /\ cut \in [Huge!Addresses -> PageSizes]
            /\ \A p \in Huge!Addresses : cut[p] = IF raw <= p /\ p < raw + (a - raw) THEN 0 ELSE got[p]
        BY <4>1, <4>2, MappedAt
      <4> QED BY <2>5, <4>3
    <3> QED BY <3>1, <3>2
  <2>9. ~Huge!Splits(cut, a + n)
    <3>1. raw <= a + n /\ a + n < raw + s
      BY <1>2, <2>2
    <3>2. \A p \in Huge!Addresses : raw <= p /\ p < raw + s /\ Huge!Splits(cut, p) => p % Page # 0
      BY <1>12, <2>8 DEF Huge!Splits
    <3> QED BY <2>2, <3>1, <3>2 DEF Huge!Splits
  <2>10. ~Huge!Splits(cut, raw + s)
    <3> SUFFICES ASSUME Huge!Splits(cut, raw + s) PROVE FALSE
      OBVIOUS
    <3>1. PICK p : p = raw + s
      OBVIOUS
    <3>2. p \in Huge!Addresses /\ cut[p] = mapped[p] /\ Huge!Splits(mapped, p)
      BY <1>2, <1>7, <1>12, <2>5, <2>8, <3>1 DEF Huge!Splits
    <3>3. p - 1 \in Huge!Addresses /\ mapped[p - 1] = mapped[p] /\ mapped[p] > 0
      BY <3>2 DEF WholePages, Huge!Splits
    <3>4. mapped[p - 1] = 0
      BY <1>2, <1>7, <1>8, <2>5, <3>1
    <3> QED BY <3>3, <3>4
  <2>11. mapped' = Huge!Mapped(cut, Huge!Block(a + n, t), 0)
    BY <1>17, <2>2, <2>3, <2>9, <2>10 DEF Huge!munmap
  <2>12. /\ mapped' \in [Huge!Addresses -> PageSizes]
         /\ \A p \in Huge!Addresses : mapped'[p] = IF a + n <= p /\ p < raw + s THEN 0 ELSE cut[p]
    <3>1. 0 \in PageSizes /\ a + n \in Int /\ t \in Int
      BY <2>2 DEF PageSizes
    <3>2. /\ mapped' \in [Huge!Addresses -> PageSizes]
          /\ \A p \in Huge!Addresses :
               mapped'[p] = IF a + n <= p /\ p < a + n + t THEN 0 ELSE cut[p]
      BY <2>8, <2>11, <3>1, MappedAt
    <3> QED BY <2>2, <3>2
  <2>13. PICK m : m = Huge!Mapped(mapped, Huge!Block(a, n), Page)
    OBVIOUS
  <2>14. /\ m \in [Huge!Addresses -> PageSizes]
         /\ \A p \in Huge!Addresses : m[p] = IF a <= p /\ p < a + n THEN Page ELSE mapped[p]
    <3>1. a \in Int /\ n \in Int /\ mapped \in [Huge!Addresses -> PageSizes]
      BY <1>2 DEF WholePages
    <3> QED BY <1>0, <2>13, <3>1, MappedAt
  <2>15. \A p \in Huge!Addresses : mapped'[p] = m[p]
    <3> SUFFICES ASSUME NEW p \in Huge!Addresses PROVE mapped'[p] = m[p]
      OBVIOUS
    <3>1. p \in Int
      BY DEF Huge!Addresses
    <3> QED BY <1>2, <1>8, <1>12, <2>2, <2>5, <2>8, <2>12, <2>14, <3>1
  <2>16. mapped' = m
    BY <2>12, <2>14, <2>15
  <2>17. Free(mapped, a, n)
    BY <1>2, <1>6, <1>8, <2>1 DEF Free, Huge!Block
  <2>18. leaked' = leaked \union Huge!Block(a + l, l - l)
    <3>1. l - l = 0 /\ a + l \in Int
      BY <1>2, <1>7
    <3>2. Huge!Block(a + l, 0) = {}
      BY <3>1 DEF Huge!Block
    <3> QED BY <1>20, <3>1, <3>2
  <2>19. Given(a, l, l, Page)
    BY <1>7, <1>18, <2>1, <2>2, <2>13, <2>16, <2>17, <2>18
  <2> QED BY <1>7, <2>1, <2>19
<1>21. Given(a, l, l + Left(n), Page)
  BY <1>19, <1>20
<1> QED BY <1>1, <1>4, <1>21

\* The large pages are of whole ordinary ones.
LEMMA LargePages ==
  ASSUME NEW page \in {TwoMB, OneGB}
  PROVE  page \in Nat \ {0} /\ page \in PageSizes \ {0} /\ page % Page = 0
<1>1. /\ Page \in Nat \ {0} /\ TwoMB \in Nat \ {0} /\ OneGB \in Nat \ {0} /\ OneGB \in Int
      /\ TwoMB % Page = 0 /\ OneGB % TwoMB = 0
  BY HugeConstants
<1>2. OneGB % Page = 0
  BY <1>1, MultipleOfPage, Zenon
<1> QED BY <1>1, <1>2 DEF PageSizes

\* hugepage_alloc_2mb and hugepage_alloc_1gb give large pages, or ordinary ones
\* when those are not to be had.
LEMMA PagesGive ==
  ASSUME WholePages(mapped), NEW n \in Nat, NEW page \in {TwoMB, OneGB}, NEW size, NEW from,
         Huge!hugepage_alloc_pages(n, page, size, from)
  PROVE  \E a \in Nat, v \in PageSizes :
           Given(a, n * page, n * page, v) /\ Huge!Hold(a, n * page, size, from)
<1>0. page \in Nat \ {0} /\ page \in PageSizes \ {0} /\ page % Page = 0 /\ Page \in Nat \ {0}
  BY LargePages, HugeConstants
<1>1. n > 0
  BY DEF Huge!hugepage_alloc_pages
<1>2. PICK l : l = n * page
  OBVIOUS
<1>3. l \in Nat \ {0}
  BY <1>0, <1>1, <1>2
<1>4. l % page = 0 /\ l % Page = 0
  <2>1. (0 + n * page) % page = 0
    <3>1. 0 \in Int /\ 0 % page = 0 /\ n \in Int
      BY <1>0
    <3> QED BY <1>0, <3>1, MultipleOn
  <2>2. l % page = 0 /\ l \in Int
    BY <1>2, <1>3, <2>1
  <2> QED BY <1>0, <2>2, MultipleOfPage, Zenon
<1>5. ASSUME NEW a \in Huge!Addresses, a % page = 0, Huge!Unmapped(a, l),
             mapped' = Huge!Mapped(mapped, Huge!Block(a, l), page), leaked' = leaked
      PROVE  Given(a, l, l, page) /\ a \in Nat
  <2>1. a \in Nat
    BY DEF Huge!Addresses
  <2>2. (a + l) % page = 0 /\ a % Page = 0
    <3>1. a \in Int /\ l \in Int
      BY <1>3, <2>1
    <3>2. a % Page = 0
      BY <1>0, <1>5, <3>1, MultipleOfPage, Zenon
    <3> QED BY <1>0, <1>4, <1>5, <3>1, <3>2, MultiplesAdd, Zenon
  <2>3. Free(mapped, a, l)
    BY <1>5 DEF Huge!Unmapped, Free
  <2>4. Huge!Block(a + l, l - l) = {}
    BY <1>3, <2>1 DEF Huge!Block
  <2>5. leaked' = leaked \union Huge!Block(a + l, l - l)
    BY <1>5, <2>4
  <2> QED BY <1>0, <1>3, <1>4, <1>5, <2>1, <2>2, <2>3, <2>5 DEF Given
<1>6. ASSUME Huge!HoldAligned(l, page, size, from)
      PROVE  \E a \in Nat, v \in PageSizes : Given(a, l, l, v) /\ Huge!Hold(a, l, size, from)
  <2>1. PICK raw \in Huge!Addresses :
          /\ raw % Page = 0 /\ Huge!Unmapped(raw, Huge!InPages(l + page))
          /\ mapped' = Huge!memory_alloc_aligned(raw, l, page)
          /\ leaked' = leaked \union IF l % Page = 0 THEN {}
                        ELSE Huge!Block(Huge!align_up(raw, page) + Huge!InPages(l), Page)
          /\ Huge!Hold(Huge!align_up(raw, page), l, size, from)
    BY <1>6 DEF Huge!HoldAligned
  <2>2. Given(Huge!align_up(raw, page), Huge!InPages(l), Huge!InPages(l) + Left(l), Page)
    BY <1>0, <1>3, <1>4, <2>1, AlignedGives
  <2>3. Huge!InPages(l) = l /\ Huge!InPages(l) + Left(l) = l
    BY <1>3, <1>4, InPages DEF Left
  <2>4. Given(Huge!align_up(raw, page), l, l, Page)
    BY <2>2, <2>3
  <2>5. Huge!align_up(raw, page) \in Nat /\ Page \in PageSizes
    BY <2>4 DEF Given
  <2> QED BY <2>1, <2>4, <2>5
<1>7. \/ \E a \in Huge!Addresses :
           /\ a % page = 0 /\ Huge!Unmapped(a, l)
           /\ mapped' = Huge!Mapped(mapped, Huge!Block(a, l), page)
           /\ Huge!Hold(a, l, size, from) /\ leaked' = leaked
      \/ Huge!HoldAligned(l, page, size, from)
  BY <1>2 DEF Huge!hugepage_alloc_pages
<1>8. \E a \in Nat, v \in PageSizes : Given(a, l, l, v) /\ Huge!Hold(a, l, size, from)
  BY <1>0, <1>5, <1>6, <1>7
<1> QED BY <1>2, <1>8

-----------------------------------------------------------------------------
(* The invariant of the blocks.                                            *)

Length(b) == Cardinality(b.pages)

\* A block is a range of pages, and of the length the call it is from gives.
Fits(length, size, from) ==
  /\ from = "alloc" => length = LengthOf(size)
  /\ from = "transparent" => length = Huge!hugepage_round_up(size, TwoMB)

Laid(b) ==
  /\ Length(b) \in Nat \ {0} /\ (Length(b)) % Page = 0 /\ (b.ptr) % Page = 0
  /\ b.pages = Huge!Block(b.ptr, Length(b))
  /\ Fits(Length(b), b.size, b.from)

\* No large page is cut where a block begins or ends.
Uncut == \A b \in held : ~Huge!Splits(mapped, b.ptr) /\ ~Huge!Splits(mapped, b.ptr + Length(b))

HugeInv ==
  /\ Huge!TypeOK
  /\ WholePages(mapped)
  /\ \A b \in held : Laid(b)
  /\ ~lost => Uncut /\ MappedIsHeld

\* A block in the invariant has its range within the address space.
LEMMA RangeOf ==
  ASSUME HugeInv, NEW b \in held
  PROVE  /\ b.ptr \in Nat /\ Length(b) \in Nat \ {0} /\ b.size \in Nat
         /\ \A p \in Int : p \in b.pages <=> b.ptr <= p /\ p < b.ptr + Length(b)
         /\ \A p \in b.pages : p \in Huge!Addresses
<1>1. b \in Huge!BlockRecord /\ Laid(b)
  BY DEF HugeInv, Huge!TypeOK
<1>2. b.ptr \in Nat /\ b.size \in Nat /\ b.pages \in SUBSET Huge!Addresses
  BY <1>1 DEF Huge!BlockRecord, Huge!Addresses
<1>3. PICK n : n = Length(b)
  OBVIOUS
<1>4. n \in Nat \ {0} /\ b.pages = Huge!Block(b.ptr, n)
  BY <1>1, <1>3 DEF Laid
<1>5. \A p \in Int : p \in b.pages <=> b.ptr <= p /\ p < b.ptr + n
  BY <1>2, <1>4 DEF Huge!Block
<1> QED BY <1>2, <1>3, <1>4, <1>5

\* A range has as many pages as it is long.
LEMMA RangeLength ==
  ASSUME NEW a \in Nat, NEW n \in Nat \ {0}
  PROVE  Cardinality(Huge!Block(a, n)) = n
<1>1. IsFiniteSet(a .. a + n - 1)
      /\ Cardinality(a .. a + n - 1) = IF a > a + n - 1 THEN 0 ELSE (a + n - 1) - a + 1
  BY FS_Interval
<1> QED BY <1>1 DEF Huge!Block

(* A block that is given keeps the invariant: it is apart from those held, *)
(* and cuts no large page, for where it lies nothing was mapped.           *)
LEMMA HoldKeeps ==
  ASSUME HugeInv, NEW a \in Nat, NEW bytes, NEW n, NEW m, NEW v \in PageSizes, NEW size \in Nat,
         NEW from \in {"alloc", "pages", "transparent", "ordinary"},
         Huge!InPages(bytes) = n, Given(a, n, m, v), Huge!Hold(a, bytes, size, from),
         Fits(n, size, from)
  PROVE  HugeInv'
<1>1. PICK b : b = [ptr |-> a, size |-> size, pages |-> Huge!Block(a, n), from |-> from]
  OBVIOUS
<1>2. /\ b.ptr = a /\ b.size = size /\ b.pages = Huge!Block(a, n) /\ b.from = from
      /\ held' = held \union {b} /\ UNCHANGED <<reservation, lost, place, num_pages, raced>>
  BY <1>1 DEF Huge!Hold, Huge!Reservation
<1>3. /\ n \in Nat \ {0} /\ m \in Nat /\ n <= m /\ v > 0
      /\ Length(b) = n /\ Laid(b)
  <2>1. /\ n \in Nat \ {0} /\ m \in Nat /\ n <= m /\ n % Page = 0 /\ a % Page = 0
        /\ v \in PageSizes \ {0}
    BY DEF Given
  <2>2. Length(b) = n
    BY <1>2, <2>1, RangeLength DEF Length
  <2>3. v > 0
    BY <2>1, HugeConstants DEF PageSizes
  <2> QED BY <1>2, <2>1, <2>2, <2>3 DEF Laid
<1>4. \A p \in Int : a <= p /\ p < a + m => p \in Huge!Addresses /\ mapped[p] = 0
  BY DEF Given, Free, Huge!Block
<1>12. PICK tail : tail = Huge!Block(a + n, m - n)
  OBVIOUS
<1>13. /\ leaked' = leaked \union tail
       /\ \A p \in Huge!Addresses : p \in tail <=> a + n <= p /\ p < a + m
       /\ \A p \in tail : p \in Huge!Addresses /\ mapped[p] = 0 /\ a + n <= p
  <2>1. leaked' = leaked \union tail
    BY <1>12 DEF Given
  <2>2. tail = (a + n) .. (a + m - 1)
    <3>1. (a + n) + (m - n) - 1 = a + m - 1
      BY <1>3
    <3> QED BY <1>12, <3>1 DEF Huge!Block
  <2> QED BY <1>3, <1>4, <2>1, <2>2 DEF Huge!Addresses
<1>5. mapped \in [Huge!Addresses -> PageSizes]
  BY DEF HugeInv, WholePages
<1>6. /\ mapped' \in [Huge!Addresses -> PageSizes]
      /\ \A p \in Huge!Addresses : mapped'[p] = IF a <= p /\ p < a + m THEN v ELSE mapped[p]
  <2>1. a \in Int /\ m \in Int
    BY <1>3
  <2>2. mapped' = Huge!Mapped(mapped, Huge!Block(a, m), v)
    BY DEF Given
  <2> QED BY <1>5, <2>1, <2>2, MappedAt, Zenon
<1>7. WholePages(mapped)'
  <2>1. v > 0 => a % v = 0 /\ (a + m) % v = 0
    BY DEF Given
  <2>2. WholePages(Huge!Mapped(mapped, Huge!Block(a, m), v))
    BY <1>3, <2>1, MapWhole DEF Given, HugeInv
  <2>3. mapped' = Huge!Mapped(mapped, Huge!Block(a, m), v)
    BY DEF Given
  <2>4. WholePages(mapped')
    BY <2>2, <2>3
  <2> QED BY <2>4 DEF WholePages, Huge!Splits, GoesOn
<1>8. Huge!TypeOK'
  <2>1. a \in Huge!Addresses
    BY <1>3, <1>4
  <2>2. Huge!Block(a, n) \in SUBSET Huge!Addresses
    BY <1>3, <1>4 DEF Huge!Block
  <2>3. b \in Huge!BlockRecord
    BY <1>1, <1>2, <2>1, <2>2 DEF Huge!BlockRecord
  <2>4. leaked' \subseteq Huge!Addresses
    BY <1>13 DEF HugeInv, Huge!TypeOK
  <2> QED BY <1>2, <1>6, <2>3, <2>4 DEF HugeInv, Huge!TypeOK, PageSizes
<1>9. (\A d \in held : Laid(d))'
  BY <1>2, <1>3 DEF HugeInv, Laid, Length
<1>10. ASSUME ~lost' PROVE MappedIsHeld'
  <2>0. ~lost /\ MappedIsHeld
    BY <1>2, <1>10 DEF HugeInv
  <2>1. /\ \A d \in held : d.pages \cap leaked = {}
        /\ \A d, e \in held : d # e => d.pages \cap e.pages = {}
    BY <2>0 DEF MappedIsHeld, Huge!MappedIsHeld
  <2>2. \A p \in Huge!Addresses : mapped[p] # 0 <=> p \in leaked \/ \E d \in held : p \in d.pages
    BY <2>0 DEF MappedIsHeld, Huge!MappedIsHeld
  <2>3. \A p \in Huge!Addresses : p \in b.pages <=> a <= p /\ p < a + n
    BY <1>2, <1>3 DEF Huge!Block, Huge!Addresses
  <2>4. \A p \in b.pages : p \in Huge!Addresses /\ mapped[p] = 0 /\ p < a + n /\ p \in Int
    BY <1>2, <1>3, <1>4 DEF Huge!Block
  <2>5. \A d \in held : d.pages \cap b.pages = {} /\ d.pages \cap tail = {}
    BY <1>13, <2>2, <2>4
  <2>6. b.pages \cap leaked = {} /\ b.pages \cap tail = {}
    <3>1. b.pages \cap leaked = {}
      BY <2>2, <2>4
    <3>2. b.pages \cap tail = {}
      BY <1>3, <1>13, <2>4 DEF Huge!Addresses
    <3> QED BY <3>1, <3>2
  <2>7. ASSUME NEW p \in Huge!Addresses
        PROVE  mapped'[p] # 0 <=> p \in leaked' \/ \E d \in held' : p \in d.pages
    <3>1. (\E d \in held' : p \in d.pages) <=> (\E d \in held : p \in d.pages) \/ p \in b.pages
      BY <1>2
    <3>2. p \in leaked' <=> p \in leaked \/ p \in tail
      BY <1>13
    <3>3. mapped[p] # 0 <=> p \in leaked \/ \E d \in held : p \in d.pages
      BY <2>2
    <3>4. mapped'[p] # 0 <=> mapped[p] # 0 \/ p \in b.pages \/ p \in tail
      <4>1. a <= p /\ p < a + m <=> p \in b.pages \/ p \in tail
        BY <1>3, <1>13, <2>3 DEF Huge!Addresses
      <4>2. mapped'[p] = IF a <= p /\ p < a + m THEN v ELSE mapped[p]
        BY <1>6
      <4>3. v # 0
        BY <1>3
      <4>4. CASE a <= p /\ p < a + m
        BY <4>1, <4>2, <4>3, <4>4
      <4>5. CASE ~(a <= p /\ p < a + m)
        BY <4>1, <4>2, <4>5
      <4> QED BY <4>4, <4>5
    <3> QED BY <3>1, <3>2, <3>3, <3>4
  <2>9. \A d, e \in held' : d # e => d.pages \cap e.pages = {}
    BY <1>2, <2>1, <2>5
  <2>10. \A d \in held' : d.pages \cap leaked' = {}
    BY <1>2, <1>13, <2>1, <2>5, <2>6
  <2> QED BY <2>7, <2>9, <2>10 DEF MappedIsHeld, Huge!MappedIsHeld
<1>11. ASSUME ~lost' PROVE Uncut'
  <2>0. ~lost /\ MappedIsHeld /\ Uncut
    BY <1>2, <1>11 DEF HugeInv
  <2>1. \A p \in Huge!Addresses : (\E d \in held : p \in d.pages) => mapped[p] # 0
    BY <2>0 DEF MappedIsHeld, Huge!MappedIsHeld
  <2>2. ASSUME NEW p \in Huge!Addresses, ~(a <= p /\ p < a + m), ~Huge!Splits(mapped, p)
        PROVE  ~Huge!Splits(mapped', p)
    BY <1>6, <2>2 DEF Huge!Splits
  <2>3. ~Huge!Splits(mapped', a)
    BY <1>3, <1>6 DEF Given, Huge!Splits, Huge!Addresses
  <2>4. ~Huge!Splits(mapped', a + n)
    <3>1. CASE n < m
      <4>1. (a + n) % v = 0 /\ a + n \in Int /\ a <= a + n /\ a + n < a + m
        BY <1>3, <3>1 DEF Given
      <4> QED BY <1>6, <4>1 DEF Huge!Splits
    <3>2. CASE n = m
      <4> SUFFICES ASSUME Huge!Splits(mapped', a + n) PROVE FALSE
        OBVIOUS
      <4>1. PICK q : q = a + n
        OBVIOUS
      <4>2. q \in Huge!Addresses /\ Huge!Splits(mapped, q)
        BY <1>3, <1>6, <3>2, <4>1 DEF Huge!Splits
      <4>3. mapped[q - 1] = mapped[q] /\ mapped[q] > 0
        BY <4>2 DEF HugeInv, WholePages, Huge!Splits
      <4>4. mapped[q - 1] = 0
        BY <1>3, <1>4, <3>2, <4>1
      <4> QED BY <4>3, <4>4
    <3> QED BY <1>3, <3>1, <3>2
  <2>5. ASSUME NEW d \in held
        PROVE  ~Huge!Splits(mapped', d.ptr) /\ ~Huge!Splits(mapped', d.ptr + Length(d))
    <3>1. PICK s : s = Length(d)
      OBVIOUS
    <3>2. /\ d.ptr \in Nat /\ s \in Nat \ {0}
          /\ \A p \in Int : p \in d.pages <=> d.ptr <= p /\ p < d.ptr + s
          /\ \A p \in d.pages : p \in Huge!Addresses
      BY <3>1, RangeOf
    <3>3. ~Huge!Splits(mapped, d.ptr) /\ ~Huge!Splits(mapped, d.ptr + s)
      BY <2>0, <3>1 DEF Uncut
    <3>4. d.ptr \in d.pages /\ d.ptr + s - 1 \in d.pages
      BY <3>2
    <3>5. mapped[d.ptr] # 0 /\ mapped[d.ptr + s - 1] # 0 /\ d.ptr \in Huge!Addresses
      BY <2>1, <3>2, <3>4
    <3>6. ~Huge!Splits(mapped', d.ptr)
      BY <1>4, <2>2, <3>2, <3>3, <3>5
    <3>7. ~Huge!Splits(mapped', d.ptr + s)
      <4> SUFFICES ASSUME Huge!Splits(mapped', d.ptr + s) PROVE FALSE
        OBVIOUS
      <4>1. d.ptr + s \in Huge!Addresses
        BY DEF Huge!Splits
      <4>2. a <= d.ptr + s /\ d.ptr + s < a + m
        BY <2>2, <3>3, <4>1
      <4>3. d.ptr + s # a
        BY <2>3
      <4>4. a <= d.ptr + s - 1 /\ d.ptr + s - 1 < a + m
        BY <1>3, <3>2, <4>2, <4>3
      <4> QED BY <1>4, <3>2, <3>5, <4>4
    <3> QED BY <3>1, <3>6, <3>7
  <2>6. \A d \in held' : ~Huge!Splits(mapped', d.ptr) /\ ~Huge!Splits(mapped', d.ptr + Length(d))
    BY <1>2, <1>3, <2>3, <2>4, <2>5
  <2> QED BY <2>6 DEF Uncut, Huge!Splits, Length
<1> QED BY <1>7, <1>8, <1>9, <1>10, <1>11 DEF HugeInv

(* A free keeps the invariant: if it unmaps the block's range and no more,  *)
(* the blocks that are left are as they were.                              *)
LEMMA ReleaseKeeps ==
  ASSUME HugeInv, NEW b \in held, NEW after, WholePages(after), Huge!Release(b, after)
  PROVE  HugeInv'
<1>1. /\ mapped' = after /\ held' = held \ {b}
      /\ lost' = (lost \/ after # Huge!Mapped(mapped, b.pages, 0))
      /\ UNCHANGED <<reservation, leaked, place, num_pages, raced>>
  <2>1. /\ mapped' = after /\ held' = held \ {b}
        /\ UNCHANGED <<reservation, leaked, place, num_pages, raced>>
    BY DEF Huge!Release, Huge!Reservation
  <2>2. lost' = (lost \/ after # Huge!Mapped(mapped, b.pages, 0))
    BY DEF Huge!Release
  <2> QED BY <2>1, <2>2
<1>2. WholePages(mapped)'
  BY <1>1 DEF WholePages, Huge!Splits, GoesOn
<1>3. Huge!TypeOK'
  BY <1>1 DEF HugeInv, Huge!TypeOK, WholePages, PageSizes
<1>4. (\A d \in held : Laid(d))'
  BY <1>1 DEF HugeInv, Laid, Length
<1>5. ASSUME ~lost' PROVE Uncut' /\ MappedIsHeld'
  <2>1. ~lost /\ mapped' = Huge!Mapped(mapped, b.pages, 0) /\ MappedIsHeld /\ Uncut
    BY <1>1, <1>5 DEF HugeInv
  <2>5. \A p \in Huge!Addresses : mapped'[p] = IF p \in b.pages THEN 0 ELSE mapped[p]
    BY <2>1 DEF Huge!Mapped
  <2>6. \A p : Huge!Splits(mapped', p) => Huge!Splits(mapped, p)
    BY <2>5 DEF Huge!Splits
  <2>7. \A d \in held' : ~Huge!Splits(mapped', d.ptr) /\ ~Huge!Splits(mapped', d.ptr + Length(d))
    BY <1>1, <2>1, <2>6 DEF Uncut
  <2>8. Uncut'
    BY <2>7 DEF Uncut, Huge!Splits, Length
  <2>9. /\ \A p \in Huge!Addresses : mapped[p] # 0 <=> p \in leaked \/ \E d \in held : p \in d.pages
        /\ \A d \in held : d.pages \cap leaked = {}
        /\ \A d, e \in held : d # e => d.pages \cap e.pages = {}
    BY <2>1 DEF MappedIsHeld, Huge!MappedIsHeld
  <2>10. /\ \A d \in held' : d.pages \cap leaked' = {}
         /\ \A d, e \in held' : d # e => d.pages \cap e.pages = {}
    BY <1>1, <2>9
  <2>11. ASSUME NEW p \in Huge!Addresses
         PROVE  mapped'[p] # 0 <=> p \in leaked' \/ \E d \in held' : p \in d.pages
    <3>1. mapped'[p] # 0 <=> mapped[p] # 0 /\ p \notin b.pages
      BY <2>5
    <3>2. mapped[p] # 0 <=> p \in leaked \/ \E d \in held : p \in d.pages
      BY <2>9
    <3>3. (\E d \in held' : p \in d.pages) <=> (\E d \in held : p \in d.pages) /\ p \notin b.pages
      BY <1>1, <2>9
    <3>4. leaked' = leaked /\ (p \in leaked => p \notin b.pages)
      BY <1>1, <2>9
    <3> QED BY <3>1, <3>2, <3>3, <3>4
  <2> QED BY <2>8, <2>10, <2>11 DEF MappedIsHeld, Huge!MappedIsHeld
<1> QED BY <1>2, <1>3, <1>4, <1>5 DEF HugeInv

\* A free unmaps with a range of its own, which leaves the pages whole.
LEMMA FreesKeep ==
  ASSUME HugeInv, NEW b \in held, Huge!hugepage_free(b) \/ Huge!hugepage_free_transparent(b)
  PROVE  HugeInv'
<1>1. PICK n : n = Huge!hugepage_align_size(b.size)
  OBVIOUS
<1>2. b.ptr \in Nat /\ n \in Nat
  BY <1>1, RangeOf, AlignedSize
<1>3. Huge!InPages(n) \in Nat
  <2>1. Huge!InPages(n) \in n .. n + Page - 1
    BY <1>2, InPages
  <2> QED BY <1>2, <2>1, HugeConstants
<1>4. ASSUME NEW k \in Nat PROVE WholePages(Huge!munmap(mapped, b.ptr, k))
  BY <1>2, MunmapWhole DEF HugeInv
<1>5. CASE Huge!hugepage_free(b)
  BY <1>1, <1>2, <1>4, <1>5, ReleaseKeeps DEF Huge!hugepage_free
<1>6. CASE Huge!hugepage_free_transparent(b)
  BY <1>1, <1>3, <1>4, <1>6, ReleaseKeeps DEF Huge!hugepage_free_transparent, Huge!memory_free_aligned
<1> QED BY <1>5, <1>6

\* A step that leaves the mapping alone keeps the invariant if the types hold.
LEMMA MappingKept ==
  ASSUME HugeInv, Huge!TypeOK', UNCHANGED Huge!Mapping
  PROVE  HugeInv'
<1>1. mapped' = mapped /\ held' = held /\ leaked' = leaked /\ lost' = lost
  BY DEF Huge!Mapping
<1> QED BY <1>1 DEF HugeInv, WholePages, Huge!Splits, GoesOn, Laid, Length, Uncut, MappedIsHeld,
                   Huge!MappedIsHeld

\* What is at an aligned address is a block of ordinary pages.
LEMMA AlignedKeeps ==
  ASSUME HugeInv, NEW n \in Nat \ {0}, NEW alignment \in Nat \ {0}, alignment % Page = 0,
         n % Page = 0 \/ alignment = Page, NEW size \in Nat, NEW from \in {"transparent", "ordinary"},
         Huge!HoldAligned(n, alignment, size, from), Fits(Huge!InPages(n), size, from)
  PROVE  HugeInv'
<1>1. PICK raw \in Huge!Addresses :
        /\ raw % Page = 0 /\ Huge!Unmapped(raw, Huge!InPages(n + alignment))
        /\ mapped' = Huge!memory_alloc_aligned(raw, n, alignment)
        /\ leaked' = leaked \union IF n % Page = 0 THEN {}
                      ELSE Huge!Block(Huge!align_up(raw, alignment) + Huge!InPages(n), Page)
        /\ Huge!Hold(Huge!align_up(raw, alignment), n, size, from)
  BY DEF Huge!HoldAligned
<1>2. PICK a : a = Huge!align_up(raw, alignment)
  OBVIOUS
<1>3. Given(a, Huge!InPages(n), Huge!InPages(n) + Left(n), Page)
  BY <1>1, <1>2, AlignedGives DEF HugeInv
<1>4. a \in Nat /\ Page \in PageSizes
  BY <1>3 DEF Given, PageSizes
<1> QED BY <1>1, <1>2, <1>3, <1>4, HoldKeeps

\* The allocations keep the invariant.
LEMMA PagesKeep ==
  ASSUME HugeInv, NEW n \in Nat, NEW page \in {TwoMB, OneGB}, NEW size \in Nat, NEW from \in {"alloc", "pages"},
         Huge!hugepage_alloc_pages(n, page, size, from),
         from = "alloc" => n * page = LengthOf(size)
  PROVE  HugeInv'
<1>1. PICK l : l = n * page
  OBVIOUS
<1>2. PICK a \in Nat, v \in PageSizes : Given(a, l, l, v) /\ Huge!Hold(a, l, size, from)
  BY <1>1, PagesGive DEF HugeInv
<1>3. l \in Nat /\ l % Page = 0
  BY <1>2 DEF Given
<1>4. Huge!InPages(l) = l
  BY <1>3, InPages
<1>5. Fits(l, size, from)
  BY <1>1 DEF Fits
<1> QED BY <1>2, <1>4, <1>5, HoldKeeps

\* The allocations that choose the size of page keep it.
LEMMA AllocsKeep ==
  ASSUME HugeInv, NEW size \in Sizes,
         Huge!hugepage_alloc(size) \/ Huge!hugepage_alloc_transparent(size)
  PROVE  HugeInv'
<1>0. TwoMB \in Nat \ {0} /\ OneGB \in Nat \ {0} /\ size \in Nat \ {0}
  BY HugeConstants
<1>1. CASE Huge!hugepage_alloc(size)
  <2>1. PICK page : page = PageOf(size)
    OBVIOUS
  <2>2. page \in {TwoMB, OneGB}
    BY <2>1 DEF PageOf
  <2>3. PICK n : n = Huge!hugepage_num_pages_needed(size, page)
    OBVIOUS
  <2>4. n \in Nat /\ n * page = LengthOf(size)
    BY <1>0, <2>1, <2>2, <2>3, RoundUp DEF LengthOf
  <2>5. Huge!hugepage_alloc_pages(n, page, size, "alloc")
    BY <1>1, <2>1, <2>3 DEF Huge!hugepage_alloc, PageOf
  <2> QED BY <1>0, <2>2, <2>4, <2>5, PagesKeep
<1>2. CASE Huge!hugepage_alloc_transparent(size)
  <2>1. PICK n : n = Huge!hugepage_round_up(size, TwoMB)
    OBVIOUS
  <2>2. n \in Nat \ {0} /\ n % TwoMB = 0
    <3>1. n \in size .. size + TwoMB - 1 /\ n % TwoMB = 0
      BY <1>0, <2>1, RoundUp
    <3> QED BY <1>0, <3>1
  <2>3. TwoMB % Page = 0 /\ Page \in Nat \ {0} /\ Page % Page = 0
    BY HugeConstants
  <2>4. n % Page = 0
    <3>1. n \in Int
      BY <2>2
    <3> QED BY <1>0, <2>2, <2>3, <3>1, MultipleOfPage, Zenon
  <2>5. CASE Huge!HoldAligned(n, TwoMB, size, "transparent")
    <3>1. Huge!InPages(n) = n
      BY <2>2, <2>4, InPages
    <3>2. Fits(Huge!InPages(n), size, "transparent")
      BY <2>1, <3>1 DEF Fits
    <3> QED BY <1>0, <2>2, <2>3, <2>4, <2>5, <3>2, AlignedKeeps
  <2>6. CASE Huge!HoldAligned(size, Page, size, "ordinary")
    <3>1. Fits(Huge!InPages(size), size, "ordinary")
      BY DEF Fits
    <3> QED BY <1>0, <2>3, <2>6, <3>1, AlignedKeeps
  <2> QED BY <1>2, <2>1, <2>5, <2>6 DEF Huge!hugepage_alloc_transparent
<1> QED BY <1>1, <1>2

\* So does every step; the calls that change the configuration and the
\* reservation leave the mapping alone.
LEMMA HugeStep ==
  ASSUME HugeInv, Huge!Next
  PROVE  HugeInv'
<1>0. Huge!TypeOK /\ TwoMB \in Nat \ {0} /\ OneGB \in Nat \ {0} /\ MaxReserved \in Nat /\ Space \in Nat
  BY HugeConstants DEF HugeInv
<1>1. ASSUME NEW c \in Callers, Huge!hugepage_init(c) \/ Huge!InitFresh(c) PROVE HugeInv'
  <2>1. CASE Huge!hugepage_init(c)
    <3>1. Huge!TypeOK'
      BY <1>0, <2>1 DEF Huge!hugepage_init, Huge!Goto, Huge!Mapping, Huge!TypeOK
    <3> QED BY <2>1, <3>1, MappingKept DEF Huge!hugepage_init
  <2>2. CASE Huge!InitFresh(c)
    <3>1. Huge!TypeOK'
      BY <1>0, <2>2 DEF Huge!InitFresh, Huge!Fresh, Huge!Goto, Huge!Mapping, Huge!TypeOK
    <3> QED BY <2>2, <3>1, MappingKept DEF Huge!InitFresh
  <2> QED BY <1>1, <2>1, <2>2
<1>2. CASE Huge!hugepage_shutdown
  BY <1>0, <1>2, MappingKept DEF Huge!hugepage_shutdown, Huge!Mapping, Huge!Reservation, Huge!TypeOK
<1>3. CASE Huge!hugepage_enable_transparent \/ Huge!hugepage_disable_transparent
  <2>1. CASE Huge!hugepage_enable_transparent
    <3>1. reservation' = [reservation EXCEPT !.transparent = TRUE] /\ UNCHANGED <<Huge!Mapping, Huge!Reservation>>
      BY <2>1 DEF Huge!hugepage_enable_transparent
    <3>2. reservation' \in [initialized : BOOLEAN, fallback : BOOLEAN, transparent : BOOLEAN,
                            reserved : Int, lock : Callers \union {NoCaller}]
      BY <1>0, <3>1 DEF Huge!TypeOK
    <3>3. Huge!TypeOK'
      BY <1>0, <3>1, <3>2 DEF Huge!Mapping, Huge!Reservation, Huge!TypeOK
    <3> QED BY <3>1, <3>3, MappingKept
  <2>2. CASE Huge!hugepage_disable_transparent
    <3>1. reservation' = [reservation EXCEPT !.transparent = FALSE] /\ UNCHANGED <<Huge!Mapping, Huge!Reservation>>
      BY <2>2 DEF Huge!hugepage_disable_transparent
    <3>2. reservation' \in [initialized : BOOLEAN, fallback : BOOLEAN, transparent : BOOLEAN,
                            reserved : Int, lock : Callers \union {NoCaller}]
      BY <1>0, <3>1 DEF Huge!TypeOK
    <3>3. Huge!TypeOK'
      BY <1>0, <3>1, <3>2 DEF Huge!Mapping, Huge!Reservation, Huge!TypeOK
    <3> QED BY <3>1, <3>3, MappingKept
  <2> QED BY <1>3, <2>1, <2>2
<1>4. ASSUME NEW n \in 1 .. Space, Huge!hugepage_alloc_2mb(n) PROVE HugeInv'
  <2>1. n \in Nat /\ n * TwoMB \in Nat
    BY <1>0
  <2> QED BY <1>4, <2>1, PagesKeep DEF Huge!hugepage_alloc_2mb
<1>5. ASSUME NEW n \in 1 .. Space, Huge!hugepage_alloc_1gb(n) PROVE HugeInv'
  <2>1. n \in Nat /\ n * OneGB \in Nat
    BY <1>0
  <2> QED BY <1>5, <2>1, PagesKeep DEF Huge!hugepage_alloc_1gb
<1>6. ASSUME NEW c \in Callers, Huge!ReserveAdd(c) PROVE HugeInv'
  <2>1. PICK counted \in {0, num_pages[c]} :
          reservation' = [reservation EXCEPT !.reserved = @ + counted,
                            !.lock = IF place[c] = "configure_add" THEN NoCaller ELSE @]
    BY <1>6 DEF Huge!ReserveAdd
  <2>2. counted \in Int
    BY <1>0 DEF Huge!TypeOK
  <2>3. PICK lock : lock = IF place[c] = "configure_add" THEN NoCaller ELSE reservation.lock
    OBVIOUS
  <2>4. lock \in Callers \union {NoCaller} /\ reservation.reserved + counted \in Int
    BY <1>0, <2>2, <2>3 DEF Huge!TypeOK
  <2>5. reservation' = [reservation EXCEPT !.reserved = reservation.reserved + counted, !.lock = lock]
    BY <1>0, <2>1, <2>3 DEF Huge!TypeOK
  <2>6. reservation' \in [initialized : BOOLEAN, fallback : BOOLEAN, transparent : BOOLEAN,
                         reserved : Int, lock : Callers \union {NoCaller}]
    BY <1>0, <2>4, <2>5 DEF Huge!TypeOK
  <2>7. Huge!TypeOK'
    BY <1>0, <1>6, <2>6 DEF Huge!ReserveAdd, Huge!Goto, Huge!Mapping, Huge!TypeOK
  <2> QED BY <1>6, <2>7, MappingKept DEF Huge!ReserveAdd
<1>7. ASSUME NEW c \in Callers, Huge!ReleaseSub(c) PROVE HugeInv'
  <2>1. PICK counted \in {0, num_pages[c]} :
          reservation' = [reservation EXCEPT !.reserved = @ - counted]
    BY <1>7 DEF Huge!ReleaseSub
  <2>2. counted \in Int
    BY <1>0 DEF Huge!TypeOK
  <2>3. Huge!TypeOK'
    BY <1>0, <1>7, <2>1, <2>2 DEF Huge!ReleaseSub, Huge!Goto, Huge!Mapping, Huge!TypeOK
  <2> QED BY <1>7, <2>3, MappingKept DEF Huge!ReleaseSub
<1>8. ASSUME NEW c \in Callers, NEW n \in 1 .. MaxReserved, Huge!hugepage_reserve(c, n) PROVE HugeInv'
  <2>1. Huge!TypeOK'
    BY <1>0, <1>8 DEF Huge!hugepage_reserve, Huge!Reserve, Huge!Goto, Huge!Mapping, Huge!TypeOK
  <2> QED BY <1>8, <2>1, MappingKept DEF Huge!hugepage_reserve
<1>9. ASSUME NEW c \in Callers, NEW n \in 0 .. MaxReserved, NEW config \in Huge!Config,
             Huge!hugepage_configure(c, config, n)
      PROVE  HugeInv'
  <2>1. PICK reserves : reserves = (n > 0 /\ reservation.initialized)
    OBVIOUS
  <2>2. PICK lock : lock = IF reserves THEN c ELSE NoCaller
    OBVIOUS
  <2>3. reservation' = [reservation EXCEPT !.fallback = config.fallback,
                                           !.transparent = config.transparent, !.lock = lock]
    BY <1>9, <2>1, <2>2 DEF Huge!hugepage_configure
  <2>4. lock \in Callers \union {NoCaller} /\ config.fallback \in BOOLEAN /\ config.transparent \in BOOLEAN
    BY <2>2 DEF Huge!Config
  <2>5. reservation' \in [initialized : BOOLEAN, fallback : BOOLEAN, transparent : BOOLEAN,
                         reserved : Int, lock : Callers \union {NoCaller}]
    BY <1>0, <2>3, <2>4 DEF Huge!TypeOK
  <2>6. Huge!TypeOK'
    BY <1>0, <1>9, <2>5
    DEF Huge!hugepage_configure, Huge!Reserve, Huge!Goto, Huge!Mapping, Huge!TypeOK
  <2> QED BY <1>9, <2>6, MappingKept DEF Huge!hugepage_configure
<1>10. ASSUME NEW c \in Callers, NEW n \in 1 .. MaxReserved, Huge!hugepage_release_reserved(c, n)
       PROVE  HugeInv'
  <2>1. Huge!TypeOK'
    BY <1>0, <1>10
    DEF Huge!hugepage_release_reserved, Huge!hugepage_get_reserved_pages, Huge!Goto, Huge!Mapping,
        Huge!TypeOK
  <2> QED BY <1>10, <2>1, MappingKept DEF Huge!hugepage_release_reserved
<1> QED
  BY <1>1, <1>2, <1>3, <1>4, <1>5, <1>6, <1>7, <1>8, <1>9, <1>10, AllocsKeep, FreesKeep DEF Huge!Next

\* The invariant of the blocks holds in every reachable state.
LEMMA HugeAlways == Huge!Spec => []HugeInv
<1>1. Huge!Init => HugeInv
  <2> SUFFICES ASSUME Huge!Init PROVE HugeInv
    OBVIOUS
  <2>1. \A p \in Huge!Addresses : mapped[p] = 0
    BY DEF Huge!Init
  <2>2. WholePages(mapped)
    BY <2>1 DEF Huge!Init, WholePages, PageSizes, Huge!Splits, GoesOn
  <2>3. Huge!TypeOK
    <3>1. mapped \in [Huge!Addresses -> {0, Page, TwoMB, OneGB}]
      BY <2>2 DEF WholePages, PageSizes
    <3>2. reservation \in [initialized : BOOLEAN, fallback : BOOLEAN, transparent : BOOLEAN,
                          reserved : Int, lock : Callers \union {NoCaller}]
      BY DEF Huge!Init
    <3> QED BY <3>1, <3>2 DEF Huge!Init, Huge!TypeOK
  <2>4. held = {} /\ leaked = {}
    BY DEF Huge!Init
  <2>5. MappedIsHeld
    BY <2>1, <2>4 DEF MappedIsHeld, Huge!MappedIsHeld
  <2> QED BY <2>2, <2>3, <2>4, <2>5 DEF HugeInv, Uncut
<1>2. HugeInv /\ [Huge!Next]_Huge!vars => HugeInv'
  <2> SUFFICES ASSUME HugeInv, [Huge!Next]_Huge!vars PROVE HugeInv'
    OBVIOUS
  <2>1. CASE Huge!Next
    BY <2>1, HugeStep
  <2>2. CASE UNCHANGED Huge!vars
    <3>1. UNCHANGED Huge!Mapping /\ UNCHANGED <<reservation, place, num_pages, raced>>
      BY <2>2 DEF Huge!vars, Huge!Mapping
    <3>2. Huge!TypeOK'
      BY <3>1 DEF HugeInv, Huge!TypeOK, Huge!Mapping
    <3> QED BY <3>1, <3>2, MappingKept
  <2> QED BY <2>1, <2>2
<1> QED BY <1>1, <1>2, PTL DEF Huge!Spec

\* In every reachable state in which no free has unmapped what it should not
\* have, what is mapped is what clients hold, each block apart from the others,
\* and what memory_alloc_aligned could not give back of sizes that are not whole
\* pages: it gives back the head, and the tail of every other size, and no more,
\* whatever the kernel's choice of an address.
THEOREM WhatIsMappedIsHeld == Huge!Spec => []MappedIsHeld
<1>1. HugeInv => MappedIsHeld
  BY DEF HugeInv, MappedIsHeld, Huge!MappedIsHeld
<1> QED BY <1>1, HugeAlways, PTL

\* Nothing is split within or at the ends of a block, so that a munmap of its
\* length unmaps it whole and alone.
LEMMA UnmapsBlock ==
  ASSUME HugeInv, ~lost, NEW b \in held
  PROVE  /\ Huge!InPages(Length(b)) = Length(b)
         /\ Huge!munmap(mapped, b.ptr, Length(b)) = Huge!Mapped(mapped, b.pages, 0)
<1>1. PICK n : n = Length(b)
  OBVIOUS
<1>2. n \in Nat \ {0} /\ n % Page = 0 /\ (b.ptr) % Page = 0 /\ b.pages = Huge!Block(b.ptr, n)
  BY <1>1 DEF HugeInv, Laid
<1>3. Huge!InPages(n) = n
  BY <1>2, InPages
<1>4. ~Huge!Splits(mapped, b.ptr) /\ ~Huge!Splits(mapped, b.ptr + n)
  BY <1>1 DEF HugeInv, Uncut
<1>5. Huge!munmap(mapped, b.ptr, n) = Huge!Mapped(mapped, b.pages, 0)
  BY <1>2, <1>3, <1>4 DEF Huge!munmap
<1> QED BY <1>1, <1>3, <1>5

\* hugepage_free rounds the size as hugepage_alloc does, for every size of 2 MB
\* or more and every pair of page sizes: it unmaps the block whole and alone.
\* From 2 MB to below 1 GB hugepage_free_transparent does as much for a block
\* that was made with transparent pages on.
THEOREM FreesUndoAllocs == Huge!Spec => []FreeUndoesAlloc
<1>1. ASSUME HugeInv, NEW b \in held, ~lost, b.size >= TwoMB, b.from = "alloc"
      PROVE  Huge!munmap(mapped, b.ptr, Huge!hugepage_align_size(b.size))
               = Huge!Mapped(mapped, b.pages, 0)
  <2>1. Length(b) = LengthOf(b.size)
    BY <1>1 DEF HugeInv, Laid, Fits
  <2>2. Huge!hugepage_align_size(b.size) = Length(b)
    BY <1>1, <2>1, RangeOf, AlignedSize
  <2> QED BY <1>1, <2>2, UnmapsBlock
<1>2. ASSUME HugeInv, NEW b \in held, ~lost, b.size >= TwoMB, b.size < OneGB, b.from = "transparent"
      PROVE  Huge!memory_free_aligned(b.ptr, Huge!hugepage_align_size(b.size))
               = Huge!Mapped(mapped, b.pages, 0)
  <2>1. Length(b) = Huge!hugepage_round_up(b.size, TwoMB)
    BY <1>2 DEF HugeInv, Laid, Fits
  <2>2. b.size \in Nat /\ OneGB \in Nat
    BY <1>2, RangeOf, HugeConstants
  <2>3. ~(b.size >= OneGB)
    BY <1>2, <2>2
  <2>4. Huge!hugepage_align_size(b.size) = Length(b)
    BY <1>2, <2>1, <2>3 DEF Huge!hugepage_align_size
  <2> QED BY <1>2, <2>4, UnmapsBlock DEF Huge!memory_free_aligned
<1>3. HugeInv => FreeUndoesAlloc
  BY <1>1, <1>2 DEF FreeUndoesAlloc, Huge!FreeUndoesAlloc
<1> QED BY <1>3, HugeAlways, PTL

-----------------------------------------------------------------------------
(* The count of the reserved pages.                                        *)

Adders == {"reserve_add", "configure_add"}

(* Until a release has raced, there is one at most, and what it will       *)
(* subtract is covered; what is added is never below 0.                    *)
ReservedInv ==
  /\ \A c \in Callers : place[c] \in Adders => num_pages[c] >= 0
  /\ ~raced => /\ reservation.reserved >= 0
               /\ \A c \in Callers : place[c] = "release_sub" =>
                    0 <= num_pages[c] /\ num_pages[c] <= reservation.reserved
               /\ \A c, d \in Callers :
                    place[c] = "release_sub" /\ place[d] = "release_sub" => c = d

\* The steps of the reservation keep it.
LEMMA ReservedStep ==
  ASSUME Huge!TypeOK, ReservedInv, Huge!Next
  PROVE  ReservedInv'
<1>0. /\ reservation \in [initialized : BOOLEAN, fallback : BOOLEAN, transparent : BOOLEAN,
                          reserved : Int, lock : Callers \union {NoCaller}]
      /\ num_pages \in [Callers -> Int] /\ raced \in BOOLEAN /\ MaxReserved \in Nat
      /\ place \in [Callers -> {"idle", "init", "reserve_add", "configure_add", "release_sub"}]
  BY HugeConstants DEF Huge!TypeOK
<1>1. ASSUME UNCHANGED <<place, num_pages, raced>>, reservation'.reserved = reservation.reserved
      PROVE  ReservedInv'
  BY <1>1 DEF ReservedInv
<1>2. ASSUME NEW c \in Callers, Huge!hugepage_init(c) \/ Huge!InitFresh(c) PROVE ReservedInv'
  <2>1. CASE Huge!hugepage_init(c)
    <3>1. UNCHANGED <<reservation, num_pages, raced>> /\ place' = [place EXCEPT ![c] = "init"]
      BY <2>1 DEF Huge!hugepage_init, Huge!Goto
    <3> QED BY <1>0, <3>1 DEF ReservedInv, Adders
  <2>2. CASE Huge!InitFresh(c)
    <3>1. /\ reservation'.reserved = 0 /\ num_pages' = num_pages
          /\ place' = [place EXCEPT ![c] = "idle"]
          /\ raced' = (raced \/ Huge!Releasing)
      BY <2>2 DEF Huge!InitFresh, Huge!Fresh, Huge!Goto
    <3>2. ~raced' => ~raced /\ \A d \in Callers : place[d] # "release_sub"
      BY <3>1 DEF Huge!Releasing
    <3> QED BY <1>0, <3>1, <3>2 DEF ReservedInv, Adders
  <2> QED BY <1>2, <2>1, <2>2
<1>3. CASE Huge!hugepage_shutdown \/ Huge!hugepage_enable_transparent \/ Huge!hugepage_disable_transparent
  BY <1>0, <1>1, <1>3
  DEF Huge!hugepage_shutdown, Huge!hugepage_enable_transparent, Huge!hugepage_disable_transparent,
      Huge!Reservation
<1>4. ASSUME NEW a, NEW n, NEW size, NEW from, Huge!Hold(a, n, size, from) PROVE ReservedInv'
  BY <1>1, <1>4 DEF Huge!Hold, Huge!Reservation
<1>5. ASSUME NEW b \in held, Huge!hugepage_free(b) \/ Huge!hugepage_free_transparent(b) PROVE ReservedInv'
  BY <1>1, <1>5 DEF Huge!hugepage_free, Huge!hugepage_free_transparent, Huge!Release, Huge!Reservation
<1>6. ASSUME NEW c \in Callers, Huge!ReserveAdd(c) PROVE ReservedInv'
  <2>1. PICK counted \in {0, num_pages[c]} :
          reservation' = [reservation EXCEPT !.reserved = @ + counted,
                            !.lock = IF place[c] = "configure_add" THEN NoCaller ELSE @]
    BY <1>6 DEF Huge!ReserveAdd
  <2>2. reservation'.reserved = reservation.reserved + counted
    BY <1>0, <2>1
  <2>3. /\ place[c] \in Adders /\ place' = [place EXCEPT ![c] = "idle"]
        /\ num_pages' = [num_pages EXCEPT ![c] = 0] /\ raced' = raced
    BY <1>6 DEF Huge!ReserveAdd, Huge!Goto, Adders
  <2>4. counted \in Nat
    BY <1>0, <2>1, <2>3 DEF ReservedInv
  <2> QED BY <1>0, <2>2, <2>3, <2>4 DEF ReservedInv, Adders
<1>7. ASSUME NEW c \in Callers, Huge!ReleaseSub(c) PROVE ReservedInv'
  <2>1. PICK counted \in {0, num_pages[c]} :
          reservation' = [reservation EXCEPT !.reserved = @ - counted]
    BY <1>7 DEF Huge!ReleaseSub
  <2>2. reservation'.reserved = reservation.reserved - counted
    BY <1>0, <2>1
  <2>3. /\ place[c] = "release_sub" /\ place' = [place EXCEPT ![c] = "idle"]
        /\ num_pages' = [num_pages EXCEPT ![c] = 0] /\ raced' = raced
    BY <1>7 DEF Huge!ReleaseSub, Huge!Goto
  <2>4. ~raced => counted \in 0 .. reservation.reserved
    BY <1>0, <2>1, <2>3 DEF ReservedInv
  <2>5. ~raced => \A d \in Callers : place'[d] # "release_sub"
    BY <1>0, <2>3 DEF ReservedInv
  <2> QED BY <1>0, <2>2, <2>3, <2>4, <2>5 DEF ReservedInv, Adders
<1>8. ASSUME NEW c \in Callers, NEW n \in 1 .. MaxReserved, Huge!hugepage_reserve(c, n) PROVE ReservedInv'
  <2>1. /\ reservation' = reservation /\ raced' = raced /\ place' = [place EXCEPT ![c] = "reserve_add"]
        /\ num_pages' = [num_pages EXCEPT ![c] = n]
    BY <1>8 DEF Huge!hugepage_reserve, Huge!Reserve, Huge!Goto
  <2> QED BY <1>0, <2>1 DEF ReservedInv, Adders
<1>9. ASSUME NEW c \in Callers, NEW n \in 0 .. MaxReserved, NEW config \in Huge!Config,
             Huge!hugepage_configure(c, config, n)
      PROVE  ReservedInv'
  <2>1. reservation'.reserved = reservation.reserved /\ raced' = raced
    BY <1>0, <1>9 DEF Huge!hugepage_configure
  <2>2. \/ UNCHANGED <<place, num_pages>>
        \/ /\ place' = [place EXCEPT ![c] = "configure_add"]
           /\ num_pages' = [num_pages EXCEPT ![c] = n]
    BY <1>9 DEF Huge!hugepage_configure, Huge!Reserve, Huge!Goto
  <2> QED BY <1>0, <2>1, <2>2 DEF ReservedInv, Adders
<1>10. ASSUME NEW c \in Callers, NEW n \in 1 .. MaxReserved, Huge!hugepage_release_reserved(c, n)
       PROVE  ReservedInv'
  <2>1. PICK k : k = IF n > reservation.reserved THEN reservation.reserved ELSE n
    OBVIOUS
  <2>2. /\ reservation' = reservation /\ place' = [place EXCEPT ![c] = "release_sub"]
        /\ num_pages' = [num_pages EXCEPT ![c] = k]
        /\ raced' = (raced \/ Huge!Releasing)
    BY <1>10, <2>1 DEF Huge!hugepage_release_reserved, Huge!hugepage_get_reserved_pages, Huge!Goto
  <2>3. ~raced' => ~raced /\ \A d \in Callers : place[d] # "release_sub"
    BY <2>2 DEF Huge!Releasing
  <2>4. k \in Int /\ k <= reservation.reserved /\ (reservation.reserved >= 0 => k >= 0)
    BY <1>0, <2>1
  <2> QED BY <1>0, <2>2, <2>3, <2>4 DEF ReservedInv, Adders
<1>11. ASSUME NEW n, NEW page, NEW size, NEW from, Huge!hugepage_alloc_pages(n, page, size, from)
       PROVE  ReservedInv'
  BY <1>4, <1>11 DEF Huge!hugepage_alloc_pages, Huge!HoldAligned
<1>12. ASSUME NEW size, Huge!hugepage_alloc(size) \/ Huge!hugepage_alloc_transparent(size)
       PROVE  ReservedInv'
  BY <1>4, <1>11, <1>12 DEF Huge!hugepage_alloc, Huge!hugepage_alloc_transparent, Huge!HoldAligned
<1> QED
  BY <1>2, <1>3, <1>5, <1>6, <1>7, <1>8, <1>9, <1>10, <1>11, <1>12
  DEF Huge!Next, Huge!hugepage_alloc_2mb, Huge!hugepage_alloc_1gb

\* The count of the reserved pages goes below 0, and wraps, only after two
\* releases have overlapped or an init has run within one, however many threads
\* reserve, configure and release.
THEOREM ReservationCovered == Huge!Spec => []ReservedCovered
<1>1. Huge!Init => ReservedInv
  BY DEF Huge!Init, ReservedInv, Adders
<1>2. HugeInv /\ ReservedInv /\ [Huge!Next]_Huge!vars => ReservedInv'
  <2> SUFFICES ASSUME HugeInv, ReservedInv, [Huge!Next]_Huge!vars PROVE ReservedInv'
    OBVIOUS
  <2>1. CASE Huge!Next
    BY <2>1, ReservedStep DEF HugeInv
  <2>2. CASE UNCHANGED Huge!vars
    BY <2>2 DEF Huge!vars, ReservedInv
  <2> QED BY <2>1, <2>2
<1>3. HugeInv /\ ReservedInv => ReservedCovered
  BY DEF HugeInv, Huge!TypeOK, ReservedInv, ReservedCovered, Huge!ReservedCovered
<1> QED BY <1>1, <1>2, <1>3, HugeAlways, PTL DEF Huge!Spec

=============================================================================
