------------------------------ MODULE GcRegion ------------------------------
(***************************************************************************)
(* gc/gc_region.c: the region manager of the garbage collector.  A region  *)
(* is in the list of its type, a free one in the list of EMPTY regions.    *)
(* The manager's lock is held by gc_region_alloc, _free and _promote from  *)
(* beginning to end, so each of them is one step of the module that calls  *)
(* it (Gc); a region's own lock is not taken by _alloc and _free.          *)
(*                                                                         *)
(* Sizes are counted in regions: every region has the same size.           *)
(***************************************************************************)

EXTENDS Integers, Sequences, SequencesExt, FiniteSets

CONSTANTS
  Region,       \* the regions there are memory for, max_regions at most
  YoungAge,     \* a YOUNG region that is older is promoted (1)
  SurvivorAge,  \* a SURVIVOR region that is older is promoted (15)
  AgeCap        \* a bound of the model: age stays there

EMPTY == "GC_REGION_EMPTY"
YOUNG == "GC_REGION_YOUNG"
SURVIVOR == "GC_REGION_SURVIVOR"
OLD == "GC_REGION_OLD"
HUMONGOUS == "GC_REGION_HUMONGOUS"
PINNED == "GC_REGION_PINNED"
Types == {EMPTY, YOUNG, SURVIVOR, OLD, HUMONGOUS, PINNED}

ASSUME GcRegionAssumption ==
  /\ YoungAge \in Nat /\ SurvivorAge \in Nat /\ AgeCap \in Nat
  /\ AgeCap > YoungAge /\ AgeCap > SurvivorAge
  /\ IsFiniteSet(Region)

VARIABLES
  regions,     \* the regions of the array regions[], created and not destroyed
  list,        \* the lists, by the type they are meant for
  region_count, \* free_region_count, young_region_count, ... by type
  used_size,   \* in regions
  type,
  age

manager == <<regions, list, region_count, used_size, type, age>>

ManagerInit ==
  /\ regions = {}
  /\ list = [t \in Types |-> <<>>]
  /\ region_count = [t \in Types |-> 0]
  /\ used_size = 0
  /\ type = [r \in Region |-> EMPTY]
  /\ age = [r \in Region |-> 0]

gc_region_manager_init ==
  /\ regions' = {}
  /\ list' = [t \in Types |-> <<>>]
  /\ region_count' = [t \in Types |-> 0]
  /\ used_size' = 0
  /\ type' = [r \in Region |-> EMPTY]
  /\ age' = [r \in Region |-> 0]

\* The memory goes, the lists and counts stay.
gc_region_manager_shutdown ==
  /\ regions' = {}
  /\ UNCHANGED <<list, region_count, used_size, type, age>>

-----------------------------------------------------------------------------

Listed(r) == \E t \in Types : Contains(list[t], r)

\* list_del of a region that is in no list follows a null pointer.
Without(r) == [t \in Types |-> RemoveFirst(list[t], r)]
Count(t, n) == [region_count EXCEPT ![t] = @ + n]

\* What gc_region_alloc finds: the first free region, or a new one.
Available(r) ==
  IF list[EMPTY] # <<>> THEN r = Head(list[EMPTY]) ELSE r \in Region \ regions

gc_region_alloc(r, t) ==
  /\ Available(r)
  /\ regions' = regions \union {r}
  /\ list' = [Without(r) EXCEPT ![t] = Append(@, r)]
  /\ region_count' = [Count(t, 1) EXCEPT ![EMPTY] = IF r \in regions THEN @ - 1 ELSE @]
  /\ used_size' = used_size + 1
  /\ type' = [type EXCEPT ![r] = t]
  /\ age' = [age EXCEPT ![r] = 0]

gc_region_free(r) ==
  /\ Listed(r)
  /\ list' = [Without(r) EXCEPT ![EMPTY] = Append(@, r)]
  /\ region_count' = [Count(type[r], -1) EXCEPT ![EMPTY] = @ + 1]
  /\ used_size' = used_size - 1
  /\ type' = [type EXCEPT ![r] = EMPTY]
  /\ age' = [age EXCEPT ![r] = 0]
  /\ UNCHANGED regions

\* The type after a promotion.  A region of another type than these two
\* leaves its list all the same and enters none.
Promoted == [t \in {YOUNG, SURVIVOR} |-> IF t = YOUNG THEN SURVIVOR ELSE OLD]

\* A mistake: the region is not taken out of the list it is in.
PromoteTwice(r) ==
  /\ Listed(r)
  /\ IF type[r] \in DOMAIN Promoted
     THEN LET t == Promoted[type[r]] IN
          /\ list' = [list EXCEPT ![t] = Append(@, r)]
          /\ region_count' = [Count(type[r], -1) EXCEPT ![t] = @ + 1]
          /\ type' = [type EXCEPT ![r] = t]
     ELSE list' = Without(r) /\ UNCHANGED <<region_count, type>>
  /\ UNCHANGED <<regions, used_size, age>>

gc_region_promote(r) ==
  /\ Listed(r)
  /\ IF type[r] \in DOMAIN Promoted
     THEN LET t == Promoted[type[r]] IN
          /\ list' = [Without(r) EXCEPT ![t] = Append(@, r)]
          /\ region_count' = [Count(type[r], -1) EXCEPT ![t] = @ + 1]
          /\ type' = [type EXCEPT ![r] = t]
     ELSE list' = Without(r) /\ UNCHANGED <<region_count, type>>
  /\ UNCHANGED <<regions, used_size, age>>

\* The part of gc_region_age before gc_region_promote, which it may call.
Older(r) == IF age[r] < AgeCap THEN age[r] + 1 ELSE AgeCap
TooOld(r) ==
  \/ type[r] = YOUNG /\ Older(r) > YoungAge
  \/ type[r] = SURVIVOR /\ Older(r) > SurvivorAge

GrowOlder(r) ==
  /\ age' = [age EXCEPT ![r] = Older(r)]
  /\ UNCHANGED <<regions, list, region_count, used_size, type>>

-----------------------------------------------------------------------------

ManagerTypeOK ==
  /\ regions \subseteq Region
  /\ list \in [Types -> Seq(Region)]
  /\ region_count \in [Types -> Int]
  /\ used_size \in Int
  /\ type \in [Region -> Types]
  /\ age \in [Region -> 0 .. AgeCap]

\* The counts of the manager are those of its regions by their types, and all
\* regions but the free ones are in use, whatever threads do at the same time
\* and whichever list a region has got lost from.
CountsByType ==
  regions # {} =>
    /\ \A t \in Types : region_count[t] = Cardinality({r \in regions : type[r] = t})
    /\ used_size = Cardinality({r \in regions : type[r] # EMPTY})

\* A region is in one list at most, once, and this is the list of its type: what
\* the collector takes for a young region is one.
ListedByType ==
  regions # {} =>
    \A t \in Types : /\ IsInjective(list[t])
                     /\ \A i \in DOMAIN list[t] : type[list[t][i]] = t
=============================================================================
