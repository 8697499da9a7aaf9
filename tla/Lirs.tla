-------------------------------- MODULE Lirs --------------------------------
(***************************************************************************)
(* cache/lirs/lirs.c: the LIRS cache, a stack S of recently used keys and  *)
(* a queue Q of the resident blocks that may be evicted.  Every operation  *)
(* holds the cache's lock from beginning to end, so it is one step.        *)
(*                                                                         *)
(* The search of a bucket for an absent key reads beyond the last node     *)
(* (hlist_for_each_entry, utils/list.h:196); it faults or finds nothing.   *)
(* Clearing reads the blocks it has freed; it faults or goes on.           *)
(***************************************************************************)

EXTENDS Integers, Sequences, SequencesExt, FiniteSets, FiniteSetsExt, Functions

CONSTANTS
  Keys,        \* the keys of the clients
  Values,      \* what they store
  SizeOf,      \* the size of a value
  Capacities,  \* the capacities a cache is created with or resized to
  MinHir,      \* LIRS_MIN_HIR_BLOCKS
  MaxSize,     \* max_size
  Word         \* 2 ^ (the bits of total_size)

(* The share of the HIR blocks is the larger of MinHir and LIRS_HIR_RATIO,  *)
(* a hundredth, of the capacity: below 300, and lirs_manager.c asks for 64 *)
(* at most, it is MinHir whenever it is computed.                          *)
ASSUME LirsAssumption ==
  /\ SizeOf \in [Values -> Nat \ {0}]
  /\ Capacities \subseteq Nat
  /\ MinHir \in Nat \ {0} /\ MaxSize \in Nat /\ Word \in Nat
  /\ MaxSize < Word
  /\ \A n \in Capacities : n > MinHir /\ n \div 100 <= MinHir

VARIABLES
  status,    \* "none" before lirs_create, "live", "stuck" with the lock, "fault"
  capacity,
  S,         \* s_stack, the top first
  Q,         \* q_queue, the head first
  blocks,    \* the blocks in the hash table, by key
  lir_count,
  hir_resident_count,
  total_size,   \* modulo Word
  miscounted   \* history: a non-resident block was removed or got another value

cache == <<S, Q, blocks, lir_count, hir_resident_count, total_size>>
vars == <<status, capacity, cache, miscounted>>

LIR == "LIRS_BLOCK_LIR"
HIR_RESIDENT == "LIRS_BLOCK_HIR_RESIDENT"
HIR_NON_RESIDENT == "LIRS_BLOCK_HIR_NON_RESIDENT"

Block == [type : {LIR, HIR_RESIDENT, HIR_NON_RESIDENT}, value : Values]

hir_capacity == MinHir

-----------------------------------------------------------------------------
(* The helpers turn one cache into another; a cache is a record here.      *)

Cache == [S |-> S, Q |-> Q, blocks |-> blocks, lir |-> lir_count,
          hir |-> hir_resident_count, total |-> total_size]

Empty == [S |-> <<>>, Q |-> <<>>, blocks |-> <<>>, lir |-> 0, hir |-> 0, total |-> 0]

Wrap(n) == n % Word
SizesOf(c, keys) == SumFunctionOnSet([k \in keys |-> SizeOf[c.blocks[k].value]], keys)

Become(c, k, type) == [c EXCEPT !.blocks[k].type = type]
OutOfS(c, k) == [c EXCEPT !.S = RemoveFirst(@, k)]
OutOfQ(c, k) == [c EXCEPT !.Q = RemoveFirst(@, k)]
OnTop(c, k) == [c EXCEPT !.S = <<k>> \o RemoveFirst(@, k)]
Queued(c, k) == IF Contains(c.Q, k) THEN c ELSE [c EXCEPT !.Q = Append(@, k)]
Destroy(c, keys) == [c EXCEPT !.blocks = Restrict(@, DOMAIN @ \ keys)]

\* The non-resident blocks below the lowest LIR block of S are destroyed, the
\* resident ones only leave S.
lirs_prune_s_stack(c) ==
  LET lowest == Max({0} \union {i \in DOMAIN c.S : c.blocks[c.S[i]].type = LIR})
      below == {c.S[i] : i \in lowest + 1 .. Len(c.S)}
  IN Destroy([c EXCEPT !.S = SubSeq(@, 1, lowest)],
             {k \in below : c.blocks[k].type = HIR_NON_RESIDENT})

\* The head of Q goes until Q fits; a block that is not in S goes altogether.
Excess(c) == IF Len(c.Q) > hir_capacity THEN Len(c.Q) - hir_capacity ELSE 0
Evicted(c) == {c.Q[i] : i \in 1 .. Excess(c)}

\* A mistake: the counters keep the evicted blocks.
EvictUncounted(c) ==
  Destroy([c EXCEPT !.Q = SubSeq(@, Excess(c) + 1, Len(@)),
                    !.blocks = [k \in DOMAIN @ |-> IF k \in Evicted(c)
                                  THEN [@[k] EXCEPT !.type = HIR_NON_RESIDENT] ELSE @[k]]],
          Evicted(c) \ Range(c.S))

lirs_evict_hir(c) ==
  Destroy([c EXCEPT !.Q = SubSeq(@, Excess(c) + 1, Len(@)),
                    !.blocks = [k \in DOMAIN @ |-> IF k \in Evicted(c)
                                  THEN [@[k] EXCEPT !.type = HIR_NON_RESIDENT] ELSE @[k]],
                    !.hir = @ - Excess(c),
                    !.total = Wrap(@ - SizesOf(c, Evicted(c)))],
          Evicted(c) \ Range(c.S))

\* A mistake: the block only leaves the LIR blocks.
DemoteUnqueued(c, k) == [Become(c, k, HIR_RESIDENT) EXCEPT !.lir = @ - 1, !.hir = @ + 1]
\* A mistake: the block is evicted at once.
DemoteEvict(c, k) == [Become(c, k, HIR_NON_RESIDENT) EXCEPT !.lir = @ - 1]
lirs_demote_lir(c, k) ==
  Queued([Become(c, k, HIR_RESIDENT) EXCEPT !.lir = @ - 1, !.hir = @ + 1], k)

\* The block becomes LIR and the LIR block at the bottom, which may be the same
\* block, becomes HIR and leaves S.
lirs_promote_hir(c, k) ==
  LET up == OutOfQ([Become(c, k, LIR) EXCEPT !.lir = @ + 1, !.hir = @ - 1], k)
      bottom == Last(up.S)
      down == IF up.blocks[bottom].type = LIR
              THEN OutOfS(lirs_demote_lir(up, bottom), bottom) ELSE up
  IN lirs_evict_hir(lirs_prune_s_stack(down))

-----------------------------------------------------------------------------

Init ==
  /\ status = "none" /\ capacity = 0 /\ miscounted = FALSE
  /\ S = <<>> /\ Q = <<>> /\ blocks = <<>>
  /\ lir_count = 0 /\ hir_resident_count = 0 /\ total_size = 0

Known(k) == k \in DOMAIN blocks
Type(k) == blocks[k].type

Becomes(c) ==
  /\ S' = c.S /\ Q' = c.Q /\ blocks' = c.blocks
  /\ lir_count' = c.lir /\ hir_resident_count' = c.hir /\ total_size' = c.total

Keep == UNCHANGED <<status, capacity, miscounted>>
Op(c) == status = "live" /\ Becomes(c) /\ Keep
OpOn(k, c) ==
  /\ status = "live" /\ Becomes(c) /\ UNCHANGED <<status, capacity>>
  /\ miscounted' = (miscounted \/ Type(k) = HIR_NON_RESIDENT)

\* Nothing is said of the cache after a fault or when its lock is never released.
End(how) == status' = how /\ capacity' = 0 /\ miscounted' = FALSE /\ Becomes(Empty)

lirs_create ==
  /\ status = "none" /\ status' = "live"
  /\ capacity' \in Capacities
  /\ UNCHANGED <<cache, miscounted>>

\* A search for a key that is not there ...
AbsentFault == status = "live" /\ (\E k \in Keys : ~Known(k)) /\ End("fault")
\* ... that finds nothing: lirs_get and lirs_remove change nothing then.

GetLir(k) ==
  /\ Known(k) /\ Type(k) = LIR
  /\ Op(lirs_prune_s_stack(OnTop(Cache, k)))

\* A block in S is promoted; it goes back on top, and to Q if it is still HIR.
GetResident(k) ==
  /\ Known(k) /\ Type(k) = HIR_RESIDENT
  /\ LET up == IF Contains(S, k) THEN lirs_promote_hir(Cache, k) ELSE Cache
         top == OnTop(up, k)
     IN Op(lirs_evict_hir(IF up.blocks[k].type = HIR_RESIDENT THEN Queued(top, k) ELSE top))

GetNonResident(k) ==
  /\ Known(k) /\ Type(k) = HIR_NON_RESIDENT /\ Contains(S, k)
  /\ Op(lirs_prune_s_stack(Destroy(OutOfS(Cache, k), {k})))

lirs_get(k) == GetLir(k) \/ GetResident(k) \/ GetNonResident(k)

\* A known key keeps its type, whatever it is, and takes the new value.
PutKnown(k, v) ==
  /\ Known(k) /\ v # blocks[k].value
  /\ OpOn(k, [Cache EXCEPT !.blocks[k].value = v,
                           !.total = Wrap(@ - SizeOf[blocks[k].value] + SizeOf[v])])

\* total_size + size is computed modulo Word as well.
Room(c, v) == Wrap(c.total + SizeOf[v]) <= MaxSize

\* What is evicted and pruned to make room stays so if there is none.
MakeRoom(v) ==
  LET evicted == lirs_evict_hir(Cache)
  IN IF Room(Cache, v) THEN Cache
     ELSE IF Room(evicted, v) THEN evicted ELSE lirs_prune_s_stack(evicted)

\* There is no room (-2), or no memory for the block (-3).
PutRefused(k, v) == ~Known(k) /\ Op(MakeRoom(v))

\* The new block is LIR while S is short, else HIR.
PutNew(k, v) ==
  LET c == MakeRoom(v)
      lir == Len(c.S) < capacity - hir_capacity
      block == [type |-> IF lir THEN LIR ELSE HIR_RESIDENT, value |-> v]
      new == [c EXCEPT !.blocks = [x \in DOMAIN @ \union {k} |-> IF x = k THEN block ELSE @[x]],
                       !.lir = IF lir THEN @ + 1 ELSE @,
                       !.hir = IF lir THEN @ ELSE @ + 1,
                       !.total = Wrap(@ + SizeOf[v])]
      placed == OnTop(IF lir THEN new ELSE Queued(new, k), k)
  IN /\ ~Known(k) /\ Room(c, v)
     /\ Op(lirs_evict_hir(lirs_prune_s_stack(placed)))

lirs_put(k, v) == PutKnown(k, v) \/ PutRefused(k, v) \/ PutNew(k, v)

\* The size of a non-resident block is subtracted as well, a second time.
lirs_remove(k) ==
  /\ Known(k)
  /\ LET c == [OutOfQ(OutOfS(Cache, k), k) EXCEPT
                 !.total = Wrap(@ - SizeOf[blocks[k].value]),
                 !.lir = IF Type(k) = LIR THEN @ - 1 ELSE @,
                 !.hir = IF Type(k) = HIR_RESIDENT THEN @ - 1 ELSE @]
     IN OpOn(k, lirs_prune_s_stack(Destroy(c, {k})))

\* The blocks of S are destroyed, then those of Q that were not in S: to know
\* that, a block of both is read after it was freed.
ReadsFreed == Range(S) \cap Range(Q) # {}
ClearFault == status = "live" /\ ReadsFreed /\ End("fault")
lirs_clear == Op(Empty)
lirs_destroy ==
  /\ status = "live" /\ status' = "none" /\ capacity' = 0 /\ miscounted' = FALSE
  /\ Becomes(Empty)

\* The LIR blocks in excess leave S from its bottom and go to the end of Q one
\* after the other; one that is not LIR stays where it is and the loop goes on
\* for ever with the lock.
Resize(n) ==
  LET target == n - hir_capacity
      excess == IF lir_count > target THEN lir_count - target ELSE 0
      bottom == [i \in 1 .. excess |-> S[Len(S) + 1 - i]]
      demoted == [Cache EXCEPT !.S = SubSeq(@, 1, Len(@) - excess), !.Q = @ \o bottom,
                               !.lir = @ - excess, !.hir = @ + excess,
                               !.blocks = [k \in DOMAIN @ |-> IF k \in Range(bottom)
                                  THEN [@[k] EXCEPT !.type = HIR_RESIDENT] ELSE @[k]]]
  IN IF \E i \in 1 .. excess : Type(bottom[i]) # LIR
     THEN End("stuck")
     ELSE /\ capacity' = n /\ UNCHANGED <<status, miscounted>>
          /\ Becomes(lirs_evict_hir(demoted))

lirs_resize == status = "live" /\ \E n \in Capacities : Resize(n)

Next ==
  \/ lirs_create \/ lirs_destroy \/ lirs_clear \/ lirs_resize
  \/ AbsentFault \/ ClearFault
  \/ \E k \in Keys : lirs_get(k) \/ lirs_remove(k) \/ \E v \in Values : lirs_put(k, v)

Spec == Init /\ [][Next]_vars

-----------------------------------------------------------------------------

Resident == {k \in DOMAIN blocks : blocks[k].type # HIR_NON_RESIDENT}

(* The types of the variables; neither list holds a key twice, nor one     *)
(* that has no block.                                                      *)
TypeOK ==
  /\ status \in {"none", "live", "stuck", "fault"}
  /\ capacity \in Capacities \union {0} /\ miscounted \in BOOLEAN
  /\ \A s \in {S, Q} : IsInjective(s) /\ Range(s) \subseteq DOMAIN blocks
  /\ DOMAIN blocks \subseteq Keys /\ Range(blocks) \subseteq Block
  /\ total_size \in 0 .. Word - 1

(* The lists find every block, as lirs_clear and the evictions need: Q has *)
(* exactly the resident HIR blocks, S all the LIR and non-resident ones.   *)
EveryBlockListed ==
  /\ Range(Q) = {k \in DOMAIN blocks : Type(k) = HIR_RESIDENT}
  /\ \A k \in DOMAIN blocks : Type(k) # HIR_RESIDENT => Contains(S, k)

(* lirs_size, which is computed from the two counters, is the number of    *)
(* resident blocks through every promotion, demotion, eviction and         *)
(* pruning; and total_size, modulo 2^64, is the size of those blocks until *)
(* a block that was evicted already is removed or given another value: its *)
(* size is then subtracted twice.                                          *)
CountersAreResident ==
  /\ lir_count + hir_resident_count = Cardinality(Resident)
  /\ ~miscounted => total_size = Wrap(SizesOf(Cache, Resident))

(* A block of low reuse distance survives the use of other keys: no get    *)
(* and no put turns a LIR block non-resident or destroys it, be it demoted *)
(* in that step.                                                           *)
LirSurvives ==
  [][(\E k \in Keys : lirs_get(k) \/ \E v \in Values : lirs_put(k, v))
       => \A k \in DOMAIN blocks : Type(k) = LIR => k \in Resident']_vars
=============================================================================
