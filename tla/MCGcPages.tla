----------------------------- MODULE MCGcPages ------------------------------
(***************************************************************************)
(* Gc and HugePages, with model values for threads, regions and callers.   *)
(* The regions of a collector are mapped by the same memory_alloc_aligned  *)
(* as the large pages, and the two have no state in common: in a behaviour *)
(* one of them moves.                                                      *)
(***************************************************************************)

EXTENDS Gc, TLC

CONSTANTS  \* those of HugePages
  Page, TwoMB, OneGB, Space, Sizes, MaxHeld, Callers, NoCaller, MaxReserved

VARIABLES
  reservation, mapped, held, leaked, lost, place, num_pages, raced,
  moving  \* which of the two

Huge == INSTANCE HugePages WITH manager <- reservation, pc <- place

ASSUME HugeAssumption == Huge!ConstantsOK

pages == <<reservation, mapped, held, leaked, lost, place, num_pages, raced>>

CollectorMoves == moving = "collector" /\ Next /\ UNCHANGED <<pages, moving>>
PagesMove == moving = "pages" /\ Huge!Next /\ UNCHANGED <<vars, moving>>
EitherInit == Init /\ Huge!Init /\ moving \in {"collector", "pages"}
EitherSpec ==
  /\ EitherInit
  /\ [][CollectorMoves \/ PagesMove]_<<vars, pages, moving>>

\* A run does not go on once a free has unmapped what it should not have, or a
\* release has raced.  Pages are reserved while nothing is mapped: blocks and
\* the reservation have the configuration in common, and no more.
Sound ==
  /\ ~lost /\ ~raced
  /\ \/ held = {} /\ leaked = {}
     \/ reservation.reserved = 0 /\ \A c \in Callers : place[c] \in {"idle", "init"}

Symmetry == Permutations(Threads) \union Permutations(Region)

-----------------------------------------------------------------------------
(* The properties of the large pages, as HugePages has them.               *)

\* What is mapped is what clients hold.
MappedIsHeld == Huge!MappedIsHeld

\* A free unmaps a block of hugepage_alloc whole and alone.
FreeUndoesAlloc == Huge!FreeUndoesAlloc

\* The count of the reserved pages falls below 0 only in a race.
ReservedCovered == Huge!ReservedCovered
=============================================================================
