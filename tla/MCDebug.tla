------------------------------ MODULE MCDebug -------------------------------
(***************************************************************************)
(* The leak detector and the statistics of debug/.  The two have no state  *)
(* in common: in a behaviour one of them moves.                            *)
(***************************************************************************)

EXTENDS LeakDetector, TLC

CONSTANTS
  Clients, Capacity, MaxAllocs, MaxResets, NULL  \* those of StatsCollector

VARIABLES
  initialized, collecting, stopped, allocated, freed, samples, bucket_size_set, class,
  entries, count, capacity, history_lock, global_lock, place, seen, blocks, resets, calls,
  moving  \* which of the two

Stats == INSTANCE StatsCollector
           WITH Threads <- Clients, enabled <- collecting, pc <- place, held <- blocks,
                fault <- stopped

ASSUME StatsAssumption == Stats!ConstantsOK

collector ==
  <<initialized, collecting, stopped, allocated, freed, samples, bucket_size_set, class,
    entries, count, capacity, history_lock, global_lock, place, seen, blocks, resets, calls>>

DetectorMoves == moving = "detector" /\ Next /\ UNCHANGED <<collector, moving>>
StatisticsMove == moving = "statistics" /\ Stats!Next /\ UNCHANGED <<vars, moving>>
EitherInit == Init /\ Stats!Init /\ moving \in {"detector", "statistics"}
EitherSpec ==
  /\ EitherInit
  /\ [][DetectorMoves \/ StatisticsMove]_<<vars, collector, moving>>

\* Pointers are only compared, and the clients of the statistics are alike.
Symmetry == Permutations(Pointers) \union Permutations(Clients)

-----------------------------------------------------------------------------
(* The properties of the statistics, as StatsCollector has them.           *)

\* The updates of the history keep within its array.
HistoryBounded == Stats!HistoryBounded

\* Until a reset, what the history shows never falls.
HistoryInOrder == Stats!HistoryInOrder
=============================================================================
