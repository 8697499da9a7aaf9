------------------------------ MODULE MCTcache ------------------------------
(***************************************************************************)
(* Tcache with an address of 48 bytes that the arena may give twice, and   *)
(* one of 8 bytes in the second run.  The usable memory of a chunk begins  *)
(* at 1600.                                                                *)
(***************************************************************************)

EXTENDS Tcache, TLC

CONSTANTS t1, t2, b1, b2, b3

MCClass == b1 :> 3 @@ b2 :> 3 @@ b3 :> 0
MCOffset == b1 :> 1792 @@ b2 :> 1792 @@ b3 :> 5696
Symmetry == Permutations(Threads) \union Permutations({b1, b2})
=============================================================================
