--------------------------- MODULE MCLirsManager ---------------------------
(***************************************************************************)
(* LirsManager with blocks of one size.                                    *)
(***************************************************************************)

EXTENDS LirsManager, TLC

CONSTANTS k1, k2, k3, k4, k5, k6, v, t1, t2

Sizes == v :> 1
Symmetry == Permutations(Keys) \union Permutations(Threads)
=============================================================================
