------------------------------- MODULE MCLirs -------------------------------
(***************************************************************************)
(* Lirs with model values for the keys, and values of two sizes.           *)
(***************************************************************************)

EXTENDS Lirs, TLC

CONSTANTS k1, k2, k3, k4, k5, v1, v2

Sizes == v1 :> 1 @@ v2 :> 2
Symmetry == Permutations(Keys)
=============================================================================
