------------------------------ MODULE MCArena -------------------------------
(***************************************************************************)
(* An instance of Arena for TLC.                                           *)
(***************************************************************************)

EXTENDS Arena, TLC

Symmetry == Permutations(Threads)

Sizes == <<1, 2, 8>>
=============================================================================
