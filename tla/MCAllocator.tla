---------------------------- MODULE MCAllocator ----------------------------
(***************************************************************************)
(* A small instance of Allocator.  Headers of 4 bytes and an alignment of  *)
(* 2 keep the relations of the code's 32 and 16.  The largest request      *)
(* needs 14 bytes in all (2 bytes, aligned to 8, behind a header), so that *)
(* nothing wraps at 16, and b2 starts at an address that is a multiple of  *)
(* HeaderAlign but of no larger alignment.                                 *)
(***************************************************************************)
EXTENDS Allocator, TLC

CONSTANTS t1, t2, b1, b2

MCBase == b1 :> 0 @@ b2 :> 2
=============================================================================
