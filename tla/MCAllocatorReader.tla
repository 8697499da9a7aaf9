------------------------- MODULE MCAllocatorReader -------------------------
(***************************************************************************)
(* AllocatorReader with the blocks of MCAllocator.                         *)
(***************************************************************************)
EXTENDS AllocatorReader, MCAllocator
=============================================================================
