-------------------------- MODULE MCMemoryAllocator --------------------------
(***************************************************************************)
(* A process of eight pages of four bytes with libraries at pages 2 and 6. *)
(* The first position is so low that pos - SearchRange wraps.              *)
(***************************************************************************)
EXTENDS MemoryAllocator

MCForeign   == (8..11) \cup (24..27)
MCPositions == {9, 17, 26}
=============================================================================
