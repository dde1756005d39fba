------------------------------ MODULE MCFakeJNI ------------------------------
(***************************************************************************)
(* A library whose JNI_OnLoad starts a thread.  Slots 6 and 33 have hooks, *)
(* 4 and 25 do not.                                                        *)
(***************************************************************************)
EXTENDS FakeJNI, TLC

\* An address that new may return is like any other.
HeapSymmetry == Permutations(Heap)
=============================================================================
