----------------------------- MODULE MCHooking -----------------------------
(* Instances of Hooking for TLC: pages of 16 bytes. *)
EXTENDS Hooking, TLC

\* The loader maps code readable and executable.
AllCode == [p \in 0..2 |-> "rx"]

\* And two pages of data behind it writable.
CodeAndData == [p \in 0..4 |-> IF p > 2 THEN "rw" ELSE "rx"]

\* A function whose trampoline crosses into the next page and one whose trampoline
\* ends with the last page of code; both are ARM functions.
ArmTargets == {12, 40}

\* The null address, and one behind the last page.
NoFunctions == {0, 96}

\* A Thumb function.
ThumbTarget == {11}

\* A Thumb function that ends with its page.
ThumbLastOfPage == {9}

\* Callers are interchangeable.
CallerSymmetry == Permutations(Callers)
=============================================================================
