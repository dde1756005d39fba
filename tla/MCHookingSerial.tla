-------------------------- MODULE MCHookingSerial --------------------------
(* The instance of Hooking on which calls come one at a time. *)
EXTENDS MCHooking

\* What the theorems of HookingProofs suppose holds of this instance.
ASSUME SerialInstance == SerialCalls
=============================================================================
