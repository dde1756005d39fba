---------------------------- MODULE MCThreadPool ----------------------------
(* Instance of ThreadPool for TLC. *)
EXTENDS ThreadPool

\* TLC: the finished pool stutters instead of deadlocking.
Finished ==
  /\ owner = "destroyed"
  /\ UNCHANGED vars

MCNext == Next \/ Finished
MCSpec == Init /\ [][MCNext]_vars
MCFairSpec == MCSpec /\ Fairness
=============================================================================
