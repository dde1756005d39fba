------------------------------ MODULE TaskPool ------------------------------
(***************************************************************************)
(* What a task pool promises its users, whatever its threads do: tasks are *)
(* accepted while it is open, start in the order in which they were        *)
(* accepted, run once, and the pool is gone only when nothing it accepted  *)
(* is left.                                                                *)
(***************************************************************************)
EXTENDS Sequences

CONSTANT Tasks

VARIABLES
  backlog,   \* accepted tasks in the order of acceptance
  active,    \* tasks that run
  finished,  \* tasks that ran
  phase      \* "open", "closing" or "closed"

poolVars == <<backlog, active, finished, phase>>

Init ==
  /\ backlog = <<>>
  /\ active = {}
  /\ finished = {}
  /\ phase = "open"

Known(x) ==
  \/ x \in active \cup finished
  \/ \E i \in DOMAIN backlog : backlog[i] = x

Submit(x) ==
  /\ phase = "open"
  /\ ~Known(x)
  /\ backlog' = Append(backlog, x)
  /\ UNCHANGED <<active, finished, phase>>

Start ==
  /\ backlog # <<>>
  /\ active' = active \cup {Head(backlog)}
  /\ backlog' = Tail(backlog)
  /\ UNCHANGED <<finished, phase>>

Finish(x) ==
  /\ x \in active
  /\ active' = active \ {x}
  /\ finished' = finished \cup {x}
  /\ UNCHANGED <<backlog, phase>>

Close ==
  /\ phase = "open"
  /\ phase' = "closing"
  /\ UNCHANGED <<backlog, active, finished>>

Retire ==
  /\ phase = "closing"
  /\ backlog = <<>>
  /\ active = {}
  /\ phase' = "closed"
  /\ UNCHANGED <<backlog, active, finished>>

Next ==
  \/ \E x \in Tasks : Submit(x) \/ Finish(x)
  \/ Start
  \/ Close
  \/ Retire

Spec == Init /\ [][Next]_poolVars
=============================================================================
