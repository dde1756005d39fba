----------------------------- MODULE HookTable -----------------------------
(***************************************************************************)
(* What DobbyHook, DobbyInstrument and DobbyDestroy promise a caller who   *)
(* makes one call at a time: a table that says for each function which     *)
(* hook answers its calls.  A call is accepted or refused by what the      *)
(* table says of its function, changes the entry of that function only,    *)
(* at one moment, and returns after it.                                    *)
(***************************************************************************)
EXTENDS Integers

CONSTANTS
  Functions,  \* addresses of functions
  Elsewhere,  \* addresses where there is no function
  MaxHooks    \* bound on the number of hooks

VARIABLES
  table,      \* the hook that answers a function; 0: the function itself does
  original,   \* hooks that can call the original of their function
  made,       \* hooks asked for so far: their numbers are 1..made
  call,       \* the call in progress
  answer      \* the last call that returned

vars == <<table, original, made, call, answer>>

NoCall == [op |-> "none", at |-> 0, hook |-> 0, wants |-> FALSE, stage |-> "none"]

Init ==
  /\ table = [f \in Functions |-> 0]
  /\ original = {}
  /\ made = 0
  /\ call = NoCall
  /\ answer = [op |-> "none", at |-> 0, value |-> 0]

\* A function without a hook can be given one; wants: the caller asks for the original.
Intercept(op, f, wants) ==
  /\ call = NoCall /\ made < MaxHooks
  /\ table[f] = 0
  /\ made' = made + 1
  /\ call' = [op |-> op, at |-> f, hook |-> made + 1, wants |-> wants, stage |-> "asked"]
  /\ UNCHANGED <<table, original, answer>>

\* A function with a hook can be given back.
Destroy(f) ==
  /\ call = NoCall
  /\ table[f] # 0
  /\ call' = [op |-> "destroy", at |-> f, hook |-> table[f], wants |-> FALSE, stage |-> "asked"]
  /\ UNCHANGED <<table, original, made, answer>>

\* Any other call is refused and changes nothing.
Refuse(op, f) ==
  /\ call = NoCall
  /\ IF op = "destroy" THEN f \in Functions => table[f] = 0
                       ELSE f \in Functions => table[f] # 0
  /\ answer' = [op |-> op, at |-> f, value |-> -1]
  /\ UNCHANGED <<table, original, made, call>>

\* The original of the hook being made can be called from here on.
Publish ==
  /\ call.wants /\ call.stage = "asked"
  /\ original' = original \cup {call.hook}
  /\ UNCHANGED <<table, made, call, answer>>

\* The new hook answers from here on, and its original is there if it was asked for.
Install ==
  /\ call.op \in {"hook", "instrument"} /\ call.stage = "asked"
  /\ call.wants => call.hook \in original
  /\ table[call.at] = 0
  /\ table' = [table EXCEPT ![call.at] = call.hook]
  /\ call' = [call EXCEPT !.stage = "done"]
  /\ UNCHANGED <<original, made, answer>>

\* The function itself answers from here on.
Restore ==
  /\ call.op = "destroy" /\ call.stage = "asked"
  /\ table[call.at] = call.hook
  /\ table' = [table EXCEPT ![call.at] = 0]
  /\ call' = [call EXCEPT !.stage = "done"]
  /\ UNCHANGED <<original, made, answer>>

Return ==
  /\ call.stage = "done"
  /\ answer' = [op |-> call.op, at |-> call.at, value |-> 0]
  /\ call' = NoCall
  /\ UNCHANGED <<table, original, made>>

Next ==
  \/ \E f \in Functions :
       \/ \E wants \in BOOLEAN : Intercept("hook", f, wants)
       \/ Intercept("instrument", f, FALSE)
       \/ Destroy(f)
  \/ \E op \in {"hook", "instrument", "destroy"}, f \in Functions \cup Elsewhere : Refuse(op, f)
  \/ Publish \/ Install \/ Restore \/ Return

Spec == Init /\ [][Next]_vars
=============================================================================
