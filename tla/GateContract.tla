---------------------------- MODULE GateContract ----------------------------
(***************************************************************************)
(* What the write gate promises about one portal, whatever the store, the  *)
(* number of server processes and the failures: an action is opened once,  *)
(* reaches HubSpot only while it is open and only after it was granted,    *)
(* and once closed (executed, rejected or expired) is never written again. *)
(***************************************************************************)
EXTENDS Naturals

CONSTANTS Actions           \* the action ids apply_write mints

VARIABLES
  phase,      \* phase[a]: "new", "open" (can still be written) or "closed"
  granted,    \* the actions whose tier has been satisfied
  effects     \* effects[a]: how often HubSpot applied a

vars == <<phase, granted, effects>>

Init == /\ phase = [a \in Actions |-> "new"]
        /\ granted = {}
        /\ effects = [a \in Actions |-> 0]

\* A write is previewed; an AUTO write is granted by the policy at once.
Open(a) == /\ phase[a] = "new"
           /\ phase' = [phase EXCEPT ![a] = "open"]
           /\ granted' \in {granted, granted \union {a}}
           /\ UNCHANGED effects

\* A human answers what the action's tier asks for.
Grant(a) == /\ phase[a] = "open"
            /\ granted' = granted \union {a}
            /\ UNCHANGED <<phase, effects>>

Apply(a) == /\ phase[a] = "open"
            /\ a \in granted
            /\ effects' = [effects EXCEPT ![a] = @ + 1]
            /\ UNCHANGED <<phase, granted>>

Close(a) == /\ phase[a] = "open"
            /\ phase' = [phase EXCEPT ![a] = "closed"]
            /\ UNCHANGED <<granted, effects>>

Next == \E a \in Actions : Open(a) \/ Grant(a) \/ Apply(a) \/ Close(a)

Spec == Init /\ [][Next]_vars
=============================================================================
