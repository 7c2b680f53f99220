--------------------------- MODULE MCAgentPipeline --------------------------
(* Every agent asked for what it does, the text naming its target; the agents of one *)
(* record type share their handlers, and one of them is asked for everything.         *)
EXTENDS AgentPipeline

CONSTANTS x1, x2, x3, v1, v2, v3

AskAll ==
  {i \in Intents(Agents) :
     /\ i.estimate = 0 /\ i.wants = v1
     /\ i.agent \in RecordAgents \ {"courses"} => i.named /\ i.kind = "update"}
GiveSome == {[id |-> NoId, val |-> v1, other |-> NoId], [id |-> x1, val |-> v2, other |-> x2]}

\* v1 comes back as it was sent, v2 is in a property that does not, and v3 is None.
SomeReturned(v) == IF v = v1 THEN v1 ELSE v3
=============================================================================
