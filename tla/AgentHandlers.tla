---------------------------- MODULE AgentHandlers ---------------------------
(***************************************************************************)
(* What every specialist agent's handlers share: a request, the answer of   *)
(* the one read a handler makes, the payload it is given, and the preview,   *)
(* the execution and the reconciliation it returns.  dispatch.py keys the    *)
(* handlers by agent name.                                                   *)
(*                                                                           *)
(* A tool returns an "error" dictionary when HubSpot refuses or cannot be    *)
(* reached, and raises when it rejects its own arguments.                    *)
(***************************************************************************)
EXTENDS Integers, Sequences, FiniteSets

CONSTANTS
  Ids,           \* the things of the portal: records, properties, pipelines, forms, ...
  Vals,          \* the contents one of them can have
  NoId, NoVal,   \* a key the payload does not hold
  Absent,        \* a thing that does not exist
  KnownTypes,    \* the engagement and resource types the code knows
  Returned(_),   \* what a search that lists no properties returns of a content, see below
  SearchLimit,   \* records one search returns, 10 in the code
  CompareLimit   \* records a reconciliation compares, 3 in the code

ASSUME HandlerAssumption ==
  /\ IsFiniteSet(Ids) /\ Absent \notin [match : BOOLEAN, val : Vals]
  /\ NoId \notin Ids /\ NoVal \notin Vals /\ KnownTypes \subseteq Vals
  /\ \A v \in Vals : Returned(v) \in Vals \cup {NoVal}
  /\ SearchLimit \in Nat \ {0} /\ CompareLimit \in 1..SearchLimit

Reads == {"search", "list", "get"}
Writes == {"create", "update", "delete", "merge"}

(* TaskIntent.  named: the request has its target_object; for the three agents that  *)
(* look at the text instead, that the text names two record types (associations), an *)
(* import (data), a blueprint (workflows).  wants: the value the text asks for.       *)
Intents(Agents) ==
  [agent : Agents, kind : Reads \cup Writes, named : BOOLEAN, estimate : 0..2, wants : Vals]

\* A payload; {} and None are Empty.  other: the record merged into id.
Payloads == [id : Ids \cup {NoId}, val : Vals \cup {NoVal}, other : Ids \cup {NoId}]
Empty == [id |-> NoId, val |-> NoVal, other |-> NoId]

Portals == [Ids -> {Absent} \cup [match : BOOLEAN, val : Vals]]
Present(portal) == {x \in Ids : portal[x] # Absent}
Matching(portal) == {x \in Present(portal) : portal[x].match}

\* The orders in which a search can return its hits.
Rankings(S) ==
  LET n == IF Cardinality(S) < SearchLimit THEN Cardinality(S) ELSE SearchLimit
  IN  {q \in [1..n -> S] : \A i, j \in 1..n : q[i] = q[j] => i = j}

(* The answer of a read, whichever tool makes it: the hits of a search, the thing a   *)
(* get by id finds, everything a listing shows; or no answer.                          *)
AnswersOf(portal, id) ==
  [ok : {"ok", "error", "raise"}, hits : Rankings(Matching(portal)),
   item : {IF id = NoId THEN Absent ELSE portal[id]},
   all : {Present(portal)}, vals : {{portal[x].val : x \in Present(portal)}},
   now : {portal}]

Found(ans) == ans.ok = "ok" /\ ans.item # Absent

\* PreviewResult.
Preview(impact, shown, payload) ==
  [failed |-> "no", impact |-> impact, shown |-> shown, payload |-> payload]
PreviewFailed == [Preview(0, {}, Empty) EXCEPT !.failed = "error"]
PreviewRaised == [Preview(0, {}, Empty) EXCEPT !.failed = "raised"]
Estimate(i) == IF i.estimate = 0 THEN 1 ELSE i.estimate
Message(i) == Preview(Estimate(i), {}, Empty)

\* What an execution decides on its read: the status it will report and the call it
\* still makes.  seen is the content a conditional write depends on.
NoCall == [op |-> "none", id |-> NoId, val |-> NoVal, other |-> NoId, seen |-> Absent]
Call(op, id, val) == [NoCall EXCEPT !.op = op, !.id = id, !.val = val]
Executes(call) == [status |-> "success", call |-> call]
Executed == Executes(NoCall)
ExecuteError == [status |-> "error", call |-> NoCall]
Raised == [status |-> "raised", call |-> NoCall]

\* A read that is the whole execution: its error is reported inside a success.
ExecuteRead(ans) == IF ans.ok = "raise" THEN Raised ELSE Executed

\* The executions and reconciliations of records search without naming properties.  HubSpot
\* answers with its default ones, each a string: of any other property the handler reads None,
\* which is a content too, and a number or a boolean equals nothing that was sent (NoVal).
Hidden(v) == v # NoVal /\ Returned(v) # v
Telling(v) == v # NoVal /\ \A w \in Vals : Returned(w) = v => w = v

Verdict(ok) == IF ok THEN "verified" ELSE "discrepancy"
=============================================================================
