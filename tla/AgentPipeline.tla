---------------------------- MODULE AgentPipeline ---------------------------
(***************************************************************************)
(* One request through the handlers dispatch.py holds for its agent: the     *)
(* preview, the execution of a payload, the reconciliation with the payload   *)
(* expected.  Every call to HubSpot is a step, and other users of the portal  *)
(* edit it between any two.  A write can be refused, and its answer can be    *)
(* lost after it was applied.                                                 *)
(*                                                                           *)
(* The server registers these handlers and calls none of them; whoever does   *)
(* chooses the payload, which the preview proposes and the caller may fill in. *)
(***************************************************************************)
EXTENDS RecordAgents, SpecialistAgents

CONSTANTS
  Requested,     \* the intents asked for
  Given,         \* payloads a caller may fill in
  MaxEdits       \* edits of other users

Agents == RecordAgents \cup SpecialistAgents \cup PreviewOnlyAgents

ASSUME PipelineAssumption ==
  /\ Requested \subseteq Intents(Agents) /\ Given \subseteq Payloads /\ MaxEdits \in Nat

VARIABLES
  portal,    \* what HubSpot holds
  intent,    \* the request
  step,      \* "preview", "execute", "write", "reconcile", "done"
  preview,   \* what the preview returned
  payload,   \* what the execution was given
  outcome,   \* the status it reports and the call it makes
  verdict,   \* what the reconciliation returned
  made,      \* the thing a create made
  missed,    \* the reconciliation got no answer
  edits      \* edits of other users so far

vars == <<portal, intent, step, preview, payload, outcome, verdict, made, missed, edits>>

PreviewBuilder(i, ans) ==
  IF i.agent \in RecordAgents THEN RecordAgentPreview(i, ans) ELSE SpecialistPreview(i, ans)
ExecuteDispatch(i, p, ans) ==
  IF i.agent \in RecordAgents THEN RecordAgentExecute(i, p, ans) ELSE SpecialistExecute(i, p, ans)
ReconcileDispatch(i, e, ans) ==
  IF i.agent \in RecordAgents THEN RecordAgentReconcile(i, e, ans)
  ELSE SpecialistReconcile(i, e, ans)

Init ==
  /\ portal \in Portals /\ intent \in Requested
  /\ step = "preview" /\ preview = Preview(0, {}, Empty) /\ payload = Empty
  /\ outcome = Executed /\ verdict = "none" /\ made = NoId /\ missed = FALSE /\ edits = 0

BuildPreview ==
  /\ step = "preview"
  /\ \E ans \in AnswersOf(portal, NoId) : preview' = PreviewBuilder(intent, ans)
  /\ step' = IF preview'.failed # "no" \/ intent.agent \in PreviewOnlyAgents THEN "done"
             ELSE "execute"
  /\ UNCHANGED <<portal, intent, payload, outcome, verdict, made, missed, edits>>

\* The payload is approved, and the execution decides on the read it makes, if any.
Execute ==
  /\ step = "execute"
  /\ payload' \in {preview.payload} \cup Given
  /\ \E ans \in AnswersOf(portal, payload'.id) :
       outcome' = ExecuteDispatch(intent, payload', ans)
  /\ step' = IF outcome'.status # "success" THEN "done"
             ELSE IF outcome'.call = NoCall THEN "reconcile" ELSE "write"
  /\ UNCHANGED <<portal, intent, preview, verdict, made, missed, edits>>

\* What HubSpot does with the call, when it takes it: an id that is gone is not found,
\* and a workflow is replaced only under the revision it has.
Accepts(call) ==
  CASE call.op \in {"update", "delete"} -> call.id \in Present(portal)
    [] call.op = "put" -> call.id \in Present(portal) /\ portal[call.id] = call.seen
    [] call.op = "merge" -> {call.id, call.other} \subseteq Present(portal) /\ call.id # call.other
    [] call.op = "create" -> Present(portal) # Ids
    [] OTHER -> TRUE

Apply(call) ==
  CASE call.op \in {"update", "put"} ->
         /\ portal' = [portal EXCEPT ![call.id].val =
                         IF call.val = NoVal THEN portal[call.id].val ELSE call.val]
         /\ made' = NoId
    [] call.op = "delete" -> portal' = [portal EXCEPT ![call.id] = Absent] /\ made' = NoId
    [] call.op = "merge" -> portal' = [portal EXCEPT ![call.other] = Absent] /\ made' = NoId
    [] call.op = "create" ->
         \E x \in Ids \ Present(portal), m \in BOOLEAN, v \in Vals :
           /\ call.val \in {NoVal, v}
           /\ portal' = [portal EXCEPT ![x] = [match |-> m, val |-> v]]
           /\ made' = x
    [] OTHER -> UNCHANGED portal /\ made' = NoId

Writing(apply, status, next) ==
  /\ step = "write" /\ step' = next
  /\ IF apply THEN Accepts(outcome.call) /\ Apply(outcome.call) ELSE UNCHANGED <<portal, made>>
  /\ outcome' = [outcome EXCEPT !.status = status]
  /\ UNCHANGED <<intent, preview, payload, verdict, missed, edits>>

\* The tool turns a refusal and a lost answer into an error dictionary, which the
\* execution reports inside a success; what it raises on its arguments goes through.
WriteApplied == Writing(TRUE, "success", "reconcile")
WriteRefused == Writing(FALSE, "success", "reconcile")
WriteRejected == Writing(FALSE, "raised", "done")

\* Expected: the payload, with the id of what was made when the caller knows it.
Reconcile ==
  /\ step = "reconcile" /\ step' = "done"
  /\ \E e \in {payload} \cup {[payload EXCEPT !.id = x] : x \in {made} \ {NoId}} :
       \E ans \in AnswersOf(portal, e.id) :
         /\ verdict' = ReconcileDispatch(intent, e, ans)
         /\ missed' = (ans.ok # "ok")
  /\ UNCHANGED <<portal, intent, preview, payload, outcome, made, edits>>

\* Somebody else creates, changes or deletes a thing.
Edit ==
  /\ step # "done" /\ edits < MaxEdits /\ edits' = edits + 1
  /\ \E x \in Ids : \E r \in {Absent} \cup [match : BOOLEAN, val : Vals] :
       r # portal[x] /\ portal' = [portal EXCEPT ![x] = r]
  /\ UNCHANGED <<intent, step, preview, payload, outcome, verdict, made, missed>>

Next ==
  \/ BuildPreview \/ Execute \/ WriteApplied \/ WriteRefused \/ WriteRejected \/ Reconcile
  \/ Edit

Spec == Init /\ [][Next]_vars

TypeOK ==
  /\ portal \in Portals /\ intent \in Requested
  /\ step \in {"preview", "execute", "write", "reconcile", "done"}
  /\ preview.failed \in {"no", "error", "raised"} /\ preview.impact \in Nat
  /\ preview.shown \subseteq Ids /\ preview.payload \in Payloads /\ payload \in Payloads
  /\ outcome.status \in {"success", "error", "raised"}
  /\ verdict \in {"none", "unknown", "verified", "discrepancy", "raised"}
  /\ made \in Ids \cup {NoId} /\ missed \in BOOLEAN /\ edits \in 0..MaxEdits

Answered(kind) == verdict = "verified" /\ intent.kind = kind /\ ~missed

(* A delete of an object or of a configuration is called verified only when nothing the *)
(* search finds is left, or the thing named is gone, whatever other users did between the *)
(* write and the check: *_reconcile_* of agents/.  A reconciliation whose read failed is  *)
(* not covered: it calls the delete verified.                                             *)
VerifiedDeleteIsGone ==
  Answered("delete") =>
    IF intent.agent \in RecordAgents THEN Matching(portal) = {}
    ELSE payload.id = NoId \/ portal[payload.id] = Absent

(* An update of records is called verified only when some record the text finds holds the *)
(* value; the one it wrote does too, if the text still finds it, unless CompareLimit others  *)
(* do, in front of it; and so does every other one.  A value that another content comes back *)
(* as, None for what the search does not return, is verified whatever the records hold.       *)
VerifiedUpdateTook ==
  LET hits == Matching(portal)
      holding == {x \in hits : portal[x].val = payload.val}
  IN Answered("update") /\ intent.agent \in RecordAgents /\ Telling(payload.val) =>
       /\ holding # {}
       /\ outcome.call.id \in hits \ holding => Cardinality(holding) >= CompareLimit
       /\ hits = holding \/ Cardinality(holding) >= CompareLimit

(* The reconciliation of records raises false alarms, and this says which: without other    *)
(* users and with a single hit, an update that was applied is called a discrepancy if and    *)
(* only if the search does not return the value as it was sent (courses.py:254, :274).        *)
FalseAlarmIffHidden ==
  [][/\ Reconcile /\ edits = 0 /\ ~missed'
     /\ intent.kind = "update" /\ intent.named /\ intent.agent \in RecordAgents
     /\ Cardinality(Matching(portal)) = 1
     /\ payload.val # NoVal => portal[outcome.call.id].val = payload.val
     => (verdict' = "discrepancy" <=> Hidden(payload.val))]_vars

(* An update of a workflow never overwrites an edit it did not read: the PUT carries the  *)
(* revision of the fetch, and HubSpot refuses it when another user was faster             *)
(* (workflows.py:217-246).  The updates of the other agents are blind.                    *)
WorkflowEditsKept ==
  [][/\ step = "write" /\ intent.agent = "workflows" /\ intent.kind = "update"
     /\ portal' # portal /\ edits' = edits
     => portal[outcome.call.id] = outcome.call.seen]_vars
=============================================================================
