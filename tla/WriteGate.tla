----------------------------- MODULE WriteGate ------------------------------
(***************************************************************************)
(* The preview -> approve -> execute -> undo gate of handlers.py, on the   *)
(* StateStore interface, for single (non-pattern) writes on one portal.    *)
(* A worker is one in-flight MCP request; requests interleave at every     *)
(* await, in one process or in several that share the store.               *)
(*                                                                         *)
(* One CRM record stands for the records an update touches; its value is   *)
(* the name of whoever wrote it last.  An object that a create makes is    *)
(* the number of the write of its action.                                  *)
(***************************************************************************)
EXTENDS Naturals

CONSTANTS
  Actions,          \* action ids; uuid4, so never minted twice
  Workers,          \* requests that can be in flight together
  Records,          \* CRM records that writes target
  None,
  InvokeOutcomes,   \* what a HubSpot write can end in, see Invoke
  Swallowed,        \* the store calls whose failure the code swallows
  MaxRequests,      \* bound: requests ever started
  MaxAborts,        \* bound: requests cut short
  MaxEdits,         \* bound: edits by other HubSpot users
  CanExpire         \* does the store expire its keys (Redis does, files do not)

ASSUME GateAssumption ==
  /\ None \notin Actions /\ None \notin {"base", "edited", "gone"}
  /\ "base" \notin Actions /\ "edited" \notin Actions /\ "gone" \notin Actions
  /\ InvokeOutcomes \subseteq {"ok", "noid", "rejected", "lost"}
  /\ Swallowed \subseteq {"record", "audit"}
  /\ MaxRequests \in Nat /\ MaxAborts \in Nat /\ MaxEdits \in Nat
  /\ CanExpire \in BOOLEAN

Kinds == {"create", "update", "delete", "merge"}
Tiers == {"AUTO", "CONFIRM", "FULL_GATE"}
Counts == {"none", "exact", "wrong"}      \* confirm_count against the impact
Values == Actions \union {"base", "edited", "gone"}

VARIABLES
  preview,    \* preview[a]: the record apply_write assembled, None before
  pending,    \* pending[a]: the stored preview: unborn, unconfirmed, confirmed, gone
  snapshot,   \* snapshot[a]: the stored undo snapshot, or None
  audit,      \* audit entries <<"approve" or "undo", action>>
  record,     \* HubSpot: the value of each record
  live,       \* HubSpot: live[a], the objects a created that still exist
  writes,     \* HubSpot: writes[a], how often it applied a
  pc, act, count, held,       \* per worker: next await, action, typed count, value kept
  granted,    \* history: actions whose tier was satisfied, by policy or a human
  reported,   \* history: actions some approve reported as executed
  rejected,   \* history: actions some reject reported as discarded
  undone,     \* history: actions some undo restored and forgot
  budget      \* what is left of the three bounds

store == <<preview, pending, snapshot, audit>>
hubspot == <<record, live, writes>>
workers == <<pc, act, count, held>>
history == <<granted, reported, rejected, undone>>
vars == <<store, hubspot, workers, history, budget>>

Previews == [kind : Kinds, tier : Tiers, record : Records,
             original : Values \union {None}]
Snapshots == [original : Values \union {None}, ids : SUBSET Nat]

ASSUME NoneIsNoRecord == None \notin Previews /\ None \notin Snapshots

\* The next await of each request, by the handler that makes it.
ToolSteps == {"store"}
ApproveSteps == {"load", "confirm", "save", "invoke", "record", "clear",
                 "audit", "drop"}
RejectSteps == {"discard"}
UndoSteps == {"restore", "forget", "undo_audit"}
Steps == {"idle"} \union ToolSteps \union ApproveSteps \union RejectSteps
                  \union UndoSteps

TypeOK ==
  /\ preview \in [Actions -> Previews \union {None}]
  /\ pending \in [Actions -> {"unborn", "unconfirmed", "confirmed", "gone"}]
  /\ snapshot \in [Actions -> Snapshots \union {None}]
  /\ audit \subseteq {"approve", "undo"} \X Actions
  /\ record \in [Records -> Values]
  /\ live \in [Actions -> SUBSET Nat]
  /\ writes \in [Actions -> Nat]
  /\ pc \in [Workers -> Steps]
  /\ act \in [Workers -> Actions \union {None}]
  /\ \A w \in Workers : pc[w] # "idle" => act[w] \in Actions
  /\ count \in [Workers -> Counts]
  /\ held \in [Workers -> Snapshots \union {None}]
  /\ granted \subseteq Actions /\ reported \subseteq Actions
  /\ rejected \subseteq Actions /\ undone \subseteq Actions
  /\ budget \in [requests : Nat, aborts : Nat, edits : Nat]

Init ==
  /\ preview = [a \in Actions |-> None]
  /\ pending = [a \in Actions |-> "unborn"]
  /\ snapshot = [a \in Actions |-> None]
  /\ audit = {}
  /\ record = [r \in Records |-> "base"]
  /\ live = [a \in Actions |-> {}]
  /\ writes = [a \in Actions |-> 0]
  /\ pc = [w \in Workers |-> "idle"]
  /\ act = [w \in Workers |-> None]
  /\ count = [w \in Workers |-> "none"]
  /\ held = [w \in Workers |-> None]
  /\ granted = {} /\ reported = {} /\ rejected = {} /\ undone = {}
  /\ budget = [requests |-> MaxRequests, aborts |-> MaxAborts, edits |-> MaxEdits]

-----------------------------------------------------------------------------
(* Helpers *)

\* The store still has the preview.
Present(a) == pending[a] \in {"unconfirmed", "confirmed"}

IsUndoable(kind, original) ==
  kind = "create" \/ (kind = "update" /\ original # None)

\* execute_pending_write saves a snapshot for these intents and no others.
Snapshotted(a) == preview[a].kind \in {"create", "update", "delete"}

Goto(w, step) == pc' = [pc EXCEPT ![w] = step]

\* The request ends, with an answer or an error.
Return(w) == /\ pc' = [pc EXCEPT ![w] = "idle"]
             /\ act' = [act EXCEPT ![w] = None]
             /\ count' = [count EXCEPT ![w] = "none"]
             /\ held' = [held EXCEPT ![w] = None]

Begin(w, a, c, h, step) ==
  /\ pc[w] = "idle"
  /\ budget.requests > 0
  /\ budget' = [budget EXCEPT !.requests = @ - 1]
  /\ pc' = [pc EXCEPT ![w] = step]
  /\ act' = [act EXCEPT ![w] = a]
  /\ count' = [count EXCEPT ![w] = c]
  /\ held' = [held EXCEPT ![w] = h]

\* clear_pending removes the preview if it is there.
NoClear(a) == UNCHANGED pending
Clear(a) == pending' = [pending EXCEPT ![a] = "gone"]

\* Where execute_pending_write stands once the count gate is passed.
ExecuteUnsaved(a) == "invoke"
Execute(a) == IF Snapshotted(a) THEN "save" ELSE "invoke"

NeedsCount(a) == preview[a].tier = "FULL_GATE"

\* The gate is passed on the loaded record alone: no count is needed, or the
\* exact one was stored by an earlier approve.
PassesOnAnyAnswer(a, c) == NeedsCount(a) => c = "none"
Passes(a, c) == NeedsCount(a) => c = "none" /\ pending[a] = "confirmed"

\* confirm_pending accepts the exact count, while the record still exists.
AcceptsUnchecked(a, c) == c = "exact"
Accepts(a, c) == c = "exact" /\ Present(a)

\* The outcomes execute_pending_write takes for an error.
FailedIgnoringEnvelope(outcome) == outcome = "lost"
Failed(outcome) == outcome \in {"rejected", "lost"}
-----------------------------------------------------------------------------
(* handle_tool on a write tool *)

\* classify_write, on what separates the tiers here: an irreversible write is
\* never below FULL_GATE, any other lands in the tier its payload decides.
TierAllowed(kind, original, tier) ==
  IsUndoable(kind, original) \/ tier = "FULL_GATE"

\* _build_tool_preview reads what it is about to change; a failed read
\* leaves no original.  Creates read nothing, a merge's is never restored.
PreviewReads(kind, r) ==
  IF kind \in {"update", "delete"}
  THEN {None} \union {v \in {record[r]} : v # "gone"}
  ELSE {None}

CallTool(w, a) ==
  /\ preview[a] = None
  /\ \E kind \in Kinds, tier \in Tiers, r \in Records :
       \E original \in PreviewReads(kind, r) :
         /\ TierAllowed(kind, original, tier)
         /\ preview' = [preview EXCEPT ![a] =
              [kind |-> kind, tier |-> tier, record |-> r, original |-> original]]
  /\ Begin(w, a, "none", None, "store")
  /\ UNCHANGED <<pending, snapshot, audit, hubspot, history>>

\* store_pending.  An AUTO write goes straight on to execute_pending_write;
\* force_preview returns it as a preview like the other tiers.
StorePending(w) ==
  /\ pc[w] = "store"
  /\ pending' = [pending EXCEPT ![act[w]] = "unconfirmed"]
  /\ \/ /\ preview[act[w]].tier = "AUTO"
        /\ granted' = granted \union {act[w]}
        /\ Goto(w, "load")
        /\ UNCHANGED <<act, count, held>>
     \/ Return(w) /\ UNCHANGED granted
  /\ UNCHANGED <<preview, snapshot, audit, hubspot, reported, rejected, undone, budget>>

\* The auto-applied write loads its own record back.
LoadedAnyway(a) == TRUE
Loaded(a) == Present(a)

Load(w) ==
  /\ pc[w] = "load"
  /\ IF Loaded(act[w])
     THEN Goto(w, Execute(act[w])) /\ UNCHANGED <<act, count, held>>
     ELSE Return(w)
  /\ UNCHANGED <<store, hubspot, history, budget>>

-----------------------------------------------------------------------------
(* execute_pending_write, reached by approve (a tool or an MRTR answer) *)

\* The load and the count gate.  A missing record, or a FULL_GATE write with
\* neither a count nor an earlier confirmation, is refused and changes nothing.
Approve(w, a, c) ==
  /\ Present(a)
  /\ \/ NeedsCount(a) /\ c # "none" /\ Begin(w, a, c, None, "confirm")
     \/ /\ Passes(a, c)
        /\ Begin(w, a, c, None, Execute(a))
  /\ granted' = IF NeedsCount(a) => c = "exact"
                THEN granted \union {a} ELSE granted
  /\ UNCHANGED <<store, hubspot, reported, rejected, undone>>

\* confirm_pending compares and sets under a lock (flock, or WATCH).
Confirm(w) ==
  /\ pc[w] = "confirm"
  /\ IF Accepts(act[w], count[w])
     THEN /\ pending' = [pending EXCEPT ![act[w]] = "confirmed"]
          /\ Goto(w, Execute(act[w]))
          /\ UNCHANGED <<act, count, held>>
     ELSE Return(w) /\ UNCHANGED pending
  /\ UNCHANGED <<preview, snapshot, audit, hubspot, history, budget>>

SaveSnapshot(w) ==
  /\ pc[w] = "save"
  /\ snapshot' = [snapshot EXCEPT ![act[w]] =
       [original |-> preview[act[w]].original, ids |-> {}]]
  /\ Goto(w, "invoke")
  /\ UNCHANGED <<preview, pending, audit, hubspot, act, count, held, history, budget>>

\* HubSpot answers an update of a record that no longer exists with a 404.
TargetGone(a) == preview[a].kind = "update" /\ record[preview[a].record] = "gone"

\* HubSpot applies the write of action a.
Effect(a) ==
  /\ ~TargetGone(a)
  /\ writes' = [writes EXCEPT ![a] = @ + 1]
  /\ live' = [live EXCEPT ![a] =
       IF preview[a].kind = "create" THEN @ \union {writes[a] + 1} ELSE @]
  /\ record' = [record EXCEPT ![preview[a].record] =
       CASE preview[a].kind = "create" -> @
         [] preview[a].kind = "delete" -> "gone"
         [] OTHER -> a]

\* invoke_tool: applied and answered; applied and answered without the id of
\* the new object; refused; or applied with the answer lost (a read timeout,
\* a 5xx), which the client raises like any other error.
Invoke(w) ==
  LET a == act[w] IN
  /\ pc[w] = "invoke"
  /\ \E outcome \in InvokeOutcomes \union (IF TargetGone(a) THEN {"rejected"} ELSE {}) :
       /\ outcome = "noid" => preview[a].kind = "create"
       /\ IF outcome = "rejected" THEN UNCHANGED hubspot ELSE Effect(a)
       /\ IF Failed(outcome) THEN Goto(w, "drop") /\ UNCHANGED held
          ELSE IF preview[a].kind = "create" /\ outcome # "noid"
          THEN /\ Goto(w, "record")
               /\ held' = [held EXCEPT ![w] =
                    [original |-> None, ids |-> {writes[a] + 1}]]
          ELSE Goto(w, "clear") /\ UNCHANGED held
  /\ UNCHANGED <<store, act, count, history, budget>>

\* Any error: drop the snapshot, leave the preview for a retry, raise.
LeftOnFailure(a) == IF Snapshotted(a) THEN None ELSE snapshot[a]

DropSnapshot(w) ==
  /\ pc[w] = "drop"
  /\ snapshot' = [snapshot EXCEPT ![act[w]] = LeftOnFailure(act[w])]
  /\ Return(w)
  /\ UNCHANGED <<preview, pending, audit, hubspot, history, budget>>

\* update_undo_snapshot merges created_ids into the snapshot; a missing one
\* stays missing.
MergeNullId(snap, ids) == IF snap = None THEN None ELSE [snap EXCEPT !.ids = {None}]
MergeNothing(snap, ids) == snap
Merge(snap, ids) == IF snap = None THEN None ELSE [snap EXCEPT !.ids = ids]

\* A failure of the store is swallowed.
RecordCreated(w) ==
  /\ pc[w] = "record"
  /\ \/ snapshot' = [snapshot EXCEPT ![act[w]] = Merge(@, held[w].ids)]
     \/ "record" \in Swallowed /\ UNCHANGED snapshot
  /\ Goto(w, "clear")
  /\ UNCHANGED <<preview, pending, audit, hubspot, act, count, held, history, budget>>

ClearPending(w) ==
  /\ pc[w] = "clear"
  /\ Clear(act[w])
  /\ Goto(w, "audit")
  /\ UNCHANGED <<preview, snapshot, audit, hubspot, act, count, held, history, budget>>

\* log_write; its failure is reported as audit_failed, never raised.
Audit(w) ==
  /\ pc[w] = "audit"
  /\ \/ audit' = audit \union {<<"approve", act[w]>>}
     \/ "audit" \in Swallowed /\ UNCHANGED audit
  /\ reported' = reported \union {act[w]}
  /\ Return(w)
  /\ UNCHANGED <<preview, pending, snapshot, hubspot, granted, rejected, undone, budget>>

-----------------------------------------------------------------------------
(* handle_reject *)

Reject(w, a) ==
  /\ Present(a)
  /\ Begin(w, a, "none", None, "discard")
  /\ UNCHANGED <<store, hubspot, history>>

Discard(w) ==
  /\ pc[w] = "discard"
  /\ Clear(act[w])
  /\ rejected' = rejected \union {act[w]}
  /\ Return(w)
  /\ UNCHANGED <<preview, snapshot, audit, hubspot, granted, reported, undone, budget>>

-----------------------------------------------------------------------------
(* hubspot_undo_write *)

\* A missing or refused snapshot changes nothing.
Undo(w, a) ==
  /\ snapshot[a] # None
  /\ IsUndoable(preview[a].kind, snapshot[a].original)
  /\ preview[a].kind = "create" => snapshot[a].ids # {}
  /\ Begin(w, a, "none", snapshot[a], "restore")
  /\ UNCHANGED <<store, hubspot, history>>

\* undo_action replays the originals, or deletes the created objects (a 404
\* counts as deleted); on any failure the snapshot is kept.
RestoredRegardless(a, snap) == UNCHANGED <<record, live>>
Restored(a, snap) ==
  IF preview[a].kind = "create"
  THEN /\ live' = [live EXCEPT ![a] = @ \ snap.ids]
       /\ UNCHANGED record
  ELSE /\ record[preview[a].record] # "gone"
       /\ record' = [record EXCEPT ![preview[a].record] = snap.original]
       /\ UNCHANGED live

Restore(w) ==
  /\ pc[w] = "restore"
  /\ UNCHANGED writes
  /\ \/ /\ Restored(act[w], held[w])
        /\ Goto(w, "forget") /\ UNCHANGED <<act, count, held>>
     \/ "lost" \in InvokeOutcomes /\ Restored(act[w], held[w]) /\ Return(w)
     \/ UNCHANGED <<record, live>> /\ Return(w)
  /\ UNCHANGED <<store, history, budget>>

ForgetSnapshot(w) ==
  /\ pc[w] = "forget"
  /\ snapshot' = [snapshot EXCEPT ![act[w]] = None]
  /\ undone' = undone \union {act[w]}
  /\ Goto(w, "undo_audit")
  /\ UNCHANGED <<preview, pending, audit, hubspot, act, count, held,
                 granted, reported, rejected, budget>>

UndoAudit(w) ==
  /\ pc[w] = "undo_audit"
  /\ \/ audit' = audit \union {<<"undo", act[w]>>}
     \/ "audit" \in Swallowed /\ UNCHANGED audit
  /\ Return(w)
  /\ UNCHANGED <<preview, pending, snapshot, hubspot, history, budget>>

-----------------------------------------------------------------------------
(* The environment *)

\* A request ends at its next await: a crash of its process, a cancelled
\* call, a function timeout, or a store error that nothing catches.
Abort(w) ==
  /\ pc[w] # "idle"
  /\ budget.aborts > 0
  /\ budget' = [budget EXCEPT !.aborts = @ - 1]
  /\ Return(w)
  /\ UNCHANGED <<store, hubspot, history>>

\* PENDING_TTL_SECONDS (24 h) runs out, also under an approve in flight.
ExpirePending(a) ==
  /\ CanExpire
  /\ Present(a)
  /\ pending' = [pending EXCEPT ![a] = "gone"]
  /\ UNCHANGED <<preview, snapshot, audit, hubspot, workers, history, budget>>

\* SNAPSHOT_TTL_SECONDS (7 d) runs out, long after every request on a.
ExpireSnapshot(a) ==
  /\ CanExpire
  /\ snapshot[a] # None
  /\ pending[a] = "gone"
  /\ \A w \in Workers : act[w] # a
  /\ snapshot' = [snapshot EXCEPT ![a] = None]
  /\ UNCHANGED <<preview, pending, audit, hubspot, workers, history, budget>>

\* Another HubSpot user changes or deletes a record.
Edit(r) ==
  /\ budget.edits > 0
  /\ record[r] # "gone"
  /\ \E v \in {"edited", "gone"} : record' = [record EXCEPT ![r] = v]
  /\ budget' = [budget EXCEPT !.edits = @ - 1]
  /\ UNCHANGED <<store, live, writes, workers, history>>

-----------------------------------------------------------------------------
Arrive(w) == \E a \in Actions : \/ CallTool(w, a)
                                \/ \E c \in Counts : Approve(w, a, c)
                                \/ Reject(w, a)
                                \/ Undo(w, a)

Step(w) == \/ StorePending(w) \/ Load(w)
           \/ Confirm(w) \/ SaveSnapshot(w) \/ Invoke(w) \/ DropSnapshot(w)
           \/ RecordCreated(w) \/ ClearPending(w) \/ Audit(w)
           \/ Discard(w)
           \/ Restore(w) \/ ForgetSnapshot(w) \/ UndoAudit(w)

Next == \/ \E w \in Workers : Arrive(w) \/ Step(w) \/ Abort(w)
        \/ \E a \in Actions : ExpirePending(a) \/ ExpireSnapshot(a)
        \/ \E r \in Records : Edit(r)

Spec == Init /\ [][Next]_vars

-----------------------------------------------------------------------------
(* Properties that hold under every interleaving, failure and expiry *)

\* HubSpot never applies a write whose tier was not satisfied: a FULL_GATE
\* write only after somebody typed the exact count, possibly in an earlier
\* approve whose execution failed; an AUTO write as the policy allows; any
\* other after an approve (execute_pending_write's count gate).
WritesAreGranted == \A a \in Actions : writes[a] > 0 => a \in granted

\* The audit log never records an approve that HubSpot did not apply
\* (execute_pending_write logs last).
AuditIsTruthful == \A a \in Actions : <<"approve", a>> \in audit => writes[a] > 0

\* An action reported as executed or as rejected can no longer be approved:
\* no later step of a request that loaded it earlier stores it again
\* (confirm_pending re-checks the record under its lock).
SettledStaysSettled ==
  \A a \in reported \union rejected : pending[a] = "gone"

\* A write is open as long as it is stored, or a request that found it there
\* is executing it.
Executing(a) == \E w \in Workers :
  act[w] = a /\ pc[w] \in {"save", "invoke", "record", "clear", "audit", "drop"}

Phase == [a \in Actions |-> IF pending[a] = "unborn" THEN "new"
                            ELSE IF Present(a) \/ Executing(a) THEN "open"
                            ELSE "closed"]

Contract == INSTANCE GateContract WITH phase <- Phase, effects <- writes

\* The gate implements GateContract: once an action is closed, no request
\* still in flight writes it, and nothing opens it again.
ImplementsContract == Contract!Spec

-----------------------------------------------------------------------------
(* Properties of requests that come one at a time *)

\* HubSpot applies an action at most once: a failed approve leaves the preview
\* for a retry only when nothing was applied.
AtMostOnce == \A a \in Actions : writes[a] <= 1

\* A reversible write that was reported as executed can be undone until it
\* is: its snapshot is stored, and names the object a create made.
ReportedKeepsUndo ==
  \A a \in reported \ undone :
    IsUndoable(preview[a].kind, preview[a].original) =>
      /\ snapshot[a] # None
      /\ preview[a].kind = "create" => snapshot[a].ids # {}

\* An action reported as undone has left nothing in HubSpot (undo_action):
\* neither an object it created nor its value in the record it updated, unless
\* the undo of a later write brings that value back as its own original.
UndoneLeavesNoTrace ==
  \A a \in undone :
    /\ live[a] = {}
    /\ preview[a].kind = "update" /\ record[preview[a].record] = a =>
         \E b \in Actions \ {a} :
           preview[b] # None /\ preview[b].original = a /\ writes[b] > 0

\* Wherever a request stands, so wherever it may be cut short, an update that
\* HubSpot holds has its snapshot: it is saved before the write, and forgotten
\* only by the undo of that action (which a later write's undo may bring back).
AppliedUpdateHasSnapshot ==
  \A a \in Actions \ undone :
    preview[a] # None /\ preview[a].kind = "update"
      /\ record[preview[a].record] = a => snapshot[a] # None

-----------------------------------------------------------------------------
(* What the repository says and the code does not do *)

\* handlers.py:531: after a failed execution "the snapshot is dropped since
\* nothing was changed to undo".
DroppedSnapshotHadNothingToUndo ==
  [][\A w \in Workers :
       pc[w] = "drop" /\ pc'[w] = "idle" /\ Snapshotted(act[w])
         /\ snapshot'[act[w]] = None => writes[act[w]] = 0]_vars
=============================================================================
