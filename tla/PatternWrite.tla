---------------------------- MODULE PatternWrite ----------------------------
(***************************************************************************)
(* Pattern approval (handlers.py _execute_pattern_write): one approved rule is  *)
(* applied to every matched record, each re-read and compared with the value    *)
(* of the preview before it is written.  The rest of the gate is WriteGate; the *)
(* preview does not expire here.                                               *)
(*                                                                           *)
(* A record holds "pre", the value of the preview, "new", what the rule sets,   *)
(* or "edited".  A worker is a request in flight; they interleave at each await.*)
(***************************************************************************)
EXTENDS Integers

CONSTANTS
  Count,          \* matched records, in the order of the payload
  Thresholds,     \* what pattern_confirm_threshold may be: more records need the typed count
  Workers, None,
  WriteOutcomes,  \* what an update can end in: ok, rejected, lost (applied, and the answer is not)
  MaxRequests, MaxAborts, MaxEdits   \* bounds

ASSUME PatternAssumption ==
  /\ Count \in Nat \ {0} /\ Thresholds \subseteq Nat
  /\ WriteOutcomes \subseteq {"ok", "rejected", "lost"}
  /\ MaxRequests \in Nat /\ MaxAborts \in Nat /\ MaxEdits \in Nat

Matched == 1..Count

ASSUME NoneIsNoSet == \A S \in SUBSET Matched : S # None

VARIABLES
  record,     \* HubSpot
  pending,    \* unborn, single (the ordinary gate has it), free of a count, unconfirmed, confirmed, gone
  snapshot,   \* the records whose pre-image is stored, or None
  audit,      \* records with an audit entry
  pc, at,     \* per worker: the next await, the record it is about
  run,        \* per worker: its three lists, the typed count, the records to undo, whether the one to be
              \* written was edited since it was read, and whether the save of the snapshot was answered
  report,     \* history: what the last approve that ended reported
  undone,     \* history: the records the last undo that succeeded put back
  alone,      \* history: no request met another one
  budget

vars == <<record, pending, snapshot, audit, pc, at, run, report, undone, alone, budget>>

NoRun == [applied |-> {}, skipped |-> {}, failed |-> {}, count |-> None, targets |-> {}, edited |-> FALSE,
          saved |-> TRUE]
Init ==
  /\ record = [r \in Matched |-> "pre"] /\ pending = "unborn" /\ snapshot = None /\ audit = {}
  /\ pc = [w \in Workers |-> "idle"] /\ at = [w \in Workers |-> 0] /\ run = [w \in Workers |-> NoRun]
  /\ report = None /\ undone = {} /\ alone = TRUE
  /\ budget = [requests |-> MaxRequests, aborts |-> MaxAborts, edits |-> MaxEdits]

-----------------------------------------------------------------------------
\* Preview

\* Only a reversible property update that touches nothing sensitive is approved as a pattern.
Eligible(tool, destructive, sensitive) ==
  ~destructive /\ tool \in {"hubspot_update_object", "hubspot_bulk_update_objects"} /\ ~sensitive
Tool ==
  /\ pending = "unborn"
  /\ \E tool \in {"hubspot_bulk_update_objects", "hubspot_create_object"}, destructive, sensitive \in BOOLEAN,
        threshold \in Thresholds :
       pending' = IF ~Eligible(tool, destructive, sensitive) THEN "single"
                  ELSE IF Count > threshold THEN "unconfirmed" ELSE "free"
  /\ UNCHANGED <<record, snapshot, audit, pc, at, run, report, undone, alone, budget>>
Present == pending \in {"free", "unconfirmed", "confirmed"}

-----------------------------------------------------------------------------
\* Approve

Idle(w) == pc[w] = "idle"
Begin(w, step, with) ==
  /\ Idle(w) /\ budget.requests > 0 /\ budget' = [budget EXCEPT !.requests = @ - 1]
  /\ pc' = [pc EXCEPT ![w] = step] /\ at' = [at EXCEPT ![w] = 1]
  /\ run' = [run EXCEPT ![w] = with]
  /\ alone' = (alone /\ \A v \in Workers : Idle(v))
Goto(w, step) == pc' = [pc EXCEPT ![w] = step]
Steps(w, step) == Goto(w, step) /\ UNCHANGED <<at, run>>
Return(w) == Goto(w, "idle") /\ at' = [at EXCEPT ![w] = 0] /\ run' = [run EXCEPT ![w] = NoRun]

Approve(w) ==
  /\ pending # "single"
  /\ \E count \in {None, Count, 0} : Begin(w, "load", [NoRun EXCEPT !.count = count])
  /\ UNCHANGED <<record, pending, snapshot, audit, report, undone>>
\* The preview is there, and its count was typed now or before.
Load(w) ==
  LET refused == ~Present \/ (pending = "unconfirmed" /\ run[w].count = None) IN
  /\ pc[w] = "load"
  /\ IF refused THEN Return(w) ELSE Steps(w, IF pending = "free" \/ run[w].count = None THEN "read" ELSE "confirm")
  /\ UNCHANGED <<record, pending, snapshot, audit, report, undone, alone, budget>>
Confirm(w) ==
  /\ pc[w] = "confirm"
  /\ IF run[w].count = Count /\ Present THEN Steps(w, "read") /\ pending' = "confirmed"
     ELSE Return(w) /\ UNCHANGED pending
  /\ UNCHANGED <<record, snapshot, audit, report, undone, alone, budget>>

\* The record goes to one of the three lists, and the next one is read.
Applied(w, r) == [run[w] EXCEPT !.applied = @ \cup {r}]
Skipped(w, r) == [run[w] EXCEPT !.skipped = @ \cup {r}]
Failed(w, r) == [run[w] EXCEPT !.failed = @ \cup {r}]
Lists(w, lists) ==
  /\ run' = [run EXCEPT ![w] = [lists EXCEPT !.edited = FALSE]]
  /\ IF at[w] < Count THEN at' = [at EXCEPT ![w] = @ + 1] /\ Goto(w, "read")
     ELSE at' = [at EXCEPT ![w] = 1] /\ Goto(w, "save")
\* Mutant: only a value that was cleared counts as drifted.
Cleared(r) == record[r] = None
Drifted(r) == record[r] # "pre"
ReadRecord(w) ==
  /\ pc[w] = "read"
  /\ \/ Lists(w, Failed(w, at[w]))     \* nothing to change, or the re-read failed
     \/ Drifted(at[w]) /\ Lists(w, Skipped(w, at[w]))
     \/ ~Drifted(at[w]) /\ Steps(w, "write")
  /\ UNCHANGED <<record, pending, snapshot, audit, report, undone, alone, budget>>
WriteRecord(w) ==
  /\ pc[w] = "write"
  /\ \E outcome \in WriteOutcomes :
       /\ record' = IF outcome = "rejected" THEN record ELSE [record EXCEPT ![at[w]] = "new"]
       /\ Lists(w, IF outcome = "ok" THEN Applied(w, at[w]) ELSE Failed(w, at[w]))
  /\ UNCHANGED <<pending, snapshot, audit, report, undone, alone, budget>>

\* Mutant: the snapshot is taken without the record that was written last.
AllButTheLast(w) == run[w].applied \ {Count}
Reverts(w) == run[w].applied
\* A save that fails, stored or not, is printed and nothing else comes of it.
Saves(w, saved) == run' = [run EXCEPT ![w].saved = saved] /\ undone' = {}
SaveSnapshot(w) ==
  /\ pc[w] = "save" /\ Goto(w, "clear") /\ UNCHANGED at
  /\ \/ run[w].applied = {} /\ UNCHANGED <<run, snapshot, undone>>
     \/ run[w].applied # {} /\ Saves(w, TRUE) /\ snapshot' = Reverts(w)
     \/ run[w].applied # {} /\ Saves(w, FALSE) /\ snapshot' \in {snapshot, Reverts(w)}
  /\ UNCHANGED <<record, pending, audit, report, alone, budget>>
Clear(w) ==
  /\ pc[w] = "clear" /\ Steps(w, "audit") /\ pending' = "gone"
  /\ UNCHANGED <<record, snapshot, audit, report, undone, alone, budget>>
\* One entry per applied record; one that fails is left out.
Audit(w) ==
  /\ pc[w] = "audit" /\ Steps(w, "answer")
  /\ \E entries \in SUBSET run[w].applied : audit' = audit \cup entries
  /\ UNCHANGED <<record, pending, snapshot, report, undone, alone, budget>>
Answer(w) ==
  /\ pc[w] = "answer" /\ Return(w) /\ report' = run[w]
  /\ UNCHANGED <<record, pending, snapshot, audit, undone, alone, budget>>

-----------------------------------------------------------------------------
\* Reject, undo, and what else happens

Reject(w) ==
  /\ Idle(w) /\ Present /\ pending' = "gone"
  /\ budget.requests > 0 /\ budget' = [budget EXCEPT !.requests = @ - 1]
  /\ alone' = (alone /\ \A v \in Workers : Idle(v))
  /\ UNCHANGED <<record, snapshot, audit, pc, at, run, report, undone>>
Undo(w) ==
  /\ snapshot # None /\ Begin(w, "restore", [NoRun EXCEPT !.targets = snapshot])
  /\ UNCHANGED <<record, pending, snapshot, audit, report, undone>>
\* Every record is tried; the snapshot is forgotten only when each was put back.
PutBack(r) == record' = [record EXCEPT ![r] = "pre"]
Tries(w, lists) == run' = [run EXCEPT ![w] = lists] /\ UNCHANGED <<pc, at>>
Restore(w) ==
  LET left == run[w].targets \ (run[w].applied \cup run[w].failed) IN
  /\ pc[w] = "restore"
  /\ \/ \E r \in left : \/ Tries(w, Applied(w, r)) /\ PutBack(r)
                        \/ Tries(w, Failed(w, r)) /\ (PutBack(r) \/ UNCHANGED record)
     \/ /\ left = {} /\ UNCHANGED record
        /\ IF run[w].failed = {} THEN Steps(w, "forget") ELSE Return(w)
  /\ UNCHANGED <<pending, snapshot, audit, report, undone, alone, budget>>
Forget(w) ==
  /\ pc[w] = "forget" /\ Return(w) /\ snapshot' = None /\ undone' = run[w].applied
  /\ UNCHANGED <<record, pending, audit, report, alone, budget>>

\* A request is cut short: cancelled, or a store call that is not guarded raises.
Abort(w) ==
  /\ ~Idle(w) /\ budget.aborts > 0 /\ budget' = [budget EXCEPT !.aborts = @ - 1] /\ Return(w)
  /\ UNCHANGED <<record, pending, snapshot, audit, report, undone, alone>>
Edit(r) ==
  /\ budget.edits > 0 /\ budget' = [budget EXCEPT !.edits = @ - 1]
  /\ record' = [record EXCEPT ![r] = "edited"]
  /\ run' = [w \in Workers |-> [run[w] EXCEPT !.edited = @ \/ (pc[w] = "write" /\ at[w] = r)]]
  /\ UNCHANGED <<pending, snapshot, audit, pc, at, report, undone, alone>>

Next ==
  \/ Tool
  \/ \E w \in Workers : \/ Approve(w) \/ Load(w) \/ Confirm(w) \/ ReadRecord(w) \/ WriteRecord(w)
                        \/ SaveSnapshot(w) \/ Clear(w) \/ Audit(w) \/ Answer(w)
                        \/ Reject(w) \/ Undo(w) \/ Restore(w) \/ Forget(w) \/ Abort(w)
  \/ \E r \in Matched : Edit(r)
Spec == Init /\ [][Next]_vars

-----------------------------------------------------------------------------
\* Properties

\* "Drift -> skip (never overwrite)" (handlers.py _execute_pattern_write): whatever requests interleave,
\* only an edit made between the re-read of its record and the write is overwritten by an approve.
DriftIsKept ==
  [][\A w \in Workers : WriteRecord(w) /\ record[at[w]] = "edited" =>
       record'[at[w]] = "edited" \/ run[w].edited]_vars

\* "A single hubspot undo restores exactly what changed": of requests that never met, cut short or not,
\* every record the report calls applied has its pre-image stored until the undo has put it back, unless
\* the save of the snapshot was not answered, and none that the undo put back holds the value of the rule.
\* The exception is a flaw: the report still names the undo command (handlers.py:895, 928).
ReportedIsRevertible ==
  alone /\ report # None =>
    /\ report.saved => report.applied \subseteq undone \cup (IF snapshot = None THEN {} ELSE snapshot)
    /\ \A r \in undone \cap report.applied : record[r] # "new"
=============================================================================
