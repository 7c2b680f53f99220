----------------------------- MODULE Changeset ------------------------------
(***************************************************************************)
(* The write path of the intent surface, intent/changes.py: one changeset  *)
(* (an ordered list of update, create and associate ops) is proposed,      *)
(* applied and undone.  A worker is one request in flight; requests        *)
(* interleave at every await, in one process or in several that share the  *)
(* state store.  Other changesets and users are seen through their edits.  *)
(*                                                                         *)
(* Which records share a batch is decided by object types and batch sizes; *)
(* a batch is any set of the writes still to be made.  HubSpot has settled *)
(* a write by the time its answer or its connection is lost.               *)
(***************************************************************************)
EXTENDS Naturals, FiniteSets

CONSTANTS
  Updates, Creates, Links,  \* the ops: update, create, associate
  Nested,                   \* the associations inside create ops
  Owner,                    \* Owner[p]: the create that nested association p is in
  Refs,                     \* Refs[p]: the creates whose records association p joins
  Labelled,                 \* the associations with a type other than "default"
  DependsOn,                \* DependsOn[c]: the update that create c belongs to, or None
  None,
  Workers, Process,         \* requests in flight, and the process of each
  CreateConcurrency,        \* CREATE_CONCURRENCY, 4
  CreateCheckpoint,         \* CREATE_CHECKPOINT, 25
  Outcomes,                 \* what a HubSpot write can end in, see Answers
  Faults,                   \* what can go wrong besides, see Next
  CanExpire,                \* does the store expire its keys (Redis does)
  MaxRequests, MaxFaults, MaxEdits   \* bounds

Ops == Updates \union Creates \union Links
Pairs == Links \union Nested
Items == Ops \union Nested
Objects == Creates \X Nat     \* a record is known by its create op and a number

ASSUME ChangesetAssumption ==
  /\ Updates \cap Creates = {} /\ Updates \cap Pairs = {}
  /\ Creates \cap Pairs = {} /\ Links \cap Nested = {}
  /\ IsFiniteSet(Creates)
  /\ Owner \in [Nested -> Creates]
  /\ Refs \in [Pairs -> SUBSET Creates]
  /\ \A p \in Nested : Owner[p] \in Refs[p]
  /\ Labelled \subseteq Pairs
  /\ DependsOn \in [Creates -> Updates \union {None}]
  /\ None \notin Updates
  /\ CreateConcurrency \in Nat \ {0} /\ CreateCheckpoint \in Nat \ {0}
  /\ Outcomes \subseteq {"ok", "failed", "lost", "timeout", "partial"}
  /\ Faults \subseteq {"read", "store", "cancel", "kill"}
  /\ CanExpire \in BOOLEAN
  /\ MaxRequests \in Nat /\ MaxFaults \in Nat /\ MaxEdits \in Nat

VARIABLES
  status,     \* the stored changeset: its status; unborn before, gone once expired
  original,   \* its original_values
  result,     \* its result: a status for each op, or None
  snapshot,   \* the stored undo snapshot, or None
  audit,      \* the actions in the audit log
  value,      \* HubSpot: the value of the record of each update op
  live,       \* HubSpot: the records the changeset created that still exist
  link,       \* HubSpot: link[p], who made the association: "old" others, "new" this one
  writes,     \* HubSpot: how often it applied each item
  pc, run, undo,    \* per worker: next await, the _Run of an apply, the state of an undo
  answered,   \* history: created records whose id the server received
  reverted,   \* history: has an undo reported "undone"
  budget      \* what is left of the three bounds

store == <<status, original, result, snapshot, audit>>
hubspot == <<value, live, link, writes>>
workers == <<pc, run, undo>>
history == <<answered, reverted>>
vars == <<store, hubspot, workers, history, budget>>

Values == {"base", "new", "edited", "gone"}
Verdicts == {"ok", "unchanged", "drifted", "failed"}
OpStatuses == Verdicts \union {"pending", "unconfirmed", "skipped", "blocked", "partial"}
PairStatuses == {"absent", "pending", "skipped", "ok", "failed", "unconfirmed", "blocked"}
Snapshots == [original : SUBSET Updates, created : SUBSET Objects,
              associated : SUBSET Links]

\* _Run; back is the chunk being read back, linking says if run.pairs is built.
Runs == [res : [Ops -> OpStatuses], attempted : SUBSET Ops, recorded : SUBSET Ops,
         created : SUBSET Objects, flushing : SUBSET Creates,
         linking : BOOLEAN, pair : [Pairs -> PairStatuses], pre : SUBSET Pairs,
         todo : SUBSET Pairs, back : SUBSET Pairs, interrupted : BOOLEAN]

\* What undo_changeset still has to revert, whether anything failed, and the
\* record it loaded: known is FALSE when it had expired.
Undos == [links : SUBSET Links, objects : SUBSET Objects, values : SUBSET Updates,
          failed : BOOLEAN, known : BOOLEAN, result : [Ops -> OpStatuses] \union {None}]

ASSUME NoneIsNothing ==
  None \notin Snapshots /\ None \notin Runs /\ None \notin Undos
    /\ None \notin [Ops -> OpStatuses]

ApplySteps == {"classify", "flip", "snap", "release", "updates", "creates",
               "links", "associate", "readback", "conclude", "settle", "apply_audit"}
UndoSteps == {"undo_load", "undoing", "undo_store", "undo_drop", "undo_audit"}
WritingSteps == {"updates", "creates", "links", "associate", "readback"}

TypeOK ==
  /\ status \in {"unborn", "pending", "applying", "applied", "undone", "gone"}
  /\ original \in [Updates -> Values]
  /\ result \in [Ops -> OpStatuses] \union {None}
  /\ snapshot \in Snapshots \union {None}
  /\ audit \subseteq {"apply_changes", "undo_changes"}
  /\ value \in [Updates -> Values]
  /\ live \subseteq Objects
  /\ link \in [Pairs -> SUBSET {"old", "new"}]
  /\ writes \in [Items -> Nat]
  /\ pc \in [Workers -> {"idle"} \union ApplySteps \union UndoSteps]
  /\ run \in [Workers -> Runs \union {None}]
  /\ undo \in [Workers -> Undos \union {None}]
  /\ \A w \in Workers : /\ pc[w] \in ApplySteps => run[w] \in Runs
                        /\ pc[w] \in UndoSteps => undo[w] \in Undos
  /\ answered \subseteq Objects
  /\ reverted \in BOOLEAN
  /\ budget \in [requests : Nat, faults : Nat, edits : Nat]

BothExisting(p) == Refs[p] = {}

\* Some records already have the proposed value, some pairs are already joined.
Init ==
  /\ status = "unborn"
  /\ original = [u \in Updates |-> "base"]
  /\ result = None /\ snapshot = None /\ audit = {}
  /\ value \in [Updates -> {"base", "new"}]
  /\ live = {}
  /\ link \in [Pairs -> {{}, {"old"}}] /\ \A p \in Pairs : ~BothExisting(p) => link[p] = {}
  /\ writes = [o \in Items |-> 0]
  /\ pc = [w \in Workers |-> "idle"]
  /\ run = [w \in Workers |-> None] /\ undo = [w \in Workers |-> None]
  /\ answered = {} /\ reverted = FALSE
  /\ budget = [requests |-> MaxRequests, faults |-> MaxFaults, edits |-> MaxEdits]

-----------------------------------------------------------------------------
(* HubSpot and the store *)

\* HubSpot applies the writes in S.
Applied(S) ==
  /\ writes' = [o \in Items |-> IF o \in S THEN writes[o] + 1 ELSE writes[o]]
  /\ value' = [u \in Updates |-> IF u \in S THEN "new" ELSE value[u]]
  /\ live' = live \union {<<c, writes[c] + 1>> : c \in S \cap Creates}
  /\ link' = [p \in Pairs |-> IF p \in S THEN link[p] \union {"new"} ELSE link[p]]

\* A write is applied and answered, refused, applied with the answer lost (a
\* read timeout, a 5xx, an answer without the id), or not applied and not
\* answered.  A record that is gone is not written.
Answers(o) == IF o \in Updates /\ value[o] = "gone"
              THEN {"failed"} \union (Outcomes \cap {"timeout"})
              ELSE Outcomes \ {"partial"}
Landed(out) == {o \in DOMAIN out : out[o] \in {"ok", "lost"}}

\* _unsure: only a 4xx is known not to have been applied.
BelievedRaw(outcome) == outcome
BelievedPlain(outcome) == IF outcome = "ok" THEN "ok" ELSE "failed"
Believed(outcome) == IF outcome \in {"ok", "failed"} THEN outcome ELSE "unconfirmed"

Goto(w, step) == pc' = [pc EXCEPT ![w] = step]
Return(w) == /\ pc' = [pc EXCEPT ![w] = "idle"]
             /\ run' = [run EXCEPT ![w] = None]
             /\ undo' = [undo EXCEPT ![w] = None]

Begin(w) == /\ pc[w] = "idle"
            /\ budget.requests > 0
            /\ budget' = [budget EXCEPT !.requests = @ - 1]

\* The changeset id is in _inflight of w's process.
InflightHere(w) == pc[w] \in ApplySteps
Inflight(w) == \E v \in Workers : Process[v] = Process[w] /\ pc[v] \in ApplySteps

Stored == status \notin {"unborn", "gone"}
-----------------------------------------------------------------------------
(* propose: reads what the updates would change, then stores the record *)

Propose ==
  /\ status = "unborn"
  /\ \A u \in Updates : value[u] # "gone"
  /\ original' = value
  /\ status' = "pending"
  /\ UNCHANGED <<result, snapshot, audit, hubspot, workers, history, budget>>

-----------------------------------------------------------------------------
(* apply_changeset *)

FreshRun == [res |-> [o \in Ops |-> "pending"], attempted |-> {}, recorded |-> {},
             created |-> {}, flushing |-> {}, linking |-> FALSE,
             pair |-> [p \in Pairs |-> "absent"], pre |-> {}, todo |-> {}, back |-> {},
             interrupted |-> FALSE]

\* Claims the id, then loads; anything but a pending record with the expected
\* count is refused and changes nothing.
Apply(w) ==
  /\ ~Inflight(w)
  /\ status = "pending"
  /\ Begin(w)
  /\ run' = [run EXCEPT ![w] = FreshRun]
  /\ Goto(w, IF Updates = {} THEN "flip" ELSE "classify")
  /\ UNCHANGED <<store, hubspot, undo, history>>

\* _classify_updates, by a fresh read of each record.
Verdict(u) == CASE value[u] = "gone" -> "failed"
                [] value[u] = "new" -> "unchanged"
                [] value[u] \notin {"gone", "new"} /\ value[u] = original[u] -> "ok"
                [] OTHER -> "drifted"

Classified(r, u) == [r EXCEPT !.res = [r.res EXCEPT ![u] = Verdict(u)]]
Classify(w) ==
  /\ pc[w] = "classify"
  /\ \E u \in Updates :
       /\ run[w].res[u] = "pending"
       /\ run' = [run EXCEPT ![w] = Classified(run[w], u)]
  /\ Goto(w, IF \E u \in Updates : run'[w].res[u] = "pending"
             THEN "classify" ELSE "flip")
  /\ UNCHANGED <<store, hubspot, undo, history, budget>>

StoreApplying(w) ==
  /\ pc[w] = "flip"
  /\ status' = "applying" /\ result' = None
  /\ Goto(w, "snap")
  /\ UNCHANGED <<original, snapshot, audit, hubspot, run, undo, history, budget>>

\* snapshot_originals and meta: what an undo of r would revert.
AssociatedAny(r) == {p \in Links : /\ r.linking /\ BothExisting(p)
                                   /\ r.pair[p] \in {"ok", "unconfirmed"}}
Associated(r) == {p \in Links : /\ r.linking /\ BothExisting(p) /\ p \notin r.pre
                                /\ r.pair[p] \in {"ok", "unconfirmed"}}
SnapshotOfConfirmed(r) ==
  [original |-> {u \in Updates : r.res[u] = "ok"},
   created |-> r.created, associated |-> Associated(r)]
SnapshotOf(r) ==
  [original |-> {u \in Updates : r.res[u] \in {"ok", "unconfirmed"}},
   created |-> r.created, associated |-> Associated(r)]

\* The updates found ok and not yet written.
Remaining(r) == {u \in Updates : r.res[u] = "ok" /\ u \notin r.recorded}

\* After the last update, creates whose update was not written are skipped.
OrphansOfFailed(r) == {c \in Creates : DependsOn[c] # None /\ r.res[DependsOn[c]] = "failed"}
Orphans(r) == {c \in Creates : DependsOn[c] # None /\ r.res[DependsOn[c]] # "ok"}
AfterUpdates(r) ==
  IF Remaining(r) # {} THEN r
  ELSE [r EXCEPT !.res = [o \in Ops |-> IF o \in Orphans(r) THEN "skipped" ELSE r.res[o]],
                 !.recorded = @ \union Orphans(r)]
PlaceOf(r) == IF Remaining(r) # {} THEN "updates" ELSE "creates"

SaveSnapshot(w) ==
  /\ pc[w] = "snap"
  /\ snapshot' = SnapshotOf(run[w])
  /\ run' = [run EXCEPT ![w] = AfterUpdates(run[w])]
  /\ Goto(w, PlaceOf(run[w]))
  /\ UNCHANGED <<status, original, result, audit, hubspot, undo, history, budget>>

\* _release, after a snapshot that could not be saved.
Release(w) ==
  /\ pc[w] = "release"
  /\ status' = "pending" /\ result' = None
  /\ Return(w)
  /\ UNCHANGED <<original, snapshot, audit, hubspot, history, budget>>

\* _write_batch: one batch of updates, answered per record.
Written(r, batch, out) ==
  [r EXCEPT !.res = [o \in Ops |-> IF o \in batch THEN Believed(out[o]) ELSE r.res[o]],
            !.attempted = @ \union batch, !.recorded = @ \union batch]
WriteUpdates(w) ==
  /\ pc[w] = "updates"
  /\ \E batch \in (SUBSET Remaining(run[w])) \ {{}} :
       \E out \in [batch -> Outcomes \union {"failed"}] :
         LET r == Written(run[w], batch, out)
         IN /\ \A u \in batch : out[u] \in Answers(u)
            /\ Applied(Landed(out))
            /\ run' = [run EXCEPT ![w] = AfterUpdates(r)]
            /\ Goto(w, PlaceOf(r))
  /\ UNCHANGED <<store, undo, history, budget>>

\* _create_records: one task per create, CREATE_CONCURRENCY of them at a time
\* between the start of the POST and the end of a checkpoint it may owe.
InGateForever(r) == r.attempted \cap Creates
InGate(r) == ((r.attempted \ r.recorded) \cap Creates) \union r.flushing
Sent(r, c) == [r EXCEPT !.attempted = @ \union {c}]
SendCreate(w) ==
  /\ pc[w] = "creates"
  /\ Cardinality(InGate(run[w])) < CreateConcurrency
  /\ \E c \in Creates \ (run[w].attempted \union run[w].recorded) :
       run' = [run EXCEPT ![w] = Sent(run[w], c)]
  /\ UNCHANGED <<store, hubspot, pc, undo, history, budget>>

\* The answer to c is recorded; new is the record whose id it gives.
Created(r, c, outcome, new) ==
  [r EXCEPT !.res = [r.res EXCEPT ![c] = Believed(outcome)],
            !.recorded = @ \union {c}, !.created = @ \union new,
            !.flushing = IF new # {} /\ Cardinality(r.created \union new) % CreateCheckpoint = 0
                         THEN @ \union {c} ELSE @]
AnswerCreate(w) ==
  /\ pc[w] = "creates"
  /\ \E c \in Creates \cap (run[w].attempted \ run[w].recorded) :
     \E outcome \in Answers(c) :
       LET new == IF outcome = "ok" THEN {<<c, writes[c] + 1>>} ELSE {}
       IN /\ Applied(Landed([o \in {c} |-> outcome]))
          /\ run' = [run EXCEPT ![w] = Created(run[w], c, outcome, new)]
          /\ answered' = answered \union new
  /\ UNCHANGED <<store, pc, undo, reverted, budget>>

\* checkpoint_created: a snapshot that is not there stays so.
FlushedAnew(r) == [original |-> {}, created |-> r.created, associated |-> {}]
Freed(r, c) == [r EXCEPT !.flushing = @ \ {c}]
Flushed(r) == IF snapshot = None THEN None ELSE [snapshot EXCEPT !.created = r.created]

FlushCreated(w) ==
  /\ pc[w] = "creates"
  /\ \E c \in run[w].flushing :
       /\ run' = [run EXCEPT ![w] = Freed(run[w], c)]
       /\ \/ snapshot' = Flushed(run[w])
          \/ /\ "store" \in Faults    \* gather keeps the error of a task
             /\ UNCHANGED snapshot
  /\ UNCHANGED <<status, original, result, audit, hubspot, pc, undo, history, budget>>

\* The pairs to associate: an explicit op whose record is missing is blocked,
\* the associations of a create that was not made are not attempted.
Resolved(r, p) == \A c \in Refs[p] : r.res[c] = "ok"
PairsOf(r) == [p \in Pairs |->
  IF p \in Nested /\ r.res[Owner[p]] # "ok" THEN "absent"
  ELSE IF Resolved(r, p) THEN "pending" ELSE "blocked"]
PlaceAfterCreates(r) == IF \E p \in Pairs : r.pair[p] = "pending" THEN "links" ELSE "conclude"

Linking(r) == [r EXCEPT !.linking = TRUE, !.pair = PairsOf(r)]

CreatesDone(r) == Creates \subseteq r.recorded /\ r.flushing = {}
EndCreates(w) ==
  /\ pc[w] = "creates"
  /\ CreatesDone(run[w])
  /\ snapshot' = Flushed(run[w])
  /\ run' = [run EXCEPT ![w] = Linking(run[w])]
  /\ Goto(w, PlaceAfterCreates(run'[w]))
  /\ UNCHANGED <<status, original, result, audit, hubspot, undo, history, budget>>

AfterChunk(r) == IF r.todo # {} THEN "associate" ELSE PlaceAfterCreates(r)

\* _associate: read which pairs of a group are already joined.  A failed read
\* counts as "none"; a default pair that is joined is skipped.
Looked(r, group, found) ==
  LET skip == found \ Labelled IN
  [r EXCEPT !.pre = @ \union found, !.todo = group \ skip,
            !.pair = [p \in Pairs |-> IF p \in skip THEN "skipped" ELSE r.pair[p]]]
ReadLinks(w) ==
  /\ pc[w] = "links"
  /\ \E group \in (SUBSET {p \in Pairs : run[w].pair[p] = "pending"}) \ {{}} :
     \E found \in {{p \in group : BothExisting(p) /\ link[p] # {}}}
                    \union (IF "read" \in Faults THEN {{}} ELSE {}) :
       /\ group \subseteq Labelled \/ group \cap Labelled = {}
       /\ run' = [run EXCEPT ![w] = Looked(run[w], group, found)]
       /\ Goto(w, AfterChunk(run'[w]))
  /\ UNCHANGED <<store, hubspot, undo, history, budget>>

\* The pairs in the domain of out have their answer.
Answered(r, out) ==
  [r EXCEPT !.pair = [p \in Pairs |-> IF p \in DOMAIN out THEN out[p] ELSE r.pair[p]],
            !.todo = @ \ DOMAIN out, !.back = {}]

\* _write_association_chunk: answered without errors; not answered, or
\* refused as a whole; or answered with errors that name no pair.
Unsettled(r, chunk) == [r EXCEPT !.back = chunk]
WriteLinks(w) ==
  /\ pc[w] = "associate"
  /\ \E chunk \in (SUBSET run[w].todo) \ {{}}, outcome \in Outcomes, S \in SUBSET run[w].todo :
       /\ S \subseteq chunk
       /\ outcome = "ok" => S = chunk
       /\ outcome \in {"failed", "timeout"} => S = {}
       /\ outcome = "partial" => S # chunk
       /\ Applied(S)
       /\ IF outcome = "partial"
          THEN run' = [run EXCEPT ![w] = Unsettled(run[w], chunk)] /\ Goto(w, "readback")
          ELSE /\ run' = [run EXCEPT ![w] =
                    Answered(run[w], [p \in chunk |-> Believed(outcome)])]
               /\ Goto(w, AfterChunk(run'[w]))
  /\ UNCHANGED <<store, undo, history, budget>>

\* Read the associations back to see which landed.
SeenLinked(chunk) == [p \in chunk |-> IF link[p] # {} THEN "ok" ELSE "failed"]
ReadBack(w) ==
  LET chunk == run[w].back IN
  /\ pc[w] = "readback"
  /\ \E out \in {SeenLinked(chunk)} \union
                (IF "read" \in Faults THEN {[p \in chunk |-> "unconfirmed"]} ELSE {}) :
       run' = [run EXCEPT ![w] = Answered(run[w], out)]
  /\ Goto(w, AfterChunk(run'[w]))
  /\ UNCHANGED <<store, hubspot, undo, history, budget>>

\* _mark_interrupted: what was sent without a recorded outcome is unconfirmed,
\* what was never sent is failed.
Unfinished(r, o) == /\ o \notin r.recorded
                    /\ \/ o \in Remaining(r) \union Creates
                       \/ o \in Links /\ ~r.linking
Marked(r) ==
  IF ~r.interrupted THEN r
  ELSE [r EXCEPT
    !.res = [o \in Ops |->
      IF Unfinished(r, o) THEN IF o \in r.attempted THEN "unconfirmed" ELSE "failed"
      ELSE IF ~r.linking /\ r.res[o] = "ok" /\ \E p \in Nested : Owner[p] = o THEN "partial"
      ELSE r.res[o]],
    !.pair = [p \in Pairs |-> IF r.pair[p] = "pending" THEN "unconfirmed" ELSE r.pair[p]]]

\* _apply_pair_results: the pairs' outcomes folded into their ops.
Folded(r) ==
  IF ~r.linking THEN r
  ELSE [r EXCEPT !.res = [o \in Ops |->
    IF o \in Links THEN r.pair[o]
    ELSE IF r.res[o] = "ok" /\ \E p \in Nested :
              Owner[p] = o /\ r.pair[p] \in {"failed", "unconfirmed", "blocked"}
         THEN "partial" ELSE r.res[o]]]

\* _conclude: save the snapshot, store the outcome, log it.
SaveOutcome(w) ==
  LET r == Folded(Marked(run[w])) IN
  /\ pc[w] = "conclude"
  /\ snapshot' = SnapshotOf(r)
  /\ run' = [run EXCEPT ![w] = r]
  /\ Goto(w, "settle")
  /\ UNCHANGED <<status, original, result, audit, hubspot, undo, history, budget>>

StoreApplied(w) ==
  /\ pc[w] = "settle"
  /\ status' = "applied"
  /\ result' = run[w].res
  /\ Goto(w, "apply_audit")
  /\ UNCHANGED <<original, snapshot, audit, hubspot, run, undo, history, budget>>

AuditApply(w) ==
  /\ pc[w] = "apply_audit"
  /\ audit' = audit \union {"apply_changes"}
  /\ Return(w)
  /\ UNCHANGED <<status, original, result, snapshot, hubspot, history, budget>>

-----------------------------------------------------------------------------
(* undo_changeset *)

\* The record is applied or applying and its apply does not run in this
\* process; or it has expired and the snapshot is still there.
Undo(w) ==
  /\ IF Stored THEN status \in {"applied", "applying"} /\ ~Inflight(w)
               ELSE snapshot # None
  /\ Begin(w)
  /\ undo' = [undo EXCEPT ![w] =
       [links |-> {}, objects |-> {}, values |-> {}, failed |-> FALSE,
        known |-> Stored, result |-> result]]
  /\ Goto(w, "undo_load")
  /\ UNCHANGED <<store, hubspot, run, history>>

Reverting(u) == u.links # {} \/ u.objects # {} \/ u.values # {}
AfterRevertAnyway(u) == IF Reverting(u) THEN "undoing"
                        ELSE IF u.known THEN "undo_store" ELSE "undo_drop"
AfterRevert(u) == IF Reverting(u) THEN "undoing"
                  ELSE IF u.failed THEN "undo_audit"
                  ELSE IF u.known THEN "undo_store" ELSE "undo_drop"

Loaded(u) == [u EXCEPT !.links = snapshot.associated, !.objects = snapshot.created,
                       !.values = snapshot.original]
LoadSnapshot(w) ==
  /\ pc[w] = "undo_load"
  /\ IF snapshot = None THEN Return(w)
     ELSE /\ undo' = [undo EXCEPT ![w] = Loaded(undo[w])]
          /\ Goto(w, AfterRevert(undo'[w]))
          /\ UNCHANGED run
  /\ UNCHANGED <<store, hubspot, history, budget>>

\* Each item is reverted or not, and the answer tells or is lost.
Tried(u, outcome) == [u EXCEPT !.failed = u.failed \/ outcome # "ok"]
Reverted(w, u, outcome) ==
  /\ undo' = [undo EXCEPT ![w] = Tried(u, outcome)]
  /\ Goto(w, AfterRevert(undo'[w]))

\* Archiving an association removes it with every type it has.
RemoveLink(w) ==
  /\ pc[w] = "undoing"
  /\ \E p \in undo[w].links, outcome \in Outcomes \ {"partial"} :
       /\ link' = IF outcome \in {"ok", "lost"} THEN [link EXCEPT ![p] = {}] ELSE link
       /\ Reverted(w, [undo[w] EXCEPT !.links = @ \ {p}], outcome)
  /\ UNCHANGED <<store, value, live, writes, run, history, budget>>

\* A record that is already gone counts as archived.
ArchiveCreated(w) ==
  /\ pc[w] = "undoing" /\ undo[w].links = {}
  /\ \E o \in undo[w].objects, outcome \in Outcomes \ {"partial"} :
       /\ live' = IF outcome \in {"ok", "lost"} THEN live \ {o} ELSE live
       /\ Reverted(w, [undo[w] EXCEPT !.objects = @ \ {o}], outcome)
  /\ UNCHANGED <<store, value, link, writes, run, history, budget>>

RestoreValue(w) ==
  /\ pc[w] = "undoing" /\ undo[w].links = {} /\ undo[w].objects = {}
  /\ \E u \in undo[w].values : \E outcome \in Answers(u) :
       /\ value' = IF outcome \in {"ok", "lost"} THEN [value EXCEPT ![u] = original[u]] ELSE value
       /\ Reverted(w, [undo[w] EXCEPT !.values = @ \ {u}], outcome)
  /\ UNCHANGED <<store, live, link, writes, run, history, budget>>

\* Only an undo without failures ends the changeset and drops the snapshot.
StoreUndone(w) ==
  /\ pc[w] = "undo_store"
  /\ status' = "undone"
  /\ result' = undo[w].result
  /\ Goto(w, "undo_drop")
  /\ UNCHANGED <<original, snapshot, audit, hubspot, run, undo, history, budget>>

KeepSnapshot(w) ==
  /\ pc[w] = "undo_drop"
  /\ reverted' = TRUE
  /\ Goto(w, "undo_audit")
  /\ UNCHANGED <<store, hubspot, run, undo, answered, budget>>
DropSnapshot(w) ==
  /\ pc[w] = "undo_drop"
  /\ snapshot' = None
  /\ reverted' = TRUE
  /\ Goto(w, "undo_audit")
  /\ UNCHANGED <<status, original, result, audit, hubspot, run, undo, answered, budget>>

AuditUndo(w) ==
  /\ pc[w] = "undo_audit"
  /\ audit' = audit \union {"undo_changes"}
  /\ Return(w)
  /\ UNCHANGED <<status, original, result, snapshot, hubspot, history, budget>>

-----------------------------------------------------------------------------
(* What can go wrong *)

Fault(kinds) == /\ kinds \cap Faults # {}
                /\ budget.faults > 0
                /\ budget' = [budget EXCEPT !.faults = @ - 1]

\* What _run_apply does after an interruption is shielded from cancellation,
\* not from a failing store.
Shielded(w) == \/ pc[w] = "release"
               \/ pc[w] \in {"conclude", "settle", "apply_audit"} /\ run[w].interrupted

\* The request ends at an await with nothing to record: a read or a store
\* call fails, or the caller cancels.
Raise(w) ==
  /\ pc[w] \notin WritingSteps \union {"idle", "snap"}
  /\ Fault(IF Shielded(w) THEN {"store"} ELSE {"store", "cancel"})
  /\ Return(w)
  /\ UNCHANGED <<store, hubspot, history>>

\* Cancelled while "applying" is being stored, which happens all the same.
RaiseStored(w) ==
  /\ pc[w] = "flip"
  /\ Fault({"store", "cancel"})
  /\ status' = "applying" /\ result' = None
  /\ Return(w)
  /\ UNCHANGED <<original, snapshot, audit, hubspot, history>>

\* The first snapshot is not saved, or the apply is cancelled while it is.
FailSnapshot(w) ==
  /\ pc[w] = "snap"
  /\ Fault({"store", "cancel"})
  /\ snapshot' \in {snapshot, SnapshotOf(run[w])}
  /\ Goto(w, "release")
  /\ UNCHANGED <<status, original, result, audit, hubspot, run, undo, history>>

\* What an apply may have on the wire: a batch, some creates, a chunk.
Flights(w) == CASE pc[w] = "updates" -> (SUBSET Remaining(run[w])) \ {{}}
                [] pc[w] = "creates" -> {(run[w].attempted \ run[w].recorded) \cap Creates}
                [] pc[w] = "associate" -> (SUBSET run[w].todo) \ {{}}
                [] OTHER -> {{}}

\* _run_apply catches a cancellation, or the failure of the last checkpoint,
\* after the writes have begun, and concludes under a shield.
Interrupted(r, sent) ==
  [r EXCEPT !.interrupted = TRUE, !.flushing = {},
            !.attempted = @ \union (sent \cap (Updates \union Creates))]
Interrupt(w) ==
  /\ pc[w] \in WritingSteps
  /\ Fault({"cancel"} \union
           (IF pc[w] = "creates" /\ CreatesDone(run[w]) THEN {"store"} ELSE {}))
  /\ \E sent \in Flights(w) : \E S \in SUBSET sent :
       /\ \A u \in S \cap Updates : value[u] # "gone"
       /\ Applied(S)
       /\ run' = [run EXCEPT ![w] = Interrupted(run[w], sent)]
  /\ Goto(w, "conclude")
  /\ UNCHANGED <<store, undo, history>>

\* A process dies with all its requests.
Kill(w) ==
  /\ pc[w] # "idle"
  /\ Fault({"kill"})
  /\ LET dead == {v \in Workers : Process[v] = Process[w]}
     IN /\ pc' = [v \in Workers |-> IF v \in dead THEN "idle" ELSE pc[v]]
        /\ run' = [v \in Workers |-> IF v \in dead THEN None ELSE run[v]]
        /\ undo' = [v \in Workers |-> IF v \in dead THEN None ELSE undo[v]]
  /\ UNCHANGED <<store, hubspot, history>>

\* The record expires 24 h after it was last stored, so not under the writes
\* of an apply, which stores it first; the snapshot after 7 d.
ExpireRecord ==
  /\ CanExpire /\ Stored
  /\ \A w \in Workers : pc[w] \notin ApplySteps \ {"classify", "flip"}
  /\ status' = "gone" /\ result' = None
  /\ UNCHANGED <<original, snapshot, audit, hubspot, workers, history, budget>>

ExpireSnapshot ==
  /\ CanExpire /\ status = "gone" /\ snapshot # None
  /\ \A w \in Workers : pc[w] = "idle"
  /\ snapshot' = None
  /\ UNCHANGED <<status, original, result, audit, hubspot, workers, history, budget>>

\* Another user, or another changeset, changes or archives a record.
Edit ==
  /\ budget.edits > 0
  /\ budget' = [budget EXCEPT !.edits = @ - 1]
  /\ \/ /\ \E u \in Updates, v \in {"edited", "gone"} :
             value[u] # "gone" /\ value' = [value EXCEPT ![u] = v]
        /\ UNCHANGED live
     \/ /\ \E o \in live : live' = live \ {o}
        /\ UNCHANGED value
  /\ UNCHANGED <<store, link, writes, workers, history>>

-----------------------------------------------------------------------------
Step(w) ==
  \/ Classify(w) \/ StoreApplying(w) \/ SaveSnapshot(w) \/ Release(w)
  \/ WriteUpdates(w)
  \/ SendCreate(w) \/ AnswerCreate(w) \/ FlushCreated(w) \/ EndCreates(w)
  \/ ReadLinks(w) \/ WriteLinks(w) \/ ReadBack(w)
  \/ SaveOutcome(w) \/ StoreApplied(w) \/ AuditApply(w)
  \/ LoadSnapshot(w) \/ RemoveLink(w) \/ ArchiveCreated(w) \/ RestoreValue(w)
  \/ StoreUndone(w) \/ DropSnapshot(w) \/ AuditUndo(w)

Next == \/ Propose
        \/ \E w \in Workers : \/ Apply(w) \/ Undo(w) \/ Step(w)
                              \/ Raise(w) \/ RaiseStored(w) \/ FailSnapshot(w)
                              \/ Interrupt(w) \/ Kill(w)
        \/ ExpireRecord \/ ExpireSnapshot
        \/ Edit

Spec == Init /\ [][Next]_vars

\* Every await returns or raises: HubSpot calls and store calls time out.
FairSpec == Spec /\ \A w \in Workers : WF_vars(Step(w))
-----------------------------------------------------------------------------
(* Properties of one process *)

Touched(o) == writes[o] > 0

\* The stored report is true op by op: "ok" was written with all its
\* associations, "partial" was written, and what is neither of these nor
\* "unconfirmed" was not written and may be built again (_next_note).
ReportIsHonest ==
  result # None => \A o \in Ops :
    /\ result[o] \in {"ok", "partial"} => Touched(o)
    /\ result[o] = "ok" => \A p \in Nested : Owner[p] = o => Touched(p)
    /\ result[o] \notin {"ok", "partial", "unconfirmed"} => ~Touched(o)

\* HubSpot applies no write of the changeset twice, whatever is retried or cut
\* short ("propose a changeset, apply it once").
AppliedOnce == \A o \in Items : writes[o] <= 1

\* Snapshot first: from the first update on, the record can be put back, also
\* when the process dies (_run_apply).
SnapshotFirst ==
  \A u \in Updates : status \in {"applying", "applied"} /\ Touched(u) =>
    snapshot # None /\ u \in snapshot.original

\* Once an apply has reported, an undo will find everything it wrote and knows
\* of: every update, every record whose id was received, every new association.
AppliedIsRevertible ==
  status = "applied" =>
    /\ snapshot # None
    /\ \A u \in Updates : Touched(u) => u \in snapshot.original
    /\ answered \subseteq snapshot.created
    /\ \A p \in Links : BothExisting(p) /\ link[p] = {"new"} => p \in snapshot.associated

\* A record that belongs to an update is made only if that update was written
\* (_execute).
DependentsFollow ==
  \A c \in Creates : DependsOn[c] # None /\ Touched(c) => Touched(DependsOn[c])

\* The status only moves along pending -> applying -> applied -> undone, back
\* to pending when nothing was written, or from applying to undone after a
\* death; the record may expire, and be stored again by a request that had it.
Moves == {<<"unborn", "pending">>, <<"pending", "applying">>, <<"applying", "pending">>,
          <<"applying", "applied">>, <<"applied", "undone">>, <<"applying", "undone">>}
StateMachine ==
  [][status' # status => \/ "gone" \in {status, status'}
                         \/ <<status, status'>> \in Moves]_status

\* After an undo that reports "undone" nothing the server knows to have
\* written is left in HubSpot (undo_changeset).
UndoneLeavesNothing ==
  reverted =>
    /\ live \cap answered = {}
    /\ \A u \in Updates : Touched(u) => value[u] # "new"
    /\ \A p \in Links : link[p] # {"new"} \/ ~BothExisting(p)

\* Nothing the server does removes an association that others had made.
OldLinksStay == [][\A p \in Pairs : "old" \in link[p] => "old" \in link'[p]]_link

\* Once undone, the changeset changes nothing in HubSpot any more: not by a
\* second undo, and not after the record has expired.
UndoneIsFinal ==
  [][reverted /\ budget'.edits = budget.edits => UNCHANGED hubspot]_vars

\* An apply that has begun to write comes to its end: the tasks of the creates
\* do not wait on each other for ever.
ApplyEnds == \A w \in Workers : pc[w] \in WritingSteps ~> pc[w] = "idle"

-----------------------------------------------------------------------------
(* What the source says and the code does not do *)

\* changes.py:31: an apply that stops partway does not strand the changeset
\* in "applying".
NotStranded == status = "applying" => \E w \in Workers : pc[w] \in ApplySteps
=============================================================================
