-------------------------- MODULE ChangesetReports --------------------------
(***************************************************************************)
(* Theorems about Changeset: what an apply leaves behind, the undo snapshot *)
(* and the report, is true of what it wrote; what an undo may touch, what   *)
(* it leaves, and that it is the last thing a changeset does.               *)
(***************************************************************************)
EXTENDS ChangesetProofs

NoExpiry == CanExpire = FALSE

\* A read-back of associations tells what it is asked: no pair that others
\* had joined is among those it is asked about.
SureLinks == "partial" \in Outcomes => Labelled = {} /\ "read" \notin Faults

Concluding == WritingSteps \union {"conclude"}
Underways == BeforeWrites \union Concluding

-----------------------------------------------------------------------------
(* The invariants *)

\* Nothing expires: an undo knows its record, and drops the snapshot last.
KeptInv ==
  /\ status # "gone"
  /\ status = "unborn" => snapshot = None
  /\ \A w \in Workers : /\ pc[w] \in UndoSteps => undo[w].known
                        /\ pc[w] = "undo_drop" => status = "undone"

\* The updates an apply has written or may still write are in the snapshot.
Wanted(r) == {u \in Updates : u \in r.recorded \/ r.res[u] = "ok"}
Covered == \A w \in Workers : pc[w] \in Concluding =>
             snapshot # None /\ Wanted(run[w]) \subseteq snapshot.original
SnapInv == KeptInv /\ Covered /\ SnapshotFirst

\* Until an apply has saved its outcome no undo removes an association, so
\* what joins two records tells who joined them.
Early == \/ status \in {"unborn", "pending"}
         \/ \E v \in Workers : pc[v] \in Underways
NoneToRemove ==
  Early => /\ snapshot # None => snapshot.associated = {}
           /\ \A w \in Workers : pc[w] \in UndoSteps => undo[w].links = {}
OldExisted == \A p \in Pairs : "old" \in link[p] => BothExisting(p)
NewTouched == Early => \A p \in Pairs : "new" \in link[p] <=> Touched(p)

\* What the run of an apply knows of the associations; l is who made them.
Joined(r, n, l) ==
  /\ \A p \in r.pre : "old" \in l[p]
  /\ r.linking => \A p \in Pairs :
       /\ n[p] # 0 => r.pair[p] \in {"pending", "ok", "unconfirmed"}
       /\ SureLinks /\ r.pair[p] = "ok" => n[p] # 0
       /\ p \in Nested => /\ r.pair[p] # "skipped"
                          /\ r.pair[p] = "absent" => r.res[Owner[p]] # "ok"
  /\ SureLinks /\ "partial" \in Outcomes => \A p \in r.todo : n[p] = 0 => l[p] = {}
JoinedAt(w) ==
  /\ pc[w] \in BeforeWrites => run[w].pre = {}
  /\ pc[w] \in Concluding => Joined(run[w], writes, link)
  /\ pc[w] = "readback" => "partial" \in Outcomes
AllJoined == \A w \in Workers : JoinedAt(w)
LinkInv == NoneToRemove /\ OldExisted /\ NewTouched /\ AllJoined

\* The ids that were received are in the run, then in the snapshot.
Findable == /\ snapshot # None
            /\ answered \subseteq snapshot.created
            /\ \A p \in Links : BothExisting(p) /\ link[p] = {"new"} => p \in snapshot.associated
NoneAnswered == status \in {"unborn", "pending"} => answered = {}
AllAnswered == \A w \in Workers :
  /\ pc[w] \in BeforeWrites => answered = {}
  /\ pc[w] \in Concluding => answered \subseteq run[w].created
  /\ pc[w] = "settle" => Findable
RevertInv == NoneAnswered /\ AllAnswered /\ AppliedIsRevertible

\* A report, wherever it is kept, is true.
Honest(res, n) ==
  \A o \in Ops :
    /\ res[o] \in {"ok", "partial"} => n[o] # 0
    /\ res[o] = "ok" => \A p \in Nested : Owner[p] = o => n[p] # 0
    /\ res[o] \notin {"ok", "partial", "unconfirmed"} => n[o] = 0
ReportInv ==
  /\ result # None => status \in {"applied", "undone"} /\ Honest(result, writes)
  /\ \A w \in Workers :
       /\ pc[w] = "settle" => Honest(run[w].res, writes)
       /\ pc[w] \in UndoSteps /\ undo[w].result # None =>
            undo[w].known /\ Honest(undo[w].result, writes)

-----------------------------------------------------------------------------
(* Who does what *)

\* A request stays as it is, ends, or takes a step of its own.
LEMMA WorkerFrame ==
  ASSUME TypeInv, [Next]_vars, NEW v \in Workers
  PROVE  \/ pc'[v] = pc[v] /\ run'[v] = run[v] /\ undo'[v] = undo[v]
         \/ pc'[v] = "idle"
         \/ Apply(v) \/ Undo(v) \/ Step(v) \/ FailSnapshot(v) \/ Interrupt(v)
  <1> USE DEF TypeInv, TypeOK, store, hubspot, workers, history
  <1>1. CASE Propose \/ ExpireRecord \/ ExpireSnapshot \/ Edit \/ UNCHANGED vars
    BY <1>1 DEF Propose, ExpireRecord, ExpireSnapshot, Edit, vars
  <1>2. ASSUME NEW w \in Workers, Raise(w) \/ RaiseStored(w) \/ Kill(w)
        PROVE  pc'[v] = "idle" \/ (pc'[v] = pc[v] /\ run'[v] = run[v] /\ undo'[v] = undo[v])
    BY <1>2 DEF Raise, RaiseStored, Kill, Return
  <1>3. ASSUME NEW w \in Workers \ {v},
               Apply(w) \/ Undo(w) \/ Step(w) \/ FailSnapshot(w) \/ Interrupt(w)
        PROVE  pc'[v] = pc[v] /\ run'[v] = run[v] /\ undo'[v] = undo[v]
    BY ZenonT(60), <1>3 DEF Step, Apply, Undo, FailSnapshot, Interrupt, Classify, StoreApplying, SaveSnapshot, Release,
       WriteUpdates, SendCreate, AnswerCreate, FlushCreated, EndCreates, ReadLinks, WriteLinks,
       ReadBack, SaveOutcome, StoreApplied, AuditApply, LoadSnapshot, RemoveLink, ArchiveCreated,
       RestoreValue, StoreUndone, DropSnapshot, AuditUndo, Goto, Return, Reverted
  <1> QED BY <1>1, <1>2, <1>3 DEF Next

\* A step of an apply, and the end of an undo, do not lead into an undo.
LEMMA StepsApart ==
  ASSUME TypeInv, NEW w \in Workers,
         \/ Classify(w) \/ StoreApplying(w) \/ SaveSnapshot(w) \/ Release(w) \/ WriteUpdates(w)
         \/ SendCreate(w) \/ AnswerCreate(w) \/ FlushCreated(w) \/ EndCreates(w)
         \/ ReadLinks(w) \/ WriteLinks(w) \/ ReadBack(w)
         \/ SaveOutcome(w) \/ StoreApplied(w) \/ AuditApply(w) \/ AuditUndo(w)
  PROVE  pc'[w] \notin UndoSteps
  <1> USE DEF store, hubspot, workers, history
  <1>1. CASE \/ Classify(w) \/ StoreApplying(w) \/ SaveSnapshot(w) \/ Release(w) \/ WriteUpdates(w)
             \/ SendCreate(w) \/ AnswerCreate(w) \/ FlushCreated(w)
             \/ SaveOutcome(w) \/ StoreApplied(w) \/ AuditApply(w) \/ AuditUndo(w)
    <2>1. pc'[w] \in {"classify", "flip", "snap", "updates", "creates", "settle", "apply_audit", "idle"}
      BY <1>1 DEF Classify, StoreApplying, SaveSnapshot, Release, WriteUpdates, SendCreate,
         AnswerCreate, FlushCreated, SaveOutcome, StoreApplied, AuditApply, AuditUndo, Goto, Return,
         PlaceOf, TypeInv, TypeOK
    <2> QED BY <2>1 DEF UndoSteps
  <1>2. CASE EndCreates(w) \/ ReadLinks(w) \/ WriteLinks(w) \/ ReadBack(w)
    <2>1. PICK step \in {"links", "associate", "readback", "conclude"} : Goto(w, step)
      BY <1>2 DEF EndCreates, ReadLinks, WriteLinks, ReadBack, AfterChunk, PlaceAfterCreates
    <2> QED BY <2>1 DEF Goto, TypeInv, TypeOK, UndoSteps
  <1> QED BY <1>1, <1>2

\* The steps that change the snapshot, what HubSpot applied, and who made an
\* association.
LEMMA WhoSaves ==
  ASSUME [Next]_vars, snapshot' # snapshot
  PROVE  \/ ExpireSnapshot
         \/ \E w \in Workers : SaveSnapshot(w) \/ FlushCreated(w) \/ EndCreates(w) \/ SaveOutcome(w)
                                 \/ FailSnapshot(w) \/ DropSnapshot(w)
  BY ZenonT(60) DEF Next, Step, Propose, Apply, Undo, Raise, RaiseStored, Interrupt, Kill,
     ExpireRecord, Edit, Classify, StoreApplying, Release, WriteUpdates, SendCreate, AnswerCreate,
     ReadLinks, WriteLinks, ReadBack, StoreApplied, AuditApply, LoadSnapshot, RemoveLink, ArchiveCreated,
     RestoreValue, StoreUndone, AuditUndo, vars, store, hubspot, workers, history

LEMMA WhoWrites ==
  ASSUME [Next]_vars, writes' # writes
  PROVE  \E w \in Workers : WriteUpdates(w) \/ AnswerCreate(w) \/ WriteLinks(w) \/ Interrupt(w)
  BY SMTT(30) DEF Next, Step, Propose, Apply, Undo, Raise, RaiseStored, FailSnapshot, Kill,
     ExpireRecord, ExpireSnapshot, Edit, Classify, StoreApplying, SaveSnapshot, Release,
     SendCreate, FlushCreated, EndCreates, ReadLinks, ReadBack, SaveOutcome, StoreApplied, AuditApply,
     LoadSnapshot, RemoveLink, ArchiveCreated, RestoreValue, StoreUndone, DropSnapshot, AuditUndo,
     vars, store, hubspot, workers, history

LEMMA WhoLinks ==
  ASSUME [Next]_vars, link' # link
  PROVE  \E w \in Workers : WriteUpdates(w) \/ AnswerCreate(w) \/ WriteLinks(w) \/ Interrupt(w)
                              \/ RemoveLink(w)
  BY SMTT(30) DEF Next, Step, Propose, Apply, Undo, Raise, RaiseStored, FailSnapshot, Kill,
     ExpireRecord, ExpireSnapshot, Edit, Classify, StoreApplying, SaveSnapshot, Release,
     SendCreate, FlushCreated, EndCreates, ReadLinks, ReadBack, SaveOutcome, StoreApplied, AuditApply,
     LoadSnapshot, ArchiveCreated, RestoreValue, StoreUndone, DropSnapshot, AuditUndo,
     vars, store, hubspot, workers, history

LEMMA WhoStores ==
  ASSUME [Next]_vars, status' # status \/ result' # result
  PROVE  \/ Propose \/ ExpireRecord
         \/ \E w \in Workers : StoreApplying(w) \/ RaiseStored(w) \/ Release(w) \/ StoreApplied(w)
                                 \/ StoreUndone(w)
  BY ZenonT(60) DEF Next, Step, Apply, Undo, Raise, FailSnapshot, Interrupt, Kill,
     ExpireSnapshot, Edit, Classify, SaveSnapshot,
     WriteUpdates, SendCreate, AnswerCreate, FlushCreated, EndCreates, ReadLinks, WriteLinks,
     ReadBack, SaveOutcome, AuditApply, LoadSnapshot, RemoveLink, ArchiveCreated,
     RestoreValue, DropSnapshot, AuditUndo, vars, store, hubspot, workers, history

-----------------------------------------------------------------------------
(* Without expiry the record of a changeset stays *)

LEMMA KeptStep == TypeInv /\ Phases /\ OneProcess /\ NoExpiry /\ KeptInv /\ [Next]_vars => KeptInv'
  <1> SUFFICES ASSUME TypeInv, Phases, OneProcess, NoExpiry, KeptInv, [Next]_vars PROVE KeptInv'
    OBVIOUS
  <1> USE DEF store, hubspot, workers, history, KeptInv
  <1>1. status' # status => <<status, status'>> \in Moves
    <2>1. status' # status => "gone" \in {status, status'} \/ <<status, status'>> \in Moves
      BY StatusStep
    <2>2. status' # "gone"
      BY WhoStores DEF Propose, ExpireRecord, StoreApplying, RaiseStored, Release, StoreApplied,
         StoreUndone, NoExpiry
    <2> QED BY <2>1, <2>2
  <1>2. status' # "gone" /\ (status' = "unborn" => status = "unborn")
    BY <1>1 DEF Moves
  <1>3. status = "undone" => status' = "undone"
    BY <1>1 DEF Moves
  <1>4. ASSUME status = "unborn" PROVE snapshot' = snapshot
    <2>1. \A w \in Workers : pc[w] \notin ApplySteps /\ pc[w] \notin UndoSteps
      BY <1>4 DEF Phases, AppliesAt, UndoesAlone, StatusAt
    <2> QED BY <2>1, WhoSaves DEF SaveSnapshot, FlushCreated, EndCreates, SaveOutcome, FailSnapshot,
            DropSnapshot, ExpireSnapshot, NoExpiry, ApplySteps, UndoSteps
  <1>5. ASSUME NEW w \in Workers, pc'[w] \in UndoSteps
        PROVE  undo'[w].known /\ (pc'[w] = "undo_drop" => status' = "undone")
    <2>1. CASE Undo(w)
      <3>1. Stored
        BY <2>1 DEF Undo, Stored
      <3> QED BY <2>1, <3>1 DEF Undo, Goto, TypeInv, TypeOK
    <2>2. CASE pc'[w] = pc[w] /\ undo'[w] = undo[w]
      BY <1>3, <1>5, <2>2
    <2>3. CASE LoadSnapshot(w) \/ RemoveLink(w) \/ ArchiveCreated(w) \/ RestoreValue(w)
      <3>0. undo[w] \in Undos /\ undo[w].known
        BY <2>3 DEF LoadSnapshot, RemoveLink, ArchiveCreated, RestoreValue, TypeInv, TypeOK, UndoSteps
      <3>1. undo'[w].known
        <4>1. CASE LoadSnapshot(w)
          <5>1. undo'[w] = Loaded(undo[w])
            BY <1>5, <4>1 DEF LoadSnapshot, Return, UndoSteps, TypeInv, TypeOK
          <5> QED BY <3>0, <5>1 DEF Loaded, Undos
        <4>2. ASSUME NEW u \in Undos, NEW outcome, Reverted(w, u, outcome), u.known PROVE undo'[w].known
          BY <4>2 DEF Reverted, Tried, TypeInv, TypeOK, Undos
        <4>3. CASE RemoveLink(w)
          <5>1. PICK p \in undo[w].links, outcome \in Outcomes \ {"partial"} :
                  Reverted(w, [undo[w] EXCEPT !.links = @ \ {p}], outcome)
            BY <4>3 DEF RemoveLink
          <5>2. [undo[w] EXCEPT !.links = @ \ {p}] \in Undos /\ [undo[w] EXCEPT !.links = @ \ {p}].known
            BY <3>0 DEF Undos
          <5> QED BY <4>2, <5>1, <5>2
        <4>4. CASE ArchiveCreated(w)
          <5>1. PICK o \in undo[w].objects, outcome \in Outcomes \ {"partial"} :
                  Reverted(w, [undo[w] EXCEPT !.objects = @ \ {o}], outcome)
            BY <4>4 DEF ArchiveCreated
          <5>2. [undo[w] EXCEPT !.objects = @ \ {o}] \in Undos /\ [undo[w] EXCEPT !.objects = @ \ {o}].known
            BY <3>0 DEF Undos
          <5> QED BY <4>2, <5>1, <5>2
        <4>5. CASE RestoreValue(w)
          <5>1. PICK u \in undo[w].values : \E outcome : Reverted(w, [undo[w] EXCEPT !.values = @ \ {u}], outcome)
            BY <4>5 DEF RestoreValue
          <5>2. [undo[w] EXCEPT !.values = @ \ {u}] \in Undos /\ [undo[w] EXCEPT !.values = @ \ {u}].known
            BY <3>0 DEF Undos
          <5> QED BY <4>2, <5>1, <5>2
        <4> QED BY <2>3, <4>1, <4>3, <4>4, <4>5
      <3>2. pc'[w] # "undo_drop"
        BY <1>5, <2>3, <3>1 DEF LoadSnapshot, RemoveLink, ArchiveCreated, RestoreValue, Reverted, AfterRevert,
           Return, Goto, TypeInv, TypeOK, UndoSteps
      <3> QED BY <3>1, <3>2
    <2>4. CASE StoreUndone(w) \/ DropSnapshot(w)
      BY <2>4 DEF StoreUndone, DropSnapshot, Goto, TypeInv, TypeOK, UndoSteps
    <2>5. CASE FailSnapshot(w) \/ Interrupt(w) \/ Apply(w)
      BY <1>5, <2>5 DEF FailSnapshot, Interrupt, Apply, Goto, TypeInv, TypeOK, UndoSteps
    <2>6. CASE \/ Classify(w) \/ StoreApplying(w) \/ SaveSnapshot(w) \/ Release(w) \/ WriteUpdates(w)
               \/ SendCreate(w) \/ AnswerCreate(w) \/ FlushCreated(w) \/ EndCreates(w)
               \/ ReadLinks(w) \/ WriteLinks(w) \/ ReadBack(w)
               \/ SaveOutcome(w) \/ StoreApplied(w) \/ AuditApply(w) \/ AuditUndo(w)
      BY <1>5, <2>6, StepsApart
    <2> QED BY <1>5, <2>1, <2>2, <2>3, <2>4, <2>5, <2>6, WorkerFrame DEF Step, UndoSteps
  <1>6. status' = "unborn" => snapshot' = None
    BY <1>2, <1>4
  <1> QED BY <1>2, <1>5, <1>6 DEF UndoSteps

-----------------------------------------------------------------------------
(* The snapshot comes first *)

LEMMA FlushedKeeps ==
  ASSUME TypeInv, NEW r \in Runs
  PROVE  /\ snapshot = None => Flushed(r) = None
         /\ snapshot # None => /\ Flushed(r) # None /\ Flushed(r).created = r.created
                               /\ Flushed(r).original = snapshot.original
                               /\ Flushed(r).associated = snapshot.associated
  <1>1. ASSUME snapshot # None
        PROVE  /\ Flushed(r) \in Snapshots /\ Flushed(r).created = r.created
               /\ Flushed(r).original = snapshot.original
               /\ Flushed(r).associated = snapshot.associated
    BY <1>1 DEF TypeInv, TypeOK, Flushed, Snapshots, Runs
  <1> QED BY <1>1, NoneIsNothing DEF Flushed

LEMMA WantedAfterUpdates ==
  ASSUME NEW r \in Runs
  PROVE  Wanted(AfterUpdates(r)) = Wanted(r)
  <1>1. CASE Remaining(r) # {}
    BY <1>1 DEF AfterUpdates
  <1>2. CASE Remaining(r) = {}
    <2> DEFINE s == AfterUpdates(r)
    <2>1. /\ s.recorded = r.recorded \union Orphans(r)
          /\ s.res = [o \in Ops |-> IF o \in Orphans(r) THEN "skipped" ELSE r.res[o]]
      BY <1>2 DEF AfterUpdates, Runs
    <2> HIDE DEF s
    <2>2. \A u \in Updates : u \in Ops /\ u \notin Orphans(r)
      BY ChangesetAssumption DEF Orphans, Ops
    <2>3. Wanted(s) = Wanted(r)
      BY <2>1, <2>2 DEF Wanted
    <2> QED BY <2>3 DEF s
  <1> QED BY <1>1, <1>2

LEMMA WantedWritten ==
  ASSUME NEW r \in Runs, NEW batch \in SUBSET Remaining(r), NEW out
  PROVE  Wanted(Written(r, batch, out)) = Wanted(r)
  <1> DEFINE s == Written(r, batch, out)
  <1>1. /\ s.recorded = r.recorded \union batch
        /\ s.res = [o \in Ops |-> IF o \in batch THEN Believed(out[o]) ELSE r.res[o]]
    BY DEF Written, Runs
  <1> HIDE DEF s
  <1>2. \A u \in Updates : u \in Ops
    BY DEF Ops
  <1>3. Wanted(s) = Wanted(r)
    BY <1>1, <1>2 DEF Wanted, Remaining
  <1> QED BY <1>3 DEF s

\* Only what concerns the updates matters to the snapshot.
LEMMA WantedElsewhere ==
  ASSUME NEW r, NEW s,
         \A u \in Updates : s.res[u] = r.res[u] /\ (u \in s.recorded <=> u \in r.recorded)
  PROVE  Wanted(s) = Wanted(r)
  BY DEF Wanted

\* Among the writes the snapshot keeps its originals, and only what it names
\* is written.
LEMMA WritingKeeps ==
  ASSUME TypeInv, TypeInv', Phases, SnapInv, KeptInv', NEW w \in Workers, pc[w] \in WritingSteps,
         NEW s, run' = [run EXCEPT ![w] = s], Wanted(s) = Wanted(run[w]),
         \A v \in Workers \ {w} : pc'[v] = pc[v],
         snapshot' \in {snapshot, Flushed(run[w])},
         \A u \in Updates \ Wanted(run[w]) : writes'[u] = writes[u]
  PROVE  SnapInv'
  <1>0. pc[w] \in ApplySteps /\ run[w] \in Runs /\ run'[w] = s
    BY DEF WritingSteps, ApplySteps, TypeInv, TypeOK
  <1>1. snapshot # None /\ Wanted(run[w]) \subseteq snapshot.original
    BY DEF SnapInv, Covered, Concluding
  <1>2. snapshot' # None /\ snapshot'.original = snapshot.original
    BY <1>0, <1>1, FlushedKeeps
  <1>3. \A v \in Workers : pc'[v] \in Concluding => v = w
    BY <1>0 DEF Phases, OneApply, Concluding, WritingSteps, ApplySteps
  <1>4. Covered'
    BY <1>0, <1>1, <1>2, <1>3 DEF Covered
  <1>5. status = "applying"
    BY <1>0 DEF Phases, AppliesAt, StatusAt, WritingSteps
  <1>6. SnapshotFirst'
    <2>1. ASSUME NEW u \in Updates, writes'[u] > 0 PROVE u \in snapshot.original
      BY <1>1, <1>5, <2>1 DEF SnapInv, SnapshotFirst, Touched
    <2> QED BY <1>2, <2>1 DEF SnapshotFirst, Touched
  <1> QED BY <1>4, <1>6 DEF SnapInv

LEMMA RecordSnaps ==
  ASSUME TypeInv, TypeInv', Phases, WriteInv, SnapInv, KeptInv', NEW w \in Workers,
         WriteUpdates(w) \/ SendCreate(w) \/ AnswerCreate(w) \/ FlushCreated(w) \/ EndCreates(w)
  PROVE  SnapInv'
  <1> USE DEF store, hubspot, workers, history
  <1> USE ChangesetAssumption
  <1> DEFINE r == run[w]
  <1>0. pc[w] \in WritingSteps
    BY DEF WriteUpdates, SendCreate, AnswerCreate, FlushCreated, EndCreates, WritingSteps
  <1>1. r \in Runs
    BY <1>0, Writing
  <1>2. \A v \in Workers \ {w} : pc'[v] = pc[v]
    BY DEF WriteUpdates, SendCreate, AnswerCreate, FlushCreated, EndCreates, Goto, TypeInv, TypeOK
  <1> HIDE DEF r
  <1>3. CASE WriteUpdates(w)
    <2>1. PICK batch, out : /\ batch \in SUBSET Remaining(r) /\ out \in [batch -> Outcomes \union {"failed"}]
                            /\ Applied(Landed(out))
                            /\ run' = [run EXCEPT ![w] = AfterUpdates(Written(r, batch, out))]
      BY <1>3 DEF WriteUpdates, r
    <2>2. Written(r, batch, out) \in Runs
      BY <1>1, <2>1, WrittenType DEF Remaining
    <2>3. Wanted(AfterUpdates(Written(r, batch, out))) = Wanted(r)
      BY <1>1, <2>1, <2>2, WantedAfterUpdates, WantedWritten
    <2>4. \A u \in Updates \ Wanted(r) : writes'[u] = writes[u]
      <3>1. Landed(out) \subseteq Wanted(r)
        BY <2>1, LandedUpdates DEF Remaining, Wanted
      <3> QED BY <2>1, <3>1 DEF Applied, Items, Ops
    <2>5. UNCHANGED snapshot
      BY <1>3 DEF WriteUpdates
    <2> QED BY <1>0, <1>2, <2>1, <2>3, <2>4, <2>5, WritingKeeps DEF r
  <1>4. CASE SendCreate(w)
    <2>1. PICK c \in Creates : run' = [run EXCEPT ![w] = Sent(r, c)]
      BY <1>4 DEF SendCreate, r
    <2>2. Sent(r, c).res = r.res /\ Sent(r, c).recorded = r.recorded
      BY <1>1 DEF Sent, Runs
    <2>3. Wanted(Sent(r, c)) = Wanted(r)
      BY <2>2, WantedElsewhere
    <2>4. UNCHANGED <<snapshot, writes>>
      BY <1>4 DEF SendCreate
    <2> QED BY <1>0, <1>2, <2>1, <2>3, <2>4, WritingKeeps DEF r
  <1>5. CASE AnswerCreate(w)
    <2>1. PICK c, outcome, new : /\ c \in Creates
                                 /\ Applied(Landed([o \in {c} |-> outcome]))
                                 /\ run' = [run EXCEPT ![w] = Created(r, c, outcome, new)]
      BY <1>5 DEF AnswerCreate, r
    <2>2. /\ Created(r, c, outcome, new).res = [r.res EXCEPT ![c] = Believed(outcome)]
          /\ Created(r, c, outcome, new).recorded = r.recorded \union {c}
      BY <1>1 DEF Created, Runs
    <2>3. Wanted(Created(r, c, outcome, new)) = Wanted(r)
      <3>1. \A u \in Updates : u # c /\ u \in Ops
        BY <2>1 DEF Ops
      <3> QED BY <1>1, <2>2, <3>1, WantedElsewhere DEF Runs
    <2>4. \A u \in Updates : writes'[u] = writes[u]
      <3>1. Landed([o \in {c} |-> outcome]) \subseteq Creates
        BY <2>1 DEF Landed
      <3> QED BY <2>1, <3>1 DEF Applied, Items, Ops
    <2>5. UNCHANGED snapshot
      BY <1>5 DEF AnswerCreate
    <2> QED BY <1>0, <1>2, <2>1, <2>3, <2>4, <2>5, WritingKeeps DEF r
  <1>6. CASE FlushCreated(w)
    <2>1. PICK c : run' = [run EXCEPT ![w] = Freed(r, c)]
      BY <1>6 DEF FlushCreated, r
    <2>2. Freed(r, c).res = r.res /\ Freed(r, c).recorded = r.recorded
      BY <1>1 DEF Freed, Runs
    <2>3. Wanted(Freed(r, c)) = Wanted(r)
      BY <2>2, WantedElsewhere
    <2>4. UNCHANGED writes /\ snapshot' \in {snapshot, Flushed(r)}
      BY <1>6 DEF FlushCreated, r
    <2> QED BY <1>0, <1>2, <2>1, <2>3, <2>4, WritingKeeps DEF r
  <1>7. CASE EndCreates(w)
    <2>1. Linking(r).res = r.res /\ Linking(r).recorded = r.recorded
      BY <1>1 DEF Linking, Runs
    <2>2. Wanted(Linking(r)) = Wanted(r)
      BY <2>1, WantedElsewhere
    <2>3. UNCHANGED writes /\ snapshot' = Flushed(r) /\ run' = [run EXCEPT ![w] = Linking(r)]
      BY <1>7 DEF EndCreates, r
    <2> QED BY <1>0, <1>2, <2>2, <2>3, WritingKeeps DEF r
  <1> QED BY <1>3, <1>4, <1>5, <1>6, <1>7

LEMMA LinkSnaps ==
  ASSUME TypeInv, TypeInv', Phases, WriteInv, SnapInv, KeptInv', NEW w \in Workers,
         ReadLinks(w) \/ WriteLinks(w) \/ ReadBack(w) \/ Interrupt(w)
  PROVE  SnapInv'
  <1> USE DEF store, hubspot, workers, history
  <1> USE ChangesetAssumption
  <1> DEFINE r == run[w]
  <1>0. pc[w] \in WritingSteps /\ UNCHANGED snapshot
    BY DEF ReadLinks, WriteLinks, ReadBack, Interrupt, WritingSteps
  <1>1. r \in Runs
    BY <1>0, Writing
  <1>2. \A v \in Workers \ {w} : pc'[v] = pc[v]
    <2>1. \E step : Goto(w, step)
      BY DEF ReadLinks, WriteLinks, ReadBack, Interrupt
    <2> QED BY <2>1 DEF Goto, TypeInv, TypeOK
  <1> HIDE DEF r
  <1>3. ASSUME NEW out PROVE Wanted(Answered(r, out)) = Wanted(r)
    <2>1. Answered(r, out).res = r.res /\ Answered(r, out).recorded = r.recorded
      BY <1>1 DEF Answered, Runs
    <2> QED BY <2>1, WantedElsewhere
  <1>4. CASE ReadLinks(w)
    <2>1. PICK group, found : run' = [run EXCEPT ![w] = Looked(r, group, found)]
      BY <1>4 DEF ReadLinks, r
    <2>2. Wanted(Looked(r, group, found)) = Wanted(r)
      BY <1>1 DEF Looked, Runs, Wanted
    <2>3. UNCHANGED writes
      BY <1>4 DEF ReadLinks
    <2> QED BY <1>0, <1>2, <2>1, <2>2, <2>3, WritingKeeps DEF r
  <1>5. CASE WriteLinks(w)
    <2>1. PICK chunk \in (SUBSET r.todo) \ {{}}, outcome \in Outcomes, S \in SUBSET r.todo :
            /\ Applied(S)
            /\ IF outcome = "partial"
               THEN run' = [run EXCEPT ![w] = Unsettled(r, chunk)]
               ELSE run' = [run EXCEPT ![w] = Answered(r, [p \in chunk |-> Believed(outcome)])]
      BY <1>5 DEF WriteLinks, r
    <2>2. PICK s : run' = [run EXCEPT ![w] = s] /\ Wanted(s) = Wanted(r)
      <3>1. Wanted(Unsettled(r, chunk)) = Wanted(r)
        BY <1>1 DEF Unsettled, Runs, Wanted
      <3> QED BY <1>3, <2>1, <3>1
    <2>3. \A u \in Updates : writes'[u] = writes[u]
      <3>1. S \cap Updates = {}
        BY <1>1, <2>1 DEF Runs
      <3> QED BY <2>1, <3>1 DEF Applied, Items, Ops
    <2> QED BY <1>0, <1>2, <2>2, <2>3, WritingKeeps DEF r
  <1>6. CASE ReadBack(w)
    <2>1. PICK out : run' = [run EXCEPT ![w] = Answered(r, out)]
      BY <1>6 DEF ReadBack, r
    <2>2. UNCHANGED writes
      BY <1>6 DEF ReadBack
    <2> QED BY <1>0, <1>2, <1>3, <2>1, <2>2, WritingKeeps DEF r
  <1>7. CASE Interrupt(w)
    <2>1. PICK sent, S : /\ sent \in Flights(w) /\ S \in SUBSET sent /\ Applied(S)
                         /\ run' = [run EXCEPT ![w] = Interrupted(r, sent)]
      BY <1>7 DEF Interrupt, r
    <2>2. Wanted(Interrupted(r, sent)) = Wanted(r)
      BY <1>1 DEF Interrupted, Runs, Wanted
    <2>3. S \cap Updates \subseteq Wanted(r)
      <3>1. sent \subseteq Remaining(r) \/ sent \subseteq Creates \/ sent \subseteq r.todo \/ sent = {}
        BY <2>1 DEF Flights, r
      <3> QED BY <1>1, <2>1, <3>1 DEF Remaining, Wanted, Runs
    <2>4. \A u \in Updates \ Wanted(r) : writes'[u] = writes[u]
      BY <2>1, <2>3 DEF Applied, Items, Ops
    <2> QED BY <1>0, <1>2, <2>1, <2>2, <2>4, WritingKeeps DEF r
  <1> QED BY <1>4, <1>5, <1>6, <1>7

\* A change of the snapshot or the status before there are writes.
LEMMA PrepareSnaps ==
  ASSUME TypeInv, TypeInv', Phases, WriteInv, SnapInv, KeptInv', NEW w \in Workers,
         \/ Apply(w) \/ Classify(w) \/ StoreApplying(w) \/ RaiseStored(w) \/ SaveSnapshot(w)
         \/ FailSnapshot(w) \/ Release(w)
  PROVE  SnapInv'
  <1> USE DEF store, hubspot, workers, history
  <1>1. UNCHANGED writes
    BY DEF Apply, Classify, StoreApplying, RaiseStored, SaveSnapshot, FailSnapshot, Release
  <1>2. \A u \in Updates : writes[u] = 0
    <2>1. NothingYet(writes)
      BY DEF Apply, Classify, StoreApplying, RaiseStored, SaveSnapshot, FailSnapshot, Release,
         WriteInv, Unwritten, AllUnderway, Underway, BeforeWrites
    <2> QED BY <2>1 DEF NothingYet, Items, Ops
  <1>3. SnapshotFirst'
    BY <1>1, <1>2 DEF SnapshotFirst, Touched
  <1>4. CASE ~SaveSnapshot(w)
    <2>1. \A v \in Workers : pc'[v] \in Concluding => pc'[v] = pc[v] /\ run'[v] = run[v] /\ pc[v] \in Concluding
      BY <1>4 DEF Apply, Classify, StoreApplying, RaiseStored, FailSnapshot, Release, Return, Goto,
         Concluding, WritingSteps, TypeInv, TypeOK
    <2>2. (\E v \in Workers : pc[v] \in Concluding) => UNCHANGED snapshot
      <3>1. ASSUME NEW v \in Workers, pc[v] \in Concluding, FailSnapshot(w) PROVE FALSE
        BY <3>1 DEF FailSnapshot, Phases, OneApply, Concluding, WritingSteps, ApplySteps
      <3> QED BY <1>4, <3>1 DEF Apply, Classify, StoreApplying, RaiseStored, Release
    <2>3. Covered'
      BY <2>1, <2>2 DEF Covered, SnapInv
    <2> QED BY <1>3, <2>3 DEF SnapInv
  <1>5. CASE SaveSnapshot(w)
    <2>0. pc[w] = "snap" /\ pc[w] \in ApplySteps /\ run[w] \in Runs
      BY <1>5 DEF SaveSnapshot, ApplySteps, TypeInv, TypeOK
    <2>1. Planned(run[w]) /\ \A u \in Updates : run[w].res[u] \in Verdicts
      BY <2>0 DEF WriteInv, AllUnderway, Underway, BeforeWrites
    <2>2. run'[w] = AfterUpdates(run[w]) /\ snapshot' = SnapshotOf(run[w])
      BY <1>5 DEF SaveSnapshot, TypeInv, TypeOK
    <2>3. Wanted(run'[w]) = Wanted(run[w])
      BY <2>0, <2>2, WantedAfterUpdates
    <2>4. Wanted(run[w]) \subseteq snapshot'.original
      BY <2>1, <2>2 DEF Wanted, SnapshotOf, Planned
    <2>5. snapshot' # None
      <3>1. SnapshotOf(run[w]) \in Snapshots
        BY <2>0 DEF SnapshotOf, Snapshots, Associated, Runs
      <3> QED BY <2>2, <3>1, NoneIsNothing
    <2>6. \A v \in Workers : pc'[v] \in Concluding => v = w
      BY <1>5, <2>0 DEF SaveSnapshot, Goto, Phases, OneApply, Concluding, WritingSteps, ApplySteps, TypeInv, TypeOK
    <2>7. Covered'
      BY <2>3, <2>4, <2>5, <2>6 DEF Covered
    <2> QED BY <1>3, <2>7 DEF SnapInv
  <1> QED BY <1>4, <1>5

\* What was written is among what the concluding run calls written or unsure.
LEMMA TouchedNamed ==
  ASSUME NEW r \in Runs, NEW n \in Counts, Underway(r, "conclude", n), NEW u \in Updates, n[u] # 0
  PROVE  u \in SnapshotOf(Folded(Marked(r))).original
  <1> USE ChangesetAssumption
  <1>1. Records(r, n) /\ Results(r)
    BY DEF Underway
  <1>2. u \in Ops /\ u \notin Links /\ u \notin Creates /\ u \notin Nested
    BY DEF Ops, Pairs
  <1>3. u \in r.attempted
    BY <1>1 DEF Records
  <1> DEFINE m == Marked(r)
  <1>4. m.res[u] \in {"ok", "unconfirmed"}
    <2>1. CASE u \in r.recorded
      <3>1. r.res[u] \in {"ok", "unconfirmed"}
        BY <1>1, <2>1 DEF Records
      <3>2. ~ \E p \in Nested : Owner[p] = u
        BY <1>2
      <3>3. ~Unfinished(r, u)
        BY <2>1 DEF Unfinished
      <3> QED BY <1>2, <3>1, <3>2, <3>3 DEF Marked, Runs
    <2>2. CASE u \notin r.recorded
      <3>1. r.interrupted
        BY <1>1, <2>2 DEF Records
      <3>2. Unfinished(r, u)
        BY <1>1, <1>3, <2>2 DEF Results, Unfinished, Remaining
      <3> QED BY <1>2, <1>3, <3>1, <3>2 DEF Marked, Runs
    <2> QED BY <2>1, <2>2
  <1>5. m \in Runs
    BY <1>4, MarkedType
  <1> HIDE DEF m
  <1>6. Folded(m).res[u] \in {"ok", "unconfirmed"}
    BY <1>2, <1>4, <1>5 DEF Folded, Runs
  <1> QED BY <1>6 DEF SnapshotOf, m

LEMMA ConcludeSnaps ==
  ASSUME TypeInv, TypeInv', Phases, WriteInv, SnapInv, KeptInv', NEW w \in Workers,
         SaveOutcome(w) \/ StoreApplied(w) \/ AuditApply(w)
  PROVE  SnapInv'
  <1> USE DEF store, hubspot, workers, history
  <1>1. UNCHANGED writes
    BY DEF SaveOutcome, StoreApplied, AuditApply
  <1>2. \A v \in Workers : pc'[v] \in Concluding => v # w /\ pc'[v] = pc[v] /\ run'[v] = run[v]
    BY DEF SaveOutcome, StoreApplied, AuditApply, Goto, Return, Concluding, WritingSteps, TypeInv, TypeOK
  <1>3. CASE SaveOutcome(w)
    <2>0. pc[w] = "conclude" /\ pc[w] \in ApplySteps /\ run[w] \in Runs
      BY <1>3 DEF SaveOutcome, ApplySteps, TypeInv, TypeOK
    <2>1. \A v \in Workers : pc'[v] \notin Concluding
      BY <1>2, <2>0 DEF Phases, OneApply, Concluding, WritingSteps, ApplySteps
    <2>2. snapshot' = SnapshotOf(Folded(Marked(run[w])))
      BY <1>3 DEF SaveOutcome
    <2>3. \A u \in Updates : writes'[u] > 0 => u \in snapshot'.original
      <3>1. Underway(run[w], "conclude", writes) /\ writes \in Counts
        BY <2>0 DEF WriteInv, AllUnderway, TypeInv, TypeOK, Counts
      <3> QED BY <1>1, <2>0, <2>2, <3>1, TouchedNamed DEF Counts
    <2>4. snapshot' # None
      <3>1. Folded(Marked(run[w])) \in Runs
        BY <2>0, TypeParts, InFlight, MarkedType, KnownPairs, FoldedType
      <3> QED BY <2>2, <3>1, SnapshotType, NoneIsNothing
    <2> QED BY <2>1, <2>3, <2>4 DEF SnapInv, Covered, SnapshotFirst, Touched
  <1>4. CASE StoreApplied(w) \/ AuditApply(w)
    <2>1. UNCHANGED snapshot
      BY <1>4 DEF StoreApplied, AuditApply
    <2>2. Covered'
      BY <1>2, <2>1 DEF SnapInv, Covered
    <2>3. status' \in {"applying", "applied"} => status \in {"applying", "applied"}
      <3>1. CASE StoreApplied(w)
        BY <3>1 DEF StoreApplied, Phases, AppliesAt, StatusAt, ApplySteps
      <3>2. CASE AuditApply(w)
        BY <3>2 DEF AuditApply
      <3> QED BY <1>4, <3>1, <3>2
    <2> QED BY <1>1, <2>1, <2>2, <2>3 DEF SnapInv, SnapshotFirst, Touched
  <1> QED BY <1>3, <1>4

\* Nothing else saves a snapshot but the end of an undo, or stores "applying".
LEMMA OtherSnaps ==
  ASSUME TypeInv, TypeInv', Phases, WriteInv, SnapInv, KeptInv', NoExpiry, [Next]_vars,
         ~ \E w \in Workers :
              \/ Apply(w) \/ Classify(w) \/ StoreApplying(w) \/ RaiseStored(w) \/ SaveSnapshot(w)
              \/ FailSnapshot(w) \/ Release(w) \/ WriteUpdates(w) \/ SendCreate(w) \/ AnswerCreate(w)
              \/ FlushCreated(w) \/ EndCreates(w) \/ ReadLinks(w) \/ WriteLinks(w) \/ ReadBack(w)
              \/ Interrupt(w) \/ SaveOutcome(w) \/ StoreApplied(w) \/ AuditApply(w)
  PROVE  SnapInv'
  <1> USE DEF store, hubspot, workers, history
  <1>1. UNCHANGED writes
    BY WhoWrites
  <1>2. \A v \in Workers : pc'[v] \in Concluding => pc'[v] = pc[v] /\ run'[v] = run[v]
    <2>1. ASSUME NEW v \in Workers,
                 \/ Undo(v) \/ LoadSnapshot(v) \/ RemoveLink(v) \/ ArchiveCreated(v) \/ RestoreValue(v)
                 \/ StoreUndone(v) \/ DropSnapshot(v) \/ AuditUndo(v)
          PROVE  pc'[v] \notin Concluding
      <3>1. \E step \in UndoSteps \union {"idle"} : Goto(v, step)
        BY <2>1 DEF Undo, LoadSnapshot, RemoveLink, ArchiveCreated, RestoreValue, StoreUndone, DropSnapshot,
           AuditUndo, Reverted, AfterRevert, Return, Goto, UndoSteps
      <3> QED BY <3>1 DEF Goto, Concluding, WritingSteps, UndoSteps, TypeInv, TypeOK
    <2>2. "idle" \notin Concluding
      BY DEF Concluding, WritingSteps
    <2> QED BY <2>1, <2>2, WorkerFrame DEF Step
  <1>3. CASE UNCHANGED snapshot
    <2>1. status' \in {"applying", "applied"} => status \in {"applying", "applied"}
      BY WhoStores DEF Propose, ExpireRecord, StoreUndone
    <2> QED BY <1>1, <1>2, <1>3, <2>1 DEF SnapInv, Covered, SnapshotFirst, Touched
  <1>4. CASE snapshot' # snapshot
    <2>1. PICK w \in Workers : DropSnapshot(w)
      BY <1>4, WhoSaves DEF ExpireSnapshot, NoExpiry
    <2>2. status = "undone" /\ status' = "undone"
      BY <2>1 DEF DropSnapshot, SnapInv, KeptInv
    <2>3. \A v \in Workers : pc[v] \notin ApplySteps
      BY <2>1 DEF DropSnapshot, SnapInv, KeptInv, Phases, UndoesAlone, UndoSteps
    <2>4. \A v \in Workers : pc'[v] \notin Concluding
      BY <1>2, <2>3 DEF Concluding, WritingSteps, ApplySteps
    <2> QED BY <2>2, <2>4 DEF SnapInv, Covered, SnapshotFirst
  <1> QED BY <1>3, <1>4

LEMMA SnapStep ==
  TypeInv /\ Phases /\ WriteInv /\ OneProcess /\ NoExpiry /\ SnapInv /\ [Next]_vars => SnapInv'
  <1> SUFFICES ASSUME TypeInv, Phases, WriteInv, OneProcess, NoExpiry, SnapInv, [Next]_vars
               PROVE  SnapInv'
    OBVIOUS
  <1>1. TypeInv' /\ KeptInv'
    BY TypeStep, KeptStep DEF SnapInv
  <1> QED BY <1>1, PrepareSnaps, RecordSnaps, LinkSnaps, ConcludeSnaps, OtherSnaps

LEMMA InitSnaps == NoExpiry /\ Init => SnapInv
  BY DEF Init, SnapInv, KeptInv, Covered, SnapshotFirst, Concluding, WritingSteps, UndoSteps

LEMMA SnapInvariant == ASSUME OneProcess, NoExpiry PROVE Spec => []SnapInv
  BY InitSnaps, TypeInvariant, PhaseInvariant, WriteInvariant, SnapStep, PTL DEF Spec

\* In one process, with a store that keeps its keys, every update that HubSpot
\* has applied is in the undo snapshot as long as the changeset says
\* "applying" or "applied", also when the process has died (_run_apply).
THEOREM SnapshotComesFirst == ASSUME OneProcess, NoExpiry PROVE Spec => []SnapshotFirst
  <1>1. SnapInv => SnapshotFirst
    BY DEF SnapInv
  <1> QED BY <1>1, SnapInvariant, PTL

-----------------------------------------------------------------------------
(* Who made an association *)

LinkSets == [Pairs -> SUBSET {"old", "new"}]
\* HubSpot joins the pairs it applies.
JoinedNow(l, S) == [p \in Pairs |-> IF p \in S THEN l[p] \union {"new"} ELSE l[p]]
Origins(n, l) == /\ \A p \in Pairs : "old" \in l[p] => BothExisting(p)
                 /\ \A p \in Pairs : "new" \in l[p] <=> n[p] # 0

\* Nothing that concerns the associations has changed.
LEMMA JoinedElsewhere ==
  ASSUME NEW r, NEW s, NEW n, NEW m, NEW l, Joined(r, n, l), ~r.linking,
         s.pre = r.pre, s.linking = r.linking, s.todo = r.todo, \A p \in Pairs : m[p] = n[p],
         s.todo \subseteq Pairs
  PROVE  Joined(s, m, l)
  BY DEF Joined

LEMMA LinkingJoined ==
  ASSUME NEW r \in Runs, NEW n, NEW l, Joined(r, n, l), \A p \in Pairs : n[p] = 0
  PROVE  Joined(Linking(r), n, l)
  <1> DEFINE s == Linking(r)
  <1>1. /\ s.pre = r.pre /\ s.linking /\ s.todo = r.todo /\ s.res = r.res
        /\ s.pair = PairsOf(r)
    BY DEF Linking, Runs
  <1>2. \A p \in Pairs : /\ s.pair[p] \in {"absent", "pending", "blocked"}
                         /\ s.pair[p] = "absent" => r.res[Owner[p]] # "ok"
    BY <1>1 DEF PairsOf
  <1> HIDE DEF s
  <1>3. Joined(s, n, l)
    BY <1>1, <1>2 DEF Joined
  <1> QED BY <1>3 DEF s

\* What is found joined before it was written was joined by others.
LEMMA LookedJoined ==
  ASSUME NEW r \in Runs, NEW n \in Counts, NEW l \in LinkSets, Joined(r, n, l), r.linking,
         Origins(n, l),
         NEW group \in SUBSET Pairs, \A p \in group : r.pair[p] = "pending" /\ n[p] = 0,
         NEW found, \/ found = {p \in group : BothExisting(p) /\ l[p] # {}}
                    \/ found = {} /\ "read" \in Faults
  PROVE  Joined(Looked(r, group, found), n, l)
  <1> USE ChangesetAssumption
  <1> DEFINE s == Looked(r, group, found)
             skip == found \ Labelled
  <1>1. /\ s.pre = r.pre \union found /\ s.linking /\ s.todo = group \ skip /\ s.res = r.res
        /\ s.pair = [p \in Pairs |-> IF p \in skip THEN "skipped" ELSE r.pair[p]]
    BY DEF Looked, Runs
  <1>2. found \subseteq group /\ skip \subseteq found
    OBVIOUS
  <1>3. \A p \in found : "old" \in l[p] /\ BothExisting(p)
    BY DEF Origins, LinkSets
  <1> HIDE DEF s, skip
  <1>4. \A p \in s.pre : "old" \in l[p]
    BY <1>1, <1>3 DEF Joined
  <1>5. ASSUME NEW p \in Pairs
        PROVE  /\ n[p] # 0 => s.pair[p] \in {"pending", "ok", "unconfirmed"}
               /\ SureLinks /\ s.pair[p] = "ok" => n[p] # 0
               /\ p \in Nested => /\ s.pair[p] # "skipped"
                                  /\ s.pair[p] = "absent" => s.res[Owner[p]] # "ok"
    <2>1. CASE p \in skip
      <3>1. s.pair[p] = "skipped" /\ n[p] = 0
        BY <1>1, <1>2, <2>1
      <3>2. p \notin Nested
        BY <1>2, <1>3, <2>1 DEF BothExisting
      <3> QED BY <3>1, <3>2
    <2>2. CASE p \notin skip
      BY <1>1, <2>2 DEF Joined
    <2> QED BY <2>1, <2>2
  <1>6. ASSUME SureLinks, "partial" \in Outcomes, NEW p \in s.todo PROVE l[p] = {}
    <2>1. p \in group /\ p \notin found
      BY <1>1, <1>6 DEF SureLinks, skip
    <2>2. "new" \notin l[p]
      BY <2>1 DEF Origins
    <2>3. "old" \in l[p] => BothExisting(p) /\ l[p] # {}
      BY <2>1 DEF Origins
    <2>4. "old" \notin l[p]
      BY <1>6, <2>1, <2>3 DEF SureLinks
    <2> QED BY <2>1, <2>2, <2>4 DEF LinkSets
  <1>7. Joined(s, n, l)
    BY <1>1, <1>4, <1>5, <1>6 DEF Joined
  <1> QED BY <1>7 DEF s

\* A chunk of pending pairs gets its outcome, or is still pending.
LEMMA ChunkJoined ==
  ASSUME NEW r \in Runs, NEW n \in Counts, NEW l \in LinkSets, Joined(r, n, l), NEW chunk \in SUBSET r.todo,
         \A p \in r.todo : r.pair[p] = "pending",
         NEW S \in SUBSET chunk,
         NEW s, s.pre = r.pre, s.linking = r.linking, s.todo \subseteq r.todo,
         \A p \in Nested : s.res[Owner[p]] = r.res[Owner[p]],
         \A p \in Pairs \ chunk : s.pair[p] = r.pair[p],
         \A p \in chunk : \/ s.pair[p] = "pending"
                          \/ s.pair[p] = "unconfirmed"
                          \/ s.pair[p] = "ok" /\ (SureLinks => Counted(n, S)[p] # 0)
                          \/ s.pair[p] = "failed" /\ Counted(n, S)[p] = 0
  PROVE  Joined(s, Counted(n, S), JoinedNow(l, S))
  <1> DEFINE m == Counted(n, S)
             k == JoinedNow(l, S)
  <1>1. chunk \subseteq Pairs
    BY DEF Runs
  <1>2. \A p \in Pairs : /\ m[p] = IF p \in S THEN n[p] + 1 ELSE n[p]
                         /\ k[p] = IF p \in S THEN l[p] \union {"new"} ELSE l[p]
    BY DEF Counted, JoinedNow, Items, Ops, Pairs
  <1>3. \A p \in Pairs \ chunk : m[p] = n[p]
    BY <1>2
  <1>4. \A p \in Pairs : p \notin S => m[p] = n[p]
    BY <1>2
  <1> HIDE DEF m, k
  <1>5. ASSUME NEW p \in S PROVE m[p] # 0
    <2>1. p \in Pairs /\ p \in Items
      BY <1>1 DEF Items, Ops, Pairs
    <2>2. n[p] \in Nat /\ m[p] = n[p] + 1
      BY <1>2, <2>1 DEF Counts
    <2> QED BY <2>2
  <1>6. ASSUME NEW p \in s.pre PROVE "old" \in k[p]
    <2>1. p \in Pairs /\ "old" \in l[p]
      BY <1>6 DEF Joined, Runs
    <2> QED BY <1>2, <2>1
  <1>7. ASSUME s.linking, NEW p \in Pairs
        PROVE  /\ m[p] # 0 => s.pair[p] \in {"pending", "ok", "unconfirmed"}
               /\ SureLinks /\ s.pair[p] = "ok" => m[p] # 0
               /\ p \in Nested => /\ s.pair[p] # "skipped"
                                  /\ s.pair[p] = "absent" => s.res[Owner[p]] # "ok"
    <2>1. CASE p \in chunk
      BY <2>1 DEF m
    <2>2. CASE p \notin chunk
      BY <1>3, <1>7, <2>2 DEF Joined
    <2> QED BY <2>1, <2>2
  <1>8. ASSUME SureLinks, "partial" \in Outcomes, NEW p \in s.todo, m[p] = 0 PROVE k[p] = {}
    <2>1. p \notin S /\ p \in r.todo /\ p \in Pairs
      BY <1>5, <1>8 DEF Runs
    <2> QED BY <1>2, <1>4, <1>8, <2>1 DEF Joined
  <1>9. Joined(s, m, k)
    BY <1>6, <1>7, <1>8 DEF Joined
  <1> QED BY <1>9 DEF m, k

\* Until its outcome is saved an apply has begun early.
LEMMA EarlyBefore ==
  ASSUME TypeInv, Phases, [Next]_vars, Early'
  PROVE  Early
  <1> USE DEF store, hubspot, workers, history
  <1>1. CASE status' \in {"unborn", "pending"}
    <2>1. CASE status' = status
      BY <1>1, <2>1 DEF Early
    <2>2. CASE status' # status
      <3>1. Propose \/ \E w \in Workers : Release(w)
        BY <1>1, <2>2, WhoStores DEF ExpireRecord, StoreApplying, RaiseStored, StoreApplied, StoreUndone
      <3> QED BY <3>1 DEF Propose, Release, Early, Underways, BeforeWrites
    <2> QED BY <2>1, <2>2
  <1>2. ASSUME NEW v \in Workers, pc'[v] \in Underways PROVE Early
    <2>1. CASE pc'[v] = pc[v]
      BY <1>2, <2>1 DEF Early
    <2>2. CASE Apply(v)
      BY <2>2 DEF Apply, Early
    <2>3. CASE FailSnapshot(v) \/ Interrupt(v)
      BY <2>3 DEF FailSnapshot, Interrupt, Early, Underways, BeforeWrites, Concluding
    <2>4. CASE \/ Classify(v) \/ StoreApplying(v) \/ SaveSnapshot(v) \/ Release(v) \/ WriteUpdates(v)
               \/ SendCreate(v) \/ AnswerCreate(v) \/ FlushCreated(v) \/ EndCreates(v)
               \/ ReadLinks(v) \/ WriteLinks(v) \/ ReadBack(v) \/ SaveOutcome(v)
      BY <2>4 DEF Classify, StoreApplying, SaveSnapshot, Release, WriteUpdates, SendCreate, AnswerCreate,
         FlushCreated, EndCreates, ReadLinks, WriteLinks, ReadBack, SaveOutcome,
         Early, Underways, BeforeWrites, Concluding, WritingSteps
    <2>5. CASE \/ StoreApplied(v) \/ AuditApply(v) \/ LoadSnapshot(v) \/ RemoveLink(v)
               \/ ArchiveCreated(v) \/ RestoreValue(v) \/ StoreUndone(v) \/ DropSnapshot(v) \/ AuditUndo(v)
               \/ pc'[v] = "idle" \/ Undo(v)
      <3>1. pc'[v] \in UndoSteps \union {"apply_audit", "idle"}
        <4>1. \/ pc'[v] = "idle"
              \/ \E step \in UndoSteps \union {"apply_audit", "idle"} : Goto(v, step)
          BY <2>5 DEF StoreApplied, AuditApply, Undo, LoadSnapshot, RemoveLink, ArchiveCreated, RestoreValue,
             StoreUndone, DropSnapshot, AuditUndo, Reverted, AfterRevert, Return, Goto, UndoSteps
        <4> QED BY <4>1 DEF Goto, TypeInv, TypeOK
      <3> QED BY <1>2, <3>1 DEF Underways, BeforeWrites, Concluding, WritingSteps, UndoSteps
    <2> QED BY <2>1, <2>2, <2>3, <2>4, <2>5, WorkerFrame DEF Step
  <1> QED BY <1>1, <1>2 DEF Early

\* A run that has not come to the associations has none to remove.
LEMMA NoAssociations ==
  ASSUME NEW r \in Runs, ~r.linking
  PROVE  SnapshotOf(r).associated = {}
  BY DEF SnapshotOf, Associated

LEMMA NoneToRemoveStep ==
  ASSUME TypeInv, Phases, WriteInv, LinkInv, [Next]_vars
  PROVE  NoneToRemove'
  <1> SUFFICES ASSUME Early'
               PROVE  /\ snapshot' # None => snapshot'.associated = {}
                      /\ \A w \in Workers : pc'[w] \in UndoSteps => undo'[w].links = {}
    BY DEF NoneToRemove
  <1> USE DEF store, hubspot, workers, history
  <1>1. /\ snapshot # None => snapshot.associated = {}
        /\ \A w \in Workers : pc[w] \in UndoSteps => undo[w].links = {}
    BY EarlyBefore DEF LinkInv, NoneToRemove
  <1>2. snapshot' # None => snapshot'.associated = {}
    <2>1. ASSUME NEW w \in Workers, SaveSnapshot(w) \/ FailSnapshot(w)
          PROVE  snapshot' # None => snapshot'.associated = {}
      <3>1. pc[w] = "snap" /\ run[w] \in Runs /\ snapshot' \in {snapshot, SnapshotOf(run[w])}
        BY <2>1 DEF SaveSnapshot, FailSnapshot, TypeInv, TypeOK, ApplySteps
      <3>2. ~run[w].linking
        BY <3>1 DEF WriteInv, AllUnderway, Underway, BeforeWrites, Planned
      <3> QED BY <1>1, <3>1, <3>2, NoAssociations
    <2>2. ASSUME NEW w \in Workers, FlushCreated(w) \/ EndCreates(w)
          PROVE  snapshot' # None => snapshot'.associated = {}
      <3>1. run[w] \in Runs /\ snapshot' \in {snapshot, Flushed(run[w])}
        BY <2>2 DEF FlushCreated, EndCreates, TypeInv, TypeOK, ApplySteps
      <3> QED BY <1>1, <3>1, FlushedKeeps
    <2>3. ASSUME NEW w \in Workers, SaveOutcome(w) PROVE FALSE
      <3>1. pc[w] = "conclude" /\ pc'[w] = "settle" /\ status' = status /\ \A v \in Workers \ {w} : pc'[v] = pc[v]
        BY <2>3 DEF SaveOutcome, Goto, TypeInv, TypeOK
      <3>2. status = "applying"
        BY <3>1 DEF Phases, AppliesAt, StatusAt, ApplySteps
      <3>3. \A v \in Workers : pc'[v] \notin Underways
        BY <3>1 DEF Phases, OneApply, ApplySteps, Underways, BeforeWrites, Concluding, WritingSteps
      <3> QED BY <3>1, <3>2, <3>3 DEF Early
    <2>4. CASE ExpireSnapshot \/ \E w \in Workers : DropSnapshot(w)
      BY <2>4 DEF ExpireSnapshot, DropSnapshot
    <2> QED BY <1>1, <2>1, <2>2, <2>3, <2>4, WhoSaves
  <1>3. ASSUME NEW w \in Workers, pc'[w] \in UndoSteps PROVE undo'[w].links = {}
    <2>1. CASE pc'[w] = pc[w] /\ undo'[w] = undo[w]
      BY <1>1, <1>3, <2>1
    <2>2. CASE Undo(w)
      BY <2>2 DEF Undo, TypeInv, TypeOK
    <2>3. CASE LoadSnapshot(w)
      <3>1. undo'[w] = Loaded(undo[w]) /\ snapshot # None /\ undo[w] \in Undos
        BY <1>3, <2>3 DEF LoadSnapshot, Return, UndoSteps, TypeInv, TypeOK
      <3> QED BY <1>1, <3>1 DEF Loaded, Undos
    <2>4. CASE RemoveLink(w)
      BY <1>1, <2>4 DEF RemoveLink, UndoSteps
    <2>5. CASE ArchiveCreated(w) \/ RestoreValue(w)
      <3>0. undo[w] \in Undos /\ undo[w].links = {}
        BY <1>1, <2>5 DEF ArchiveCreated, RestoreValue, TypeInv, TypeOK, UndoSteps
      <3>1. ASSUME NEW u \in Undos, NEW outcome, Reverted(w, u, outcome), u.links = {}
            PROVE  undo'[w].links = {}
        BY <3>1 DEF Reverted, Tried, TypeInv, TypeOK, Undos
      <3>2. CASE ArchiveCreated(w)
        <4>1. PICK o \in undo[w].objects, outcome \in Outcomes \ {"partial"} :
                Reverted(w, [undo[w] EXCEPT !.objects = @ \ {o}], outcome)
          BY <3>2 DEF ArchiveCreated
        <4>2. [undo[w] EXCEPT !.objects = @ \ {o}] \in Undos /\ [undo[w] EXCEPT !.objects = @ \ {o}].links = {}
          BY <3>0 DEF Undos
        <4> QED BY <3>1, <4>1, <4>2
      <3>3. CASE RestoreValue(w)
        <4>1. PICK u \in undo[w].values : \E outcome : Reverted(w, [undo[w] EXCEPT !.values = @ \ {u}], outcome)
          BY <3>3 DEF RestoreValue
        <4>2. [undo[w] EXCEPT !.values = @ \ {u}] \in Undos /\ [undo[w] EXCEPT !.values = @ \ {u}].links = {}
          BY <3>0 DEF Undos
        <4> QED BY <3>1, <4>1, <4>2
      <3> QED BY <2>5, <3>2, <3>3
    <2>6. CASE StoreUndone(w) \/ DropSnapshot(w)
      BY <1>1, <2>6 DEF StoreUndone, DropSnapshot, UndoSteps
    <2>7. CASE FailSnapshot(w) \/ Interrupt(w) \/ Apply(w)
      BY <1>3, <2>7 DEF FailSnapshot, Interrupt, Apply, Goto, TypeInv, TypeOK, UndoSteps
    <2>8. CASE \/ Classify(w) \/ StoreApplying(w) \/ SaveSnapshot(w) \/ Release(w) \/ WriteUpdates(w)
               \/ SendCreate(w) \/ AnswerCreate(w) \/ FlushCreated(w) \/ EndCreates(w)
               \/ ReadLinks(w) \/ WriteLinks(w) \/ ReadBack(w)
               \/ SaveOutcome(w) \/ StoreApplied(w) \/ AuditApply(w) \/ AuditUndo(w)
      BY <1>3, <2>8, StepsApart
    <2>9. pc'[w] # "idle"
      BY <1>3 DEF UndoSteps
    <2> QED BY <2>1, <2>2, <2>3, <2>4, <2>5, <2>6, <2>7, <2>8, <2>9, WorkerFrame DEF Step
  <1> QED BY <1>2, <1>3

\* HubSpot is told of an association when it is written, and of its removal
\* when it is archived.
LEMMA LinksChange ==
  ASSUME [Next]_vars, <<writes, link>>' # <<writes, link>>
  PROVE  \/ \E S : Applied(S)
         \/ \E w \in Workers : RemoveLink(w) /\ UNCHANGED writes
  <1>1. PICK w \in Workers : WriteUpdates(w) \/ AnswerCreate(w) \/ WriteLinks(w) \/ Interrupt(w)
                               \/ RemoveLink(w)
    BY WhoWrites, WhoLinks
  <1>2. CASE RemoveLink(w)
    BY <1>2 DEF RemoveLink
  <1>3. CASE WriteUpdates(w)
    BY <1>3 DEF WriteUpdates
  <1>4. CASE AnswerCreate(w)
    BY <1>4 DEF AnswerCreate
  <1>5. CASE WriteLinks(w)
    BY <1>5 DEF WriteLinks
  <1>6. CASE Interrupt(w)
    BY <1>6 DEF Interrupt
  <1> QED BY <1>1, <1>2, <1>3, <1>4, <1>5, <1>6

LEMMA OriginStep ==
  ASSUME TypeInv, Phases, LinkInv, [Next]_vars
  PROVE  OldExisted' /\ NewTouched'
  <1>1. CASE UNCHANGED <<writes, link>>
    BY <1>1, EarlyBefore DEF LinkInv, OldExisted, NewTouched, Touched, BothExisting
  <1>2. ASSUME NEW S, Applied(S) PROVE OldExisted' /\ NewTouched'
    <2>1. \A p \in Pairs : /\ writes'[p] = IF p \in S THEN writes[p] + 1 ELSE writes[p]
                           /\ link'[p] = IF p \in S THEN link[p] \union {"new"} ELSE link[p]
                           /\ writes[p] \in Nat
      BY <1>2 DEF Applied, TypeInv, TypeOK, Items, Ops, Pairs
    <2>2. ASSUME NEW p \in Pairs
          PROVE  /\ "old" \in link'[p] => "old" \in link[p]
                 /\ ("new" \in link[p] <=> writes[p] > 0) => ("new" \in link'[p] <=> writes'[p] > 0)
      <3>1. CASE p \in S
        <4>1. writes[p] \in Nat /\ writes'[p] = writes[p] + 1
          BY <2>1, <3>1
        <4>2. writes'[p] > 0
          BY <4>1
        <4>3. link'[p] = link[p] \union {"new"}
          BY <2>1, <3>1
        <4> QED BY <4>2, <4>3
      <3>2. CASE p \notin S
        BY <2>1, <3>2
      <3> QED BY <3>1, <3>2
    <2>3. OldExisted'
      BY <2>2 DEF LinkInv, OldExisted, BothExisting
    <2>4. NewTouched'
      BY <2>2, EarlyBefore DEF LinkInv, NewTouched, Touched
    <2> QED BY <2>3, <2>4
  <1>3. ASSUME NEW w \in Workers, RemoveLink(w), UNCHANGED writes PROVE OldExisted' /\ NewTouched'
    <2>1. PICK p \in undo[w].links : link' = [link EXCEPT ![p] = {}] \/ link' = link
      BY <1>3 DEF RemoveLink
    <2>2. \A q \in Pairs : link'[q] \subseteq link[q]
      BY <2>1 DEF TypeInv, TypeOK
    <2>3. OldExisted'
      BY <2>2 DEF LinkInv, OldExisted, BothExisting
    <2>4. ~Early
      BY <1>3, <2>1 DEF LinkInv, NoneToRemove, RemoveLink, UndoSteps
    <2> QED BY <2>3, <2>4, EarlyBefore DEF NewTouched
  <1> QED BY <1>1, <1>2, <1>3, LinksChange

\* An apply in HubSpot's terms.
LEMMA AppliedJoins ==
  ASSUME TypeInv, NEW S, Applied(S)
  PROVE  /\ writes' = Counted(writes, S) /\ writes \in Counts
         /\ link' = JoinedNow(link, S) /\ link \in LinkSets
  BY DEF TypeInv, TypeOK, Applied, Counted, Counts, JoinedNow, LinkSets

LEMMA EarlyOrigins ==
  ASSUME LinkInv, TypeInv, NEW w \in Workers, pc[w] \in Underways
  PROVE  Origins(writes, link) /\ JoinedAt(w)
  <1>1. Early
    BY DEF Early
  <1>2. \A p \in Pairs : writes[p] > 0 <=> writes[p] # 0
    BY DEF TypeInv, TypeOK, Items, Ops, Pairs
  <1> QED BY <1>1, <1>2 DEF LinkInv, OldExisted, NewTouched, Origins, Touched, AllJoined

LEMMA PrepareJoined ==
  ASSUME TypeInv, Phases, WriteInv, LinkInv, NEW w \in Workers,
         \/ Apply(w) \/ Classify(w) \/ StoreApplying(w) \/ SaveSnapshot(w) \/ FailSnapshot(w)
  PROVE  JoinedAt(w)'
  <1> USE DEF store, hubspot, workers, history
  <1>1. CASE Apply(w)
    <2>1. run'[w] = FreshRun /\ \E step \in {"classify", "flip"} : Goto(w, step)
      BY <1>1 DEF Apply, TypeInv, TypeOK
    <2>2. pc'[w] \in {"classify", "flip"}
      BY <2>1 DEF Goto, TypeInv, TypeOK
    <2> QED BY <2>1, <2>2 DEF JoinedAt, FreshRun, Concluding, WritingSteps
  <1>2. CASE ~Apply(w)
    <2>1. /\ pc[w] \in BeforeWrites /\ run[w] \in Runs /\ run[w].pre = {}
          /\ Planned(run[w])
      BY <1>2 DEF Classify, StoreApplying, SaveSnapshot, FailSnapshot, BeforeWrites, ApplySteps,
         TypeInv, TypeOK, LinkInv, AllJoined, JoinedAt, WriteInv, AllUnderway, Underway
    <2>2. run'[w].pre = {} /\ ~run'[w].linking /\ run'[w].todo = {}
      <3>1. CASE Classify(w)
        <4>1. PICK u \in Updates : run' = [run EXCEPT ![w] = Classified(run[w], u)]
          BY <3>1 DEF Classify
        <4>2. run'[w] = Classified(run[w], u)
          BY <4>1 DEF TypeInv, TypeOK
        <4> QED BY <2>1, <4>2 DEF Classified, Runs, Planned
      <3>2. CASE StoreApplying(w) \/ FailSnapshot(w)
        BY <2>1, <3>2 DEF StoreApplying, FailSnapshot, Planned
      <3>3. CASE SaveSnapshot(w)
        <4>1. run'[w] = AfterUpdates(run[w])
          BY <3>3 DEF SaveSnapshot, TypeInv, TypeOK
        <4> QED BY <2>1, <4>1 DEF AfterUpdates, Runs, Planned
      <3> QED BY <1>2, <3>1, <3>2, <3>3
    <2>3. pc'[w] # "readback"
      <3>1. \E step \in {"classify", "flip", "snap", "release", "updates", "creates"} : Goto(w, step)
        BY <1>2 DEF Classify, StoreApplying, SaveSnapshot, FailSnapshot, PlaceOf
      <3> QED BY <3>1 DEF Goto, TypeInv, TypeOK
    <2> QED BY <2>2, <2>3 DEF JoinedAt, Joined
  <1> QED BY <1>1, <1>2

LEMMA RecordJoined ==
  ASSUME TypeInv, Phases, WriteInv, LinkInv, NEW w \in Workers,
         WriteUpdates(w) \/ SendCreate(w) \/ AnswerCreate(w) \/ FlushCreated(w) \/ EndCreates(w)
  PROVE  JoinedAt(w)'
  <1> USE DEF store, hubspot, workers, history
  <1> USE ChangesetAssumption
  <1> DEFINE r == run[w]
  <1>0. pc[w] \in {"updates", "creates"}
    BY DEF WriteUpdates, SendCreate, AnswerCreate, FlushCreated, EndCreates
  <1>1. /\ r \in Runs /\ Underway(r, pc[w], writes) /\ Joined(r, writes, link)
    BY <1>0, Writing, EarlyOrigins DEF WritingSteps, Underways, Concluding, JoinedAt
  <1>2. ~r.linking /\ Associations(r, writes)
    BY <1>0, <1>1 DEF Underway, WritingSteps
  <1>3. pc'[w] \notin BeforeWrites /\ pc'[w] # "readback"
    <2>1. PICK step \in {"updates", "creates", "links", "conclude"} : Goto(w, step)
      BY DEF WriteUpdates, SendCreate, AnswerCreate, FlushCreated, EndCreates, PlaceOf, PlaceAfterCreates,
         Goto, TypeInv, TypeOK
    <2> QED BY <2>1 DEF Goto, BeforeWrites, TypeInv, TypeOK
  <1>4. ASSUME NEW s, s.pre = r.pre, s.linking = r.linking, s.todo = r.todo,
               run' = [run EXCEPT ![w] = s], link' = link, \A p \in Pairs : writes'[p] = writes[p]
        PROVE  JoinedAt(w)'
    <2>1. run'[w] = s /\ s.todo \subseteq Pairs
      BY <1>1, <1>4 DEF Runs, TypeInv, TypeOK
    <2>2. Joined(s, writes', link)
      BY <1>1, <1>2, <1>4, <2>1, JoinedElsewhere
    <2> QED BY <1>3, <1>4, <2>1, <2>2 DEF JoinedAt
  <1>5. ASSUME NEW S, Applied(S), S \cap Pairs = {}
        PROVE  link' = link /\ \A p \in Pairs : writes'[p] = writes[p]
    BY <1>5 DEF Applied, TypeInv, TypeOK, Items, Ops, Pairs
  <1> HIDE DEF r
  <1>6. CASE WriteUpdates(w)
    <2>1. PICK batch, out : /\ batch \in SUBSET Remaining(r) /\ out \in [batch -> Outcomes \union {"failed"}]
                            /\ Applied(Landed(out))
                            /\ run' = [run EXCEPT ![w] = AfterUpdates(Written(r, batch, out))]
      BY <1>6 DEF WriteUpdates, r
    <2>2. Landed(out) \cap Pairs = {}
      BY <2>1, LandedUpdates DEF Remaining
    <2>3. /\ Written(r, batch, out) \in Runs
          /\ Written(r, batch, out).pre = r.pre /\ Written(r, batch, out).linking = r.linking
          /\ Written(r, batch, out).todo = r.todo
      <3>1. Written(r, batch, out) \in Runs
        BY <1>1, <2>1, WrittenType DEF Remaining
      <3>2. /\ Written(r, batch, out).pre = r.pre /\ Written(r, batch, out).linking = r.linking
            /\ Written(r, batch, out).todo = r.todo
        BY <1>1 DEF Written, Runs
      <3> QED BY <3>1, <3>2
    <2> DEFINE s == AfterUpdates(Written(r, batch, out))
    <2>4. s.pre = r.pre /\ s.linking = r.linking /\ s.todo = r.todo
      <3>1. ASSUME NEW x \in Runs
            PROVE  /\ AfterUpdates(x).pre = x.pre /\ AfterUpdates(x).linking = x.linking
                   /\ AfterUpdates(x).todo = x.todo
        BY <3>1 DEF AfterUpdates, Runs
      <3> QED BY <2>3, <3>1
    <2> QED BY <1>4, <1>5, <2>1, <2>2, <2>4
  <1>7. CASE SendCreate(w)
    <2>1. PICK c \in Creates : run' = [run EXCEPT ![w] = Sent(r, c)]
      BY <1>7 DEF SendCreate, r
    <2>2. UNCHANGED <<writes, link>>
      BY <1>7 DEF SendCreate
    <2> QED BY <1>1, <1>4, <2>1, <2>2 DEF Sent, Runs
  <1>8. CASE AnswerCreate(w)
    <2>1. PICK c, outcome, new : /\ c \in Creates
                                 /\ Applied(Landed([o \in {c} |-> outcome]))
                                 /\ run' = [run EXCEPT ![w] = Created(r, c, outcome, new)]
      BY <1>8 DEF AnswerCreate, r
    <2>2. Landed([o \in {c} |-> outcome]) \cap Pairs = {}
      BY <2>1 DEF Landed
    <2> QED BY <1>1, <1>4, <1>5, <2>1, <2>2 DEF Created, Runs
  <1>9. CASE FlushCreated(w)
    <2>1. PICK c : run' = [run EXCEPT ![w] = Freed(r, c)]
      BY <1>9 DEF FlushCreated, r
    <2>2. UNCHANGED <<writes, link>>
      BY <1>9 DEF FlushCreated
    <2> QED BY <1>1, <1>4, <2>1, <2>2 DEF Freed, Runs
  <1>10. CASE EndCreates(w)
    <2>1. run'[w] = Linking(r) /\ UNCHANGED <<writes, link>>
      BY <1>10 DEF EndCreates, TypeInv, TypeOK, r
    <2>2. Joined(Linking(r), writes, link)
      BY <1>1, <1>2, LinkingJoined DEF Associations
    <2> QED BY <1>3, <2>1, <2>2 DEF JoinedAt
  <1> QED BY <1>6, <1>7, <1>8, <1>9, <1>10

LEMMA LinkJoined ==
  ASSUME TypeInv, Phases, WriteInv, LinkInv, NEW w \in Workers,
         ReadLinks(w) \/ WriteLinks(w) \/ ReadBack(w) \/ Interrupt(w)
  PROVE  JoinedAt(w)'
  <1> USE DEF store, hubspot, workers, history
  <1> USE ChangesetAssumption
  <1> DEFINE r == run[w]
  <1>0. pc[w] \in WritingSteps
    BY DEF ReadLinks, WriteLinks, ReadBack, Interrupt, WritingSteps
  <1>1. /\ r \in Runs /\ Underway(r, pc[w], writes) /\ Joined(r, writes, link)
        /\ Origins(writes, link) /\ writes \in Counts /\ link \in LinkSets
    BY <1>0, Writing, EarlyOrigins
       DEF Underways, Concluding, JoinedAt, TypeInv, TypeOK, LinkSets
  <1>2. Associations(r, writes) /\ ~r.interrupted
    BY <1>0, <1>1 DEF Underway
  <1>3. pc'[w] \notin BeforeWrites
    <2>1. PICK step \in {"links", "associate", "readback", "conclude"} : Goto(w, step)
      BY DEF ReadLinks, WriteLinks, ReadBack, Interrupt, AfterChunk, PlaceAfterCreates
    <2> QED BY <2>1 DEF Goto, BeforeWrites, TypeInv, TypeOK
  <1>4. Goto(w, AfterChunk(run'[w])) => pc'[w] # "readback"
    BY DEF Goto, AfterChunk, PlaceAfterCreates, TypeInv, TypeOK
  <1>5. ASSUME NEW out, DOMAIN out \subseteq Pairs
        PROVE  /\ Answered(r, out).pre = r.pre /\ Answered(r, out).linking = r.linking
               /\ Answered(r, out).todo \subseteq r.todo /\ Answered(r, out).res = r.res
               /\ \A p \in Pairs : Answered(r, out).pair[p] =
                    IF p \in DOMAIN out THEN out[p] ELSE r.pair[p]
    BY <1>1 DEF Answered, Runs
  <1> HIDE DEF r
  <1>6. CASE ReadLinks(w)
    <2>0. r.linking /\ r.back = {} /\ UNCHANGED <<writes, link>>
      BY <1>1, <1>6 DEF ReadLinks, Underway, WritingSteps
    <2>1. PICK group, found :
            /\ group \in SUBSET {p \in Pairs : r.pair[p] = "pending"}
            /\ \/ found = {p \in group : BothExisting(p) /\ link[p] # {}}
               \/ found = {} /\ "read" \in Faults
            /\ run' = [run EXCEPT ![w] = Looked(r, group, found)]
            /\ Goto(w, AfterChunk(run'[w]))
      BY <1>6 DEF ReadLinks, r
    <2>2. \A p \in group : r.pair[p] = "pending" /\ writes[p] = 0
      BY <1>2, <2>0, <2>1 DEF Associations
    <2>3. Joined(Looked(r, group, found), writes, link)
      BY <1>1, <2>0, <2>1, <2>2, LookedJoined
    <2>4. run'[w] = Looked(r, group, found)
      BY <2>1 DEF TypeInv, TypeOK
    <2> QED BY <1>3, <1>4, <2>0, <2>1, <2>3, <2>4 DEF JoinedAt
  <1>7. CASE WriteLinks(w)
    <2>0. r.back = {} /\ r.linking
      BY <1>1, <1>7 DEF WriteLinks, Underway, WritingSteps
    <2>1. PICK chunk \in (SUBSET r.todo) \ {{}}, outcome \in Outcomes, S \in SUBSET r.todo :
            /\ S \subseteq chunk
            /\ outcome = "ok" => S = chunk
            /\ outcome \in {"failed", "timeout"} => S = {}
            /\ Applied(S)
            /\ IF outcome = "partial"
               THEN run' = [run EXCEPT ![w] = Unsettled(r, chunk)]
               ELSE /\ run' = [run EXCEPT ![w] = Answered(r, [p \in chunk |-> Believed(outcome)])]
                    /\ Goto(w, AfterChunk(run'[w]))
      BY <1>7 DEF WriteLinks, r
    <2>2. /\ chunk \subseteq Pairs /\ \A p \in r.todo : r.pair[p] = "pending" /\ writes[p] = 0
      BY <1>1, <1>2, <2>0 DEF Associations, Runs
    <2>3. writes' = Counted(writes, S) /\ link' = JoinedNow(link, S)
      BY <2>1, AppliedJoins
    <2>4. \A p \in chunk : Counted(writes, S)[p] = IF p \in S THEN 1 ELSE 0
      BY <2>2 DEF Counted, Items, Ops, Pairs
    <2>5. CASE outcome = "partial"
      <3> DEFINE s == Unsettled(r, chunk)
      <3>1. /\ s.pre = r.pre /\ s.linking = r.linking /\ s.todo = r.todo /\ s.res = r.res
            /\ s.pair = r.pair
        BY <1>1 DEF Unsettled, Runs
      <3>2. run'[w] = s
        BY <2>1, <2>5 DEF TypeInv, TypeOK
      <3> HIDE DEF s
      <3>3. Joined(s, Counted(writes, S), JoinedNow(link, S))
        <4>1. /\ chunk \in SUBSET r.todo /\ S \in SUBSET chunk
              /\ \A p \in r.todo : r.pair[p] = "pending"
              /\ \A p \in chunk : s.pair[p] = "pending"
          BY <2>1, <2>2, <3>1
        <4> QED BY <1>1, <3>1, <4>1, ChunkJoined
      <3> QED BY <1>3, <2>1, <2>3, <2>5, <3>2, <3>3 DEF JoinedAt
    <2>6. CASE outcome # "partial"
      <3> DEFINE out == [p \in chunk |-> Believed(outcome)]
                 s == Answered(r, out)
      <3>1. /\ s.pre = r.pre /\ s.linking = r.linking /\ s.todo \subseteq r.todo /\ s.res = r.res
            /\ \A p \in Pairs : s.pair[p] = IF p \in chunk THEN Believed(outcome) ELSE r.pair[p]
        BY <1>5, <2>2
      <3>2. run'[w] = s /\ pc'[w] # "readback"
        BY <1>4, <2>1, <2>6 DEF TypeInv, TypeOK
      <3> HIDE DEF s
      <3>3. \A p \in chunk : \/ s.pair[p] = "unconfirmed"
                             \/ s.pair[p] = "ok" /\ Counted(writes, S)[p] # 0
                             \/ s.pair[p] = "failed" /\ Counted(writes, S)[p] = 0
        BY <2>1, <2>2, <2>4, <3>1 DEF Believed
      <3>4. Joined(s, Counted(writes, S), JoinedNow(link, S))
        <4>1. /\ chunk \in SUBSET r.todo /\ S \in SUBSET chunk
              /\ \A p \in r.todo : r.pair[p] = "pending"
              /\ \A p \in Pairs \ chunk : s.pair[p] = r.pair[p]
          BY <2>1, <2>2, <3>1
        <4> QED BY <1>1, <3>1, <3>3, <4>1, ChunkJoined
      <3> QED BY <1>3, <2>3, <3>2, <3>4 DEF JoinedAt
    <2> QED BY <2>5, <2>6
  <1>8. CASE ReadBack(w)
    <2>0. pc[w] = "readback" /\ UNCHANGED <<writes, link>> /\ "partial" \in Outcomes
      <3>1. JoinedAt(w)
        BY <1>0, EarlyOrigins DEF Underways, Concluding
      <3> QED BY <1>8, <3>1 DEF ReadBack, JoinedAt
    <2> DEFINE chunk == r.back
    <2>1. PICK out : /\ out = SeenLinked(chunk) \/ out = [p \in chunk |-> "unconfirmed"]
                     /\ run' = [run EXCEPT ![w] = Answered(r, out)]
                     /\ Goto(w, AfterChunk(run'[w]))
      BY <1>8 DEF ReadBack, r
    <2>2. /\ chunk \subseteq r.todo /\ chunk \subseteq Pairs
          /\ \A p \in r.todo : r.pair[p] = "pending"
      BY <1>1, <1>2 DEF Associations, Runs
    <2>3. DOMAIN out = chunk
      BY <2>1 DEF SeenLinked
    <2> HIDE DEF chunk
    <2> DEFINE s == Answered(r, out)
    <2>4. /\ s.pre = r.pre /\ s.linking = r.linking /\ s.todo \subseteq r.todo /\ s.res = r.res
          /\ \A p \in Pairs : s.pair[p] = IF p \in chunk THEN out[p] ELSE r.pair[p]
      BY <1>5, <2>2, <2>3
    <2>5. run'[w] = s /\ pc'[w] # "readback"
      BY <1>4, <2>1 DEF TypeInv, TypeOK
    <2> HIDE DEF s
    <2>6. Counted(writes, {}) = writes /\ JoinedNow(link, {}) = link
      BY <1>1 DEF Counted, JoinedNow, Counts, LinkSets
    <2>7. ASSUME NEW p \in chunk
          PROVE  \/ s.pair[p] = "unconfirmed"
                 \/ s.pair[p] = "ok" /\ (SureLinks => writes[p] # 0)
                 \/ s.pair[p] = "failed" /\ writes[p] = 0
      <3>1. CASE out = [q \in chunk |-> "unconfirmed"]
        BY <2>2, <2>4, <3>1
      <3>2. CASE out = SeenLinked(chunk)
        <4>1. s.pair[p] = IF link[p] # {} THEN "ok" ELSE "failed"
          BY <2>2, <2>4, <3>2 DEF SeenLinked
        <4>2. link[p] = {} => writes[p] = 0
          BY <1>1, <2>2 DEF Origins
        <4>3. SureLinks /\ writes[p] = 0 => link[p] = {}
          BY <1>1, <2>0, <2>2 DEF Joined
        <4> QED BY <4>1, <4>2, <4>3
      <3> QED BY <2>1, <3>1, <3>2
    <2>8. Joined(s, Counted(writes, {}), JoinedNow(link, {}))
      <3>1. /\ chunk \in SUBSET r.todo /\ {} \in SUBSET chunk
            /\ \A p \in Pairs \ chunk : s.pair[p] = r.pair[p]
        BY <2>2, <2>4
      <3>2. \A p \in chunk : \/ s.pair[p] = "unconfirmed"
                             \/ s.pair[p] = "ok" /\ (SureLinks => Counted(writes, {})[p] # 0)
                             \/ s.pair[p] = "failed" /\ Counted(writes, {})[p] = 0
        BY <2>6, <2>7
      <3> QED BY <1>1, <2>2, <2>4, <3>1, <3>2, ChunkJoined
    <2> QED BY <1>3, <2>0, <2>5, <2>6, <2>8 DEF JoinedAt
  <1>9. CASE Interrupt(w)
    <2>1. PICK sent, S : /\ sent \in Flights(w) /\ S \in SUBSET sent /\ Applied(S)
                         /\ run' = [run EXCEPT ![w] = Interrupted(r, sent)]
      BY <1>9 DEF Interrupt, r
    <2> DEFINE s == Interrupted(r, sent)
               T == S \cap Pairs
    <2>2. /\ s.pre = r.pre /\ s.linking = r.linking /\ s.todo = r.todo /\ s.res = r.res
          /\ s.pair = r.pair
      BY <1>1 DEF Interrupted, Runs
    <2>3. run'[w] = s /\ pc'[w] = "conclude"
      BY <1>9, <2>1 DEF Interrupt, Goto, TypeInv, TypeOK
    <2>4. T \subseteq r.todo
      <3>1. sent \subseteq Remaining(r) \/ sent \subseteq Creates \/ sent \subseteq r.todo \/ sent = {}
        BY <2>1 DEF Flights, r
      <3> QED BY <1>1, <2>1, <3>1 DEF Remaining
    <2>5. /\ link' = JoinedNow(link, T)
          /\ \A p \in Pairs : writes'[p] = Counted(writes, T)[p]
      BY <2>1 DEF Applied, JoinedNow, Counted, TypeInv, TypeOK, Items, Ops, Pairs
    <2> HIDE DEF s, T
    <2>6. Joined(s, Counted(writes, T), JoinedNow(link, T))
      BY <1>1, <1>2, <2>2, <2>4, ChunkJoined DEF Associations
    <2>7. Joined(s, writes', link')
      BY <1>1, <2>2, <2>5, <2>6 DEF Joined, Runs
    <2> QED BY <2>3, <2>7 DEF JoinedAt, BeforeWrites
  <1> QED BY <1>6, <1>7, <1>8, <1>9

\* The steps after which a request is not in an apply that may still write.
LEMMA NotUnderway ==
  ASSUME TypeInv, NEW v \in Workers,
         \/ pc'[v] = "idle" \/ Undo(v) \/ Release(v)
         \/ SaveOutcome(v) \/ StoreApplied(v) \/ AuditApply(v) \/ LoadSnapshot(v) \/ RemoveLink(v)
         \/ ArchiveCreated(v) \/ RestoreValue(v) \/ StoreUndone(v) \/ DropSnapshot(v) \/ AuditUndo(v)
  PROVE  pc'[v] \notin Underways
  <1>1. \/ pc'[v] = "idle"
        \/ \E step \in UndoSteps \union {"settle", "apply_audit"} : Goto(v, step)
    BY DEF Undo, Release, SaveOutcome, StoreApplied, AuditApply, LoadSnapshot, RemoveLink,
       ArchiveCreated, RestoreValue, StoreUndone, DropSnapshot, AuditUndo, Reverted, AfterRevert, Return,
       UndoSteps, TypeInv, TypeOK
  <1> QED BY <1>1 DEF Goto, TypeInv, TypeOK, Underways, BeforeWrites, Concluding, WritingSteps, UndoSteps

\* While an apply is under way no request but it changes the associations.
LEMMA OneWriter ==
  ASSUME TypeInv, Phases, LinkInv, [Next]_vars, NEW v \in Workers, pc[v] \in Underways,
         <<writes, link>>' # <<writes, link>>
  PROVE  WriteUpdates(v) \/ AnswerCreate(v) \/ WriteLinks(v) \/ Interrupt(v)
  <1>1. PICK w \in Workers : \/ WriteUpdates(w) \/ AnswerCreate(w) \/ WriteLinks(w) \/ Interrupt(w)
                            \/ RemoveLink(w)
    BY WhoWrites, WhoLinks
  <1>2. CASE RemoveLink(w)
    <2>1. Early
      BY DEF Early
    <2> QED BY <1>2, <2>1 DEF LinkInv, NoneToRemove, RemoveLink, UndoSteps
  <1>3. CASE WriteUpdates(w) \/ AnswerCreate(w) \/ WriteLinks(w) \/ Interrupt(w)
    <2>1. pc[w] \in WritingSteps
      BY <1>3 DEF WriteUpdates, AnswerCreate, WriteLinks, Interrupt, WritingSteps
    <2>2. w = v
      BY <2>1 DEF Phases, OneApply, Underways, BeforeWrites, Concluding, WritingSteps, ApplySteps
    <2> QED BY <1>3, <2>2
  <1> QED BY <1>1, <1>2, <1>3

LEMMA LinkStep == TypeInv /\ Phases /\ WriteInv /\ LinkInv /\ [Next]_vars => LinkInv'
  <1> SUFFICES ASSUME TypeInv, Phases, WriteInv, LinkInv, [Next]_vars PROVE LinkInv'
    OBVIOUS
  <1>1. NoneToRemove' /\ OldExisted' /\ NewTouched'
    BY NoneToRemoveStep, OriginStep
  <1>2. ASSUME NEW v \in Workers PROVE JoinedAt(v)'
    <2>1. CASE \/ Apply(v) \/ Classify(v) \/ StoreApplying(v) \/ SaveSnapshot(v) \/ FailSnapshot(v)
      BY <2>1, PrepareJoined
    <2>2. CASE WriteUpdates(v) \/ SendCreate(v) \/ AnswerCreate(v) \/ FlushCreated(v) \/ EndCreates(v)
      BY <2>2, RecordJoined
    <2>3. CASE ReadLinks(v) \/ WriteLinks(v) \/ ReadBack(v) \/ Interrupt(v)
      BY <2>3, LinkJoined
    <2>4. ASSUME pc'[v] \notin Underways PROVE JoinedAt(v)'
      BY <2>4 DEF JoinedAt, Underways, Concluding, WritingSteps
    <2>5. CASE \/ pc'[v] = "idle" \/ Undo(v) \/ Release(v)
               \/ SaveOutcome(v) \/ StoreApplied(v) \/ AuditApply(v) \/ LoadSnapshot(v) \/ RemoveLink(v)
               \/ ArchiveCreated(v) \/ RestoreValue(v) \/ StoreUndone(v) \/ DropSnapshot(v) \/ AuditUndo(v)
      BY <2>4, <2>5, NotUnderway
    <2>6. CASE pc'[v] = pc[v] /\ run'[v] = run[v]
      <3>1. CASE pc[v] \notin Underways
        BY <2>4, <2>6, <3>1
      <3>2. CASE UNCHANGED <<writes, link>>
        BY <2>6, <3>2 DEF LinkInv, AllJoined, JoinedAt
      <3> QED BY <2>2, <2>3, <3>1, <3>2, OneWriter
    <2> QED BY <2>1, <2>2, <2>3, <2>5, <2>6, WorkerFrame DEF Step
  <1> QED BY <1>1, <1>2 DEF LinkInv, AllJoined

LEMMA InitLinks == Init => LinkInv
  BY DEF Init, LinkInv, NoneToRemove, OldExisted, NewTouched, AllJoined, JoinedAt, Touched, BothExisting,
     Underways, BeforeWrites, Concluding, WritingSteps, UndoSteps, Items, Ops, Pairs

LEMMA LinkInvariant == ASSUME OneProcess PROVE Spec => []LinkInv
  BY InitLinks, TypeInvariant, PhaseInvariant, WriteInvariant, LinkStep, PTL DEF Spec

-----------------------------------------------------------------------------
(* An apply that has reported can be undone *)

\* What joins two records by this changeset alone is in the last snapshot.
LEMMA JoinedNamed ==
  ASSUME NEW r \in Runs, PairsKnown(r), NEW n \in Counts, NEW l \in LinkSets, Underway(r, "conclude", n),
         Joined(r, n, l), Origins(n, l), NEW p \in Links, BothExisting(p), l[p] = {"new"}
  PROVE  p \in SnapshotOf(Folded(Marked(r))).associated
  <1>1. p \in Pairs /\ n[p] # 0 /\ "old" \notin l[p]
    BY DEF Pairs, Origins
  <1>2. Associations(r, n)
    BY DEF Underway
  <1>3. r.linking
    BY <1>1, <1>2 DEF Associations
  <1>4. r.pair[p] \in {"pending", "ok", "unconfirmed"} /\ p \notin r.pre
    BY <1>1, <1>3 DEF Joined
  <1>5. r.pair[p] = "pending" => r.interrupted
    BY <1>1 DEF Underway
  <1> DEFINE m == Marked(r)
  <1>6. /\ m.pair[p] \in {"ok", "unconfirmed"} /\ m.linking /\ p \notin m.pre
    BY <1>1, <1>3, <1>4, <1>5 DEF Marked, Runs
  <1>7. m \in Runs
    BY MarkedType
  <1> HIDE DEF m
  <1>8. Folded(m).pair = m.pair /\ Folded(m).linking = m.linking /\ Folded(m).pre = m.pre
    BY <1>7 DEF Folded, Runs
  <1> QED BY <1>6, <1>8 DEF SnapshotOf, Associated, m

\* Once no apply can write any more, only an undo that has succeeded drops
\* what makes the changeset revertible.
LEMMA FindableStays ==
  ASSUME TypeInv, KeptInv, NoExpiry, [Next]_vars, Findable,
         \A v \in Workers : pc[v] \notin Underways, status # "undone"
  PROVE  Findable'
  <1> USE DEF store, hubspot, workers, history
  <1>1. UNCHANGED snapshot
    BY WhoSaves DEF ExpireSnapshot, NoExpiry, SaveSnapshot, FlushCreated, EndCreates, SaveOutcome,
       FailSnapshot, DropSnapshot, KeptInv, UndoSteps, Underways, BeforeWrites, Concluding, WritingSteps
  <1>2. answered' = answered
    BY ZenonT(60) DEF Next, Step, Propose, Apply, Undo, Raise, RaiseStored, FailSnapshot, Interrupt, Kill,
       ExpireRecord, ExpireSnapshot, Edit, Classify, StoreApplying, SaveSnapshot, Release, WriteUpdates,
       SendCreate, AnswerCreate, FlushCreated, EndCreates, ReadLinks, WriteLinks, ReadBack,
       SaveOutcome, StoreApplied, AuditApply, LoadSnapshot, RemoveLink, ArchiveCreated, RestoreValue,
       StoreUndone, DropSnapshot, AuditUndo, vars, Underways, Concluding, WritingSteps
  <1>3. \A p \in Pairs : link'[p] = link[p] \/ link'[p] = {}
    <2>1. link' # link => \E w \in Workers : RemoveLink(w)
      BY WhoLinks DEF WriteUpdates, AnswerCreate, WriteLinks, Interrupt, Underways, Concluding, WritingSteps
    <2> QED BY <2>1 DEF RemoveLink, TypeInv, TypeOK
  <1> QED BY <1>1, <1>2, <1>3 DEF Findable, Pairs

LEMMA WhoAnswers ==
  ASSUME [Next]_vars, answered' # answered
  PROVE  \E w \in Workers : AnswerCreate(w)
  BY ZenonT(60) DEF Next, Step, Propose, Apply, Undo, Raise, RaiseStored, FailSnapshot, Interrupt, Kill,
     ExpireRecord, ExpireSnapshot, Edit, Classify, StoreApplying, SaveSnapshot, Release, WriteUpdates,
     SendCreate, FlushCreated, EndCreates, ReadLinks, WriteLinks, ReadBack,
     SaveOutcome, StoreApplied, AuditApply, LoadSnapshot, RemoveLink, ArchiveCreated, RestoreValue,
     StoreUndone, DropSnapshot, AuditUndo, vars, store, hubspot, workers, history

\* The run of an apply that writes names every record whose id it received.
LEMMA CreatedKept ==
  ASSUME TypeInv, Phases, WriteInv, AllAnswered, NEW w \in Workers,
         \/ WriteUpdates(w) \/ SendCreate(w) \/ AnswerCreate(w) \/ FlushCreated(w) \/ EndCreates(w)
         \/ ReadLinks(w) \/ WriteLinks(w) \/ ReadBack(w) \/ Interrupt(w)
  PROVE  pc'[w] \in Concluding /\ answered' \subseteq run'[w].created
  <1> USE DEF store, hubspot, workers, history
  <1> DEFINE r == run[w]
  <1>0. pc[w] \in WritingSteps
    BY DEF WriteUpdates, SendCreate, AnswerCreate, FlushCreated, EndCreates, ReadLinks, WriteLinks,
       ReadBack, Interrupt, WritingSteps
  <1>1. r \in Runs /\ answered \subseteq r.created
    BY <1>0, Writing DEF AllAnswered, Concluding
  <1>2. pc'[w] \in Concluding
    <2>1. pc'[w] = pc[w] \/ \E step \in Concluding : Goto(w, step)
      BY DEF WriteUpdates, SendCreate, AnswerCreate, FlushCreated, EndCreates, ReadLinks, WriteLinks,
         ReadBack, Interrupt, PlaceOf, PlaceAfterCreates, AfterChunk, Concluding, WritingSteps
    <2> QED BY <1>0, <2>1 DEF Goto, Concluding, TypeInv, TypeOK
  <1>3. ASSUME NEW s, run' = [run EXCEPT ![w] = s], s.created = r.created, answered' = answered
        PROVE  answered' \subseteq run'[w].created
    BY <1>1, <1>3 DEF TypeInv, TypeOK
  <1> HIDE DEF r
  <1>4. CASE WriteUpdates(w)
    <2>1. PICK batch, out : run' = [run EXCEPT ![w] = AfterUpdates(Written(r, batch, out))]
      BY <1>4 DEF WriteUpdates, r
    <2>2. AfterUpdates(Written(r, batch, out)).created = r.created
      <3>1. ASSUME NEW x PROVE AfterUpdates(x).created = x.created
        BY DEF AfterUpdates
      <3>2. Written(r, batch, out).created = r.created
        BY <1>1 DEF Written, Runs
      <3> QED BY <3>1, <3>2
    <2>3. answered' = answered
      BY <1>4 DEF WriteUpdates
    <2> QED BY <1>2, <1>3, <2>1, <2>2, <2>3
  <1>5. CASE SendCreate(w)
    <2>1. PICK c : run' = [run EXCEPT ![w] = Sent(r, c)]
      BY <1>5 DEF SendCreate, r
    <2>2. Sent(r, c).created = r.created
      BY <1>1 DEF Sent, Runs
    <2>3. answered' = answered
      BY <1>5 DEF SendCreate
    <2> QED BY <1>2, <1>3, <2>1, <2>2, <2>3
  <1>6. CASE AnswerCreate(w)
    <2>1. PICK c, outcome, new : /\ run' = [run EXCEPT ![w] = Created(r, c, outcome, new)]
                                 /\ answered' = answered \union new
      BY <1>6 DEF AnswerCreate, r
    <2>2. Created(r, c, outcome, new).created = r.created \union new
      BY <1>1 DEF Created, Runs
    <2> QED BY <1>1, <1>2, <2>1, <2>2 DEF TypeInv, TypeOK
  <1>7. CASE FlushCreated(w)
    <2>1. PICK c : run' = [run EXCEPT ![w] = Freed(r, c)]
      BY <1>7 DEF FlushCreated, r
    <2>2. Freed(r, c).created = r.created
      BY <1>1 DEF Freed, Runs
    <2>3. answered' = answered
      BY <1>7 DEF FlushCreated
    <2> QED BY <1>2, <1>3, <2>1, <2>2, <2>3
  <1>8. CASE EndCreates(w)
    <2>1. Linking(r).created = r.created
      BY <1>1 DEF Linking, Runs
    <2>2. run' = [run EXCEPT ![w] = Linking(r)] /\ answered' = answered
      BY <1>8 DEF EndCreates, r
    <2> QED BY <1>2, <1>3, <2>1, <2>2
  <1>9. CASE ReadLinks(w)
    <2>1. PICK group, found : run' = [run EXCEPT ![w] = Looked(r, group, found)]
      BY <1>9 DEF ReadLinks, r
    <2>2. Looked(r, group, found).created = r.created
      BY <1>1 DEF Looked, Runs
    <2>3. answered' = answered
      BY <1>9 DEF ReadLinks
    <2> QED BY <1>2, <1>3, <2>1, <2>2, <2>3
  <1>10. ASSUME NEW out PROVE Answered(r, out).created = r.created
    BY <1>1 DEF Answered, Runs
  <1>11. CASE WriteLinks(w)
    <2>1. PICK chunk \in (SUBSET r.todo) \ {{}}, outcome \in Outcomes, S \in SUBSET r.todo :
            IF outcome = "partial"
            THEN run' = [run EXCEPT ![w] = Unsettled(r, chunk)]
            ELSE run' = [run EXCEPT ![w] = Answered(r, [p \in chunk |-> Believed(outcome)])]
      BY <1>11 DEF WriteLinks, r
    <2>2. Unsettled(r, chunk).created = r.created
      BY <1>1 DEF Unsettled, Runs
    <2>3. answered' = answered
      BY <1>11 DEF WriteLinks
    <2> QED BY <1>2, <1>3, <1>10, <2>1, <2>2, <2>3
  <1>12. CASE ReadBack(w)
    <2>1. PICK out : run' = [run EXCEPT ![w] = Answered(r, out)]
      BY <1>12 DEF ReadBack, r
    <2>3. answered' = answered
      BY <1>12 DEF ReadBack
    <2> QED BY <1>2, <1>3, <1>10, <2>1, <2>3
  <1>13. CASE Interrupt(w)
    <2>1. PICK sent : run' = [run EXCEPT ![w] = Interrupted(r, sent)]
      BY <1>13 DEF Interrupt, r
    <2>2. Interrupted(r, sent).created = r.created
      BY <1>1 DEF Interrupted, Runs
    <2>3. answered' = answered
      BY <1>13 DEF Interrupt
    <2> QED BY <1>2, <1>3, <2>1, <2>2, <2>3
  <1> QED BY <1>4, <1>5, <1>6, <1>7, <1>8, <1>9, <1>11, <1>12, <1>13

LEMMA OutcomeFindable ==
  ASSUME TypeInv, Phases, WriteInv, LinkInv, AllAnswered, NEW w \in Workers, SaveOutcome(w)
  PROVE  Findable'
  <1> USE DEF store, hubspot, workers, history
  <1> DEFINE r == run[w]
             s == Folded(Marked(r))
  <1>0. pc[w] = "conclude" /\ pc[w] \in ApplySteps
    BY DEF SaveOutcome, ApplySteps
  <1>1. /\ r \in Runs /\ PairsKnown(r) /\ Underway(r, "conclude", writes)
        /\ writes \in Counts /\ link \in LinkSets
    BY <1>0, TypeParts, InFlight DEF WriteInv, AllUnderway, TypeInv, TypeOK, Counts, LinkSets
  <1>2. Joined(r, writes, link) /\ Origins(writes, link)
    BY <1>0, EarlyOrigins DEF JoinedAt, Underways, Concluding
  <1>3. s \in Runs /\ s.created = r.created
    <2>1. Marked(r) \in Runs /\ PairsKnown(Marked(r)) /\ Marked(r).created = r.created
      BY <1>1, MarkedType, KnownPairs DEF Marked, Runs
    <2> QED BY <2>1, FoldedType DEF Folded, Runs
  <1>4. snapshot' = SnapshotOf(s) /\ link' = link /\ answered' = answered
    BY DEF SaveOutcome
  <1>5. snapshot' # None /\ snapshot'.created = r.created
    BY <1>3, <1>4, SnapshotType, NoneIsNothing DEF SnapshotOf
  <1>6. answered \subseteq r.created
    BY <1>0 DEF AllAnswered, Concluding
  <1>7. \A p \in Links : BothExisting(p) /\ link[p] = {"new"} => p \in SnapshotOf(s).associated
    BY <1>1, <1>2, JoinedNamed
  <1> QED BY <1>4, <1>5, <1>6, <1>7 DEF Findable, BothExisting

LEMMA AnsweredStep ==
  ASSUME TypeInv, Phases, WriteInv, SnapInv, LinkInv, NoExpiry, RevertInv, [Next]_vars,
         NEW v \in Workers
  PROVE  /\ pc'[v] \in BeforeWrites => answered' = {}
         /\ pc'[v] \in Concluding => answered' \subseteq run'[v].created
         /\ pc'[v] = "settle" => Findable'
  <1> USE DEF store, hubspot, workers, history, RevertInv
  <1> DEFINE Kept == /\ pc'[v] \in BeforeWrites => answered' = {}
                     /\ pc'[v] \in Concluding => answered' \subseteq run'[v].created
                     /\ pc'[v] = "settle" => Findable'
  <1>1. CASE Apply(v)
    <2>1. answered' = {}
      BY <1>1 DEF Apply, NoneAnswered
    <2>2. \E step \in BeforeWrites : Goto(v, step)
      BY <1>1 DEF Apply, BeforeWrites
    <2>3. pc'[v] \in BeforeWrites
      BY <2>2 DEF Goto, TypeInv, TypeOK
    <2> QED BY <2>1, <2>3 DEF BeforeWrites, Concluding, WritingSteps
  <1>2. CASE Classify(v) \/ StoreApplying(v) \/ SaveSnapshot(v) \/ FailSnapshot(v)
    <2>1. answered' = {}
      BY <1>2 DEF Classify, StoreApplying, SaveSnapshot, FailSnapshot, AllAnswered, BeforeWrites
    <2>2. \E step \in BeforeWrites \union {"updates", "creates"} : Goto(v, step)
      BY <1>2 DEF Classify, StoreApplying, SaveSnapshot, FailSnapshot, PlaceOf, BeforeWrites
    <2>3. pc'[v] # "settle"
      BY <2>2 DEF Goto, TypeInv, TypeOK, BeforeWrites
    <2> QED BY <2>1, <2>3
  <1>3. CASE \/ WriteUpdates(v) \/ SendCreate(v) \/ AnswerCreate(v) \/ FlushCreated(v) \/ EndCreates(v)
             \/ ReadLinks(v) \/ WriteLinks(v) \/ ReadBack(v) \/ Interrupt(v)
    <2>1. pc'[v] \in Concluding /\ answered' \subseteq run'[v].created
      BY <1>3, CreatedKept
    <2> QED BY <2>1 DEF BeforeWrites, Concluding, WritingSteps
  <1>4. CASE SaveOutcome(v)
    <2>1. pc'[v] = "settle"
      BY <1>4 DEF SaveOutcome, Goto, TypeInv, TypeOK
    <2> QED BY <1>4, <2>1, OutcomeFindable DEF BeforeWrites, Concluding, WritingSteps
  <1>5. CASE pc'[v] \notin Underways \union {"settle"}
    BY <1>5 DEF Underways
  <1>6. CASE \/ pc'[v] = "idle" \/ Undo(v) \/ Release(v) \/ StoreApplied(v) \/ AuditApply(v)
             \/ LoadSnapshot(v) \/ RemoveLink(v) \/ ArchiveCreated(v) \/ RestoreValue(v)
             \/ StoreUndone(v) \/ DropSnapshot(v) \/ AuditUndo(v)
    <2>1. pc'[v] \notin Underways
      BY <1>6, NotUnderway
    <2>2. pc'[v] # "settle"
      <3>1. \/ pc'[v] = "idle" \/ \E step \in UndoSteps \union {"apply_audit"} : Goto(v, step)
        BY <1>6 DEF Undo, Release, StoreApplied, AuditApply, LoadSnapshot, RemoveLink, ArchiveCreated,
           RestoreValue, StoreUndone, DropSnapshot, AuditUndo, Reverted, AfterRevert, Return,
           UndoSteps, TypeInv, TypeOK
      <3> QED BY <3>1 DEF Goto, TypeInv, TypeOK, UndoSteps
    <2> QED BY <1>5, <2>1, <2>2
  <1>7. CASE pc'[v] = pc[v] /\ run'[v] = run[v]
    <2>1. CASE answered' # answered /\ pc[v] \in ApplySteps
      <3>1. PICK w \in Workers : AnswerCreate(w)
        BY <2>1, WhoAnswers
      <3>2. w = v
        BY <2>1, <3>1 DEF AnswerCreate, Phases, OneApply, ApplySteps
      <3> QED BY <1>3, <3>1, <3>2
    <2>2. CASE answered' = answered /\ pc[v] \in ApplySteps
      <3>1. ASSUME pc[v] = "settle" PROVE Findable'
        <4>1. \A u \in Workers : pc[u] \notin Underways
          BY <3>1 DEF Phases, OneApply, ApplySteps, Underways, BeforeWrites, Concluding, WritingSteps
        <4>2. status # "undone"
          BY <2>2, <3>1 DEF Phases, AppliesAt, StatusAt
        <4> QED BY <3>1, <4>1, <4>2, FindableStays DEF SnapInv, AllAnswered
      <3> QED BY <1>7, <2>2, <3>1 DEF AllAnswered
    <2>3. CASE pc[v] \notin ApplySteps
      BY <1>7, <2>3 DEF BeforeWrites, Concluding, WritingSteps, ApplySteps
    <2> QED BY <2>1, <2>2, <2>3
  <1> QED BY <1>1, <1>2, <1>3, <1>4, <1>6, <1>7, WorkerFrame DEF Step

LEMMA RevertStep ==
  TypeInv /\ Phases /\ WriteInv /\ OneProcess /\ NoExpiry /\ SnapInv /\ LinkInv /\ RevertInv
    /\ [Next]_vars => RevertInv'
  <1> SUFFICES ASSUME TypeInv, Phases, WriteInv, OneProcess, NoExpiry, SnapInv, LinkInv, RevertInv, [Next]_vars
               PROVE  RevertInv'
    OBVIOUS
  <1> USE DEF store, hubspot, workers, history, RevertInv
  <1>1. AllAnswered'
    BY AnsweredStep DEF AllAnswered
  <1>2. NoneAnswered'
    <2>1. CASE answered' # answered
      <3>1. PICK w \in Workers : AnswerCreate(w)
        BY <2>1, WhoAnswers
      <3>2. status' = "applying"
        BY <3>1, Writing DEF AnswerCreate, WritingSteps
      <3> QED BY <3>2 DEF NoneAnswered
    <2>2. CASE status' # status /\ status' \in {"unborn", "pending"} /\ answered' = answered
      <3>1. Propose \/ \E w \in Workers : Release(w)
        BY <2>2, WhoStores DEF ExpireRecord, StoreApplying, RaiseStored, StoreApplied, StoreUndone
      <3>2. answered = {}
        BY <3>1 DEF Propose, Release, NoneAnswered, AllAnswered, BeforeWrites
      <3> QED BY <2>2, <3>2 DEF NoneAnswered
    <2> QED BY <2>1, <2>2 DEF NoneAnswered
  <1>3. ASSUME status' = "applied" PROVE Findable'
    <2>1. CASE status = "applied"
      <3>1. \A v \in Workers : pc[v] \notin Underways
        BY <2>1 DEF Phases, AppliesAt, StatusAt, ApplySteps, Underways, BeforeWrites, Concluding, WritingSteps
      <3>2. Findable
        BY <2>1 DEF AppliedIsRevertible, Findable
      <3> QED BY <2>1, <3>1, <3>2, FindableStays DEF SnapInv
    <2>2. CASE status # "applied"
      <3>1. PICK w \in Workers : StoreApplied(w)
        BY <1>3, <2>2, WhoStores DEF Propose, ExpireRecord, StoreApplying, RaiseStored, Release, StoreUndone
      <3> QED BY <3>1 DEF StoreApplied, AllAnswered, Findable, BothExisting
    <2> QED BY <2>1, <2>2
  <1>4. SnapshotFirst'
    BY SnapStep DEF SnapInv
  <1>5. AppliedIsRevertible'
    BY <1>3, <1>4 DEF AppliedIsRevertible, Findable, SnapshotFirst
  <1> QED BY <1>1, <1>2, <1>5

LEMMA InitReverts == Init => RevertInv
  BY DEF Init, RevertInv, NoneAnswered, AllAnswered, AppliedIsRevertible, BeforeWrites, Concluding, WritingSteps

LEMMA RevertInvariant == ASSUME OneProcess, NoExpiry PROVE Spec => []RevertInv
  BY InitReverts, TypeInvariant, PhaseInvariant, WriteInvariant, SnapInvariant, LinkInvariant, RevertStep,
     PTL DEF Spec

\* In one process, with a store that keeps its keys, an undo of an applied
\* changeset finds every update HubSpot has applied, every record whose id the
\* server received, and every association that this changeset alone has made
\* between existing records (_conclude, undo_changeset).
THEOREM RevertsWhatItApplied == ASSUME OneProcess, NoExpiry PROVE Spec => []AppliedIsRevertible
  <1>1. RevertInv => AppliedIsRevertible
    BY DEF RevertInv
  <1> QED BY <1>1, RevertInvariant, PTL

-----------------------------------------------------------------------------
(* The report is true *)

\* What an apply reports of one op, given what its run knows.
TrueOf(res, n, o) ==
  /\ res[o] \in {"ok", "partial"} => n[o] # 0
  /\ res[o] = "ok" => \A p \in Nested : Owner[p] = o => n[p] # 0
  /\ res[o] \notin {"ok", "partial", "unconfirmed"} => n[o] = 0

LEMMA UpdateHonest ==
  ASSUME NEW r \in Runs, NEW n \in Counts, Underway(r, "conclude", n), NEW u \in Updates
  PROVE  TrueOf(Folded(Marked(r)).res, n, u)
  <1> USE ChangesetAssumption
  <1> DEFINE m == Marked(r)
  <1>1. Records(r, n) /\ Results(r)
    BY DEF Underway
  <1>2. /\ u \in Ops /\ u \notin Links /\ u \notin Creates
        /\ ~ \E p \in Nested : Owner[p] = u
    BY DEF Ops, Pairs
  <1>3. m \in Runs
    BY MarkedType
  <1>4. m.res[u] = IF r.interrupted /\ Unfinished(r, u)
                   THEN IF u \in r.attempted THEN "unconfirmed" ELSE "failed"
                   ELSE r.res[u]
    BY <1>2 DEF Marked, Runs
  <1> HIDE DEF m
  <1>5. Folded(m).res[u] = m.res[u]
    BY <1>2, <1>3 DEF Folded, Runs
  <1>6. TrueOf(m.res, n, u)
    <2>1. CASE u \in r.recorded
      <3>1. m.res[u] = r.res[u] /\ r.res[u] \in Settled
        BY <1>1, <1>4, <2>1 DEF Unfinished, Results
      <3> QED BY <1>1, <1>2, <2>1, <3>1 DEF Records, Settled, TrueOf
    <2>2. CASE u \notin r.recorded /\ r.res[u] = "ok"
      <3>1. u \in Remaining(r)
        BY <2>2 DEF Remaining
      <3>2. r.interrupted /\ Unfinished(r, u)
        BY <2>2, <3>1 DEF Underway, Unfinished
      <3> QED BY <1>1, <1>4, <3>2 DEF Records, TrueOf
    <2>3. CASE u \notin r.recorded /\ r.res[u] # "ok"
      <3>1. u \notin r.attempted /\ ~Unfinished(r, u) /\ r.res[u] \in Verdicts
        BY <1>1, <1>2, <2>3 DEF Results, Unfinished, Remaining
      <3> QED BY <1>1, <1>4, <2>3, <3>1 DEF Records, TrueOf, Verdicts
    <2> QED BY <2>1, <2>2, <2>3
  <1> QED BY <1>5, <1>6 DEF TrueOf, m

LEMMA CreateHonest ==
  ASSUME NEW r \in Runs, NEW n \in Counts, NEW l, Underway(r, "conclude", n), Joined(r, n, l), SureLinks,
         NEW c \in Creates
  PROVE  TrueOf(Folded(Marked(r)).res, n, c)
  <1> USE ChangesetAssumption
  <1> DEFINE m == Marked(r)
             s == Folded(m)
             HasNested == \E p \in Nested : Owner[p] = c
  <1>1. Records(r, n) /\ Results(r)
    BY DEF Underway
  <1>2. c \in Ops /\ c \notin Links /\ c \notin Updates
    BY DEF Ops, Pairs
  <1>3. m \in Runs /\ m.linking = r.linking
    BY MarkedType DEF Marked, Runs
  <1>4. m.res[c] = IF ~r.interrupted THEN r.res[c]
                   ELSE IF Unfinished(r, c)
                   THEN IF c \in r.attempted THEN "unconfirmed" ELSE "failed"
                   ELSE IF ~r.linking /\ r.res[c] = "ok" /\ HasNested THEN "partial" ELSE r.res[c]
    BY <1>2 DEF Marked, Runs
  <1>5. \A p \in Pairs : m.pair[p] = IF r.interrupted /\ r.pair[p] = "pending" THEN "unconfirmed" ELSE r.pair[p]
    BY DEF Marked, Runs
  <1> HIDE DEF m
  <1>6. s.res[c] = IF r.linking /\ m.res[c] = "ok" /\ \E p \in Nested :
                      Owner[p] = c /\ m.pair[p] \in {"failed", "unconfirmed", "blocked"}
                   THEN "partial" ELSE m.res[c]
    BY <1>2, <1>3 DEF Folded, Runs
  <1> HIDE DEF s, HasNested
  <1>7. TrueOf(s.res, n, c)
    <2>1. CASE c \notin r.recorded
      <3>1. r.interrupted /\ Unfinished(r, c)
        BY <1>2, <2>1 DEF Underway, Unfinished
      <3>2. s.res[c] = IF c \in r.attempted THEN "unconfirmed" ELSE "failed"
        BY <1>4, <1>6, <3>1
      <3> QED BY <1>1, <3>2 DEF Records, TrueOf
    <2>2. CASE c \in r.recorded /\ r.res[c] # "ok"
      <3>1. s.res[c] = r.res[c] /\ r.res[c] \in Settled \union {"skipped"}
        BY <1>1, <1>4, <1>6, <2>2 DEF Unfinished, Results
      <3> QED BY <1>1, <2>2, <3>1 DEF Records, TrueOf, Settled
    <2>3. CASE c \in r.recorded /\ r.res[c] = "ok"
      <3>1. n[c] # 0 /\ ~Unfinished(r, c)
        BY <1>1, <2>3 DEF Records, Unfinished
      <3>2. s.res[c] \in {"ok", "partial"}
        BY <1>4, <1>6, <2>3, <3>1
      <3>3. ASSUME s.res[c] = "ok", NEW p \in Nested, Owner[p] = c PROVE n[p] # 0
        <4>1. p \in Pairs /\ HasNested
          BY <3>3 DEF Pairs, HasNested
        <4>2. r.linking
          BY <1>4, <1>6, <2>3, <3>1, <3>3, <4>1 DEF Underway
        <4>3. m.pair[p] \notin {"failed", "unconfirmed", "blocked"}
          BY <1>6, <3>3, <4>2
        <4>4. r.pair[p] \notin {"absent", "skipped"}
          BY <2>3, <3>3, <4>1, <4>2 DEF Joined
        <4>5. r.pair[p] # "pending"
          BY <1>5, <4>1, <4>3 DEF Underway
        <4>6. r.pair[p] = "ok"
          BY <1>5, <4>1, <4>3, <4>4, <4>5 DEF Runs, PairStatuses
        <4> QED BY <4>1, <4>2, <4>6 DEF Joined
      <3> QED BY <3>1, <3>2, <3>3 DEF TrueOf
    <2> QED BY <2>1, <2>2, <2>3
  <1> QED BY <1>7 DEF s, m

LEMMA LinkHonest ==
  ASSUME NEW r \in Runs, NEW n \in Counts, NEW l, Underway(r, "conclude", n), Joined(r, n, l), SureLinks,
         NEW o \in Links
  PROVE  TrueOf(Folded(Marked(r)).res, n, o)
  <1> USE ChangesetAssumption
  <1> DEFINE m == Marked(r)
             s == Folded(m)
  <1>1. Results(r) /\ Associations(r, n)
    BY DEF Underway
  <1>2. /\ o \in Ops /\ o \in Pairs /\ ~ \E p \in Nested : Owner[p] = o
    BY DEF Ops, Pairs
  <1>3. m \in Runs /\ m.linking = r.linking
    BY MarkedType DEF Marked, Runs
  <1>4. m.pair[o] = IF r.interrupted /\ r.pair[o] = "pending" THEN "unconfirmed" ELSE r.pair[o]
    BY <1>2 DEF Marked, Runs
  <1>5. CASE r.linking
    <2>1. s.res[o] = m.pair[o]
      BY <1>2, <1>3, <1>5 DEF Folded, Runs
    <2>2. /\ n[o] # 0 => r.pair[o] \in {"pending", "ok", "unconfirmed"}
          /\ r.pair[o] = "ok" => n[o] # 0
          /\ r.pair[o] \in PairStatuses
      BY <1>2, <1>5 DEF Joined, Runs
    <2>3. r.pair[o] = "pending" => r.interrupted
      BY <1>2 DEF Underway
    <2> QED BY <1>2, <1>4, <2>1, <2>2, <2>3 DEF TrueOf, PairStatuses
  <1>6. CASE ~r.linking
    <2>1. r.interrupted /\ Unfinished(r, o) /\ o \notin r.attempted /\ n[o] = 0
      BY <1>1, <1>2, <1>6 DEF Underway, Results, Unfinished, Associations
    <2>2. m.res[o] = "failed"
      BY <1>2, <2>1 DEF Marked, Runs
    <2>3. s.res[o] = m.res[o]
      BY <1>3, <1>6 DEF Folded
    <2> QED BY <2>1, <2>2, <2>3 DEF TrueOf
  <1> QED BY <1>5, <1>6

LEMMA OutcomeHonest ==
  ASSUME NEW r \in Runs, NEW n \in Counts, NEW l, Underway(r, "conclude", n), Joined(r, n, l), SureLinks
  PROVE  Honest(Folded(Marked(r)).res, n)
  <1> DEFINE res == Folded(Marked(r)).res
  <1>1. \A o \in Ops : TrueOf(res, n, o)
    BY UpdateHonest, CreateHonest, LinkHonest DEF Ops
  <1> HIDE DEF res
  <1>2. Honest(res, n)
    BY <1>1 DEF Honest, TrueOf
  <1> QED BY <1>2 DEF res

\* An undo that is under way keeps the report it has loaded.
LEMMA ReportCarried ==
  ASSUME TypeInv, NEW w \in Workers, pc'[w] \in UndoSteps,
         LoadSnapshot(w) \/ RemoveLink(w) \/ ArchiveCreated(w) \/ RestoreValue(w)
  PROVE  /\ pc[w] \in UndoSteps
         /\ undo'[w].known = undo[w].known /\ undo'[w].result = undo[w].result
  <1> USE DEF store, hubspot, workers, history
  <1>0. pc[w] \in UndoSteps /\ undo[w] \in Undos
    BY DEF LoadSnapshot, RemoveLink, ArchiveCreated, RestoreValue, TypeInv, TypeOK, UndoSteps
  <1>1. ASSUME NEW u, u \in Undos, NEW outcome, Reverted(w, u, outcome),
               u.known = undo[w].known, u.result = undo[w].result
        PROVE  undo'[w].known = undo[w].known /\ undo'[w].result = undo[w].result
    BY <1>1 DEF Reverted, Tried, TypeInv, TypeOK, Undos
  <1>2. CASE LoadSnapshot(w)
    <2>1. undo'[w] = Loaded(undo[w])
      BY <1>2 DEF LoadSnapshot, Return, UndoSteps, TypeInv, TypeOK
    <2> QED BY <1>0, <2>1 DEF Loaded, Undos
  <1>3. CASE RemoveLink(w)
    <2>1. PICK p \in undo[w].links, outcome \in Outcomes \ {"partial"} :
            Reverted(w, [undo[w] EXCEPT !.links = @ \ {p}], outcome)
      BY <1>3 DEF RemoveLink
    <2> DEFINE u == [undo[w] EXCEPT !.links = @ \ {p}]
    <2>2. u \in Undos /\ u.known = undo[w].known /\ u.result = undo[w].result
      BY <1>0 DEF Undos
    <2> QED BY <1>0, <1>1, <2>1, <2>2
  <1>4. CASE ArchiveCreated(w)
    <2>1. PICK o \in undo[w].objects, outcome \in Outcomes \ {"partial"} :
            Reverted(w, [undo[w] EXCEPT !.objects = @ \ {o}], outcome)
      BY <1>4 DEF ArchiveCreated
    <2> DEFINE u == [undo[w] EXCEPT !.objects = @ \ {o}]
    <2>2. u \in Undos /\ u.known = undo[w].known /\ u.result = undo[w].result
      BY <1>0 DEF Undos
    <2> QED BY <1>0, <1>1, <2>1, <2>2
  <1>5. CASE RestoreValue(w)
    <2>1. PICK x \in undo[w].values : \E outcome : Reverted(w, [undo[w] EXCEPT !.values = @ \ {x}], outcome)
      BY <1>5 DEF RestoreValue
    <2> DEFINE u == [undo[w] EXCEPT !.values = @ \ {x}]
    <2>2. u \in Undos /\ u.known = undo[w].known /\ u.result = undo[w].result
      BY <1>0 DEF Undos
    <2> QED BY <1>0, <1>1, <2>1, <2>2
  <1> QED BY <1>2, <1>3, <1>4, <1>5

\* While there is a report, stored or loaded by an undo, nothing is written.
LEMMA ReportedWrites ==
  ASSUME TypeInv, Phases, WriteInv, [Next]_vars,
         \/ status \in {"applied", "undone"}
         \/ \E w \in Workers : pc[w] \in UndoSteps /\ undo[w].known
         \/ \E w \in Workers : pc[w] \in ApplySteps \ WritingSteps
  PROVE  UNCHANGED writes
  <1>1. SUFFICES ASSUME NEW w \in Workers,
                        WriteUpdates(w) \/ AnswerCreate(w) \/ WriteLinks(w) \/ Interrupt(w)
                 PROVE  FALSE
    BY WhoWrites
  <1>2. pc[w] \in WritingSteps
    BY <1>1 DEF WriteUpdates, AnswerCreate, WriteLinks, Interrupt, WritingSteps
  <1>3. pc[w] \in ApplySteps /\ status = "applying"
    BY <1>2, Writing
  <1> QED BY <1>2, <1>3 DEF Phases, OneApply, UndoesAlone

LEMMA ReportStep ==
  TypeInv /\ Phases /\ WriteInv /\ LinkInv /\ SureLinks /\ ReportInv /\ [Next]_vars => ReportInv'
  <1> SUFFICES ASSUME TypeInv, Phases, WriteInv, LinkInv, SureLinks, ReportInv, [Next]_vars PROVE ReportInv'
    OBVIOUS
  <1> USE DEF store, hubspot, workers, history, ReportInv
  <1>1. ASSUME result' # None
        PROVE  status' \in {"applied", "undone"} /\ Honest(result', writes')
    <2>1. CASE status' = status /\ result' = result
      <3>1. UNCHANGED writes
        BY <1>1, <2>1, ReportedWrites
      <3> QED BY <1>1, <2>1, <3>1
    <2>2. CASE status' # status \/ result' # result
      <3>1. \/ Propose
            \/ \E w \in Workers : StoreApplied(w) \/ StoreUndone(w)
        BY <1>1, <2>2, WhoStores DEF ExpireRecord, StoreApplying, RaiseStored, Release
      <3>2. CASE Propose
        BY <1>1, <3>2 DEF Propose
      <3>3. ASSUME NEW w \in Workers, StoreApplied(w) PROVE status' = "applied" /\ Honest(result', writes')
        BY <3>3 DEF StoreApplied
      <3>4. ASSUME NEW w \in Workers, StoreUndone(w) PROVE status' = "undone" /\ Honest(result', writes')
        BY <1>1, <3>4 DEF StoreUndone, UndoSteps
      <3> QED BY <3>1, <3>2, <3>3, <3>4
    <2> QED BY <2>1, <2>2
  <1>2. ASSUME NEW w \in Workers, pc'[w] = "settle" PROVE Honest(run'[w].res, writes')
    <2>1. CASE SaveOutcome(w)
      <3>0. pc[w] = "conclude" /\ pc[w] \in ApplySteps
        BY <2>1 DEF SaveOutcome, ApplySteps
      <3>1. /\ run[w] \in Runs /\ Underway(run[w], "conclude", writes) /\ writes \in Counts
        BY <3>0 DEF WriteInv, AllUnderway, TypeInv, TypeOK, Counts
      <3>2. Joined(run[w], writes, link)
        BY <3>0, EarlyOrigins DEF JoinedAt, Underways, Concluding
      <3>3. run'[w] = Folded(Marked(run[w])) /\ writes' = writes
        BY <2>1 DEF SaveOutcome, TypeInv, TypeOK
      <3> QED BY <3>1, <3>2, <3>3, OutcomeHonest
    <2>2. CASE pc'[w] = pc[w] /\ run'[w] = run[w]
      <3>1. UNCHANGED writes
        BY <1>2, <2>2, ReportedWrites DEF ApplySteps, WritingSteps
      <3> QED BY <1>2, <2>2, <3>1
    <2>3. CASE \/ pc'[w] = "idle" \/ Undo(w) \/ Apply(w) \/ FailSnapshot(w) \/ Interrupt(w)
               \/ Step(w) /\ ~SaveOutcome(w)
      <3>1. \/ pc'[w] \in {"idle", "creates"}
            \/ \E step \in UndoSteps \union (ApplySteps \ {"settle"}) : Goto(w, step)
        <4>1. CASE \/ pc'[w] = "idle" \/ Undo(w) \/ Apply(w) \/ FailSnapshot(w) \/ Interrupt(w)
          BY <4>1 DEF Undo, Apply, FailSnapshot, Interrupt, UndoSteps, ApplySteps
        <4>2. CASE SendCreate(w) \/ AnswerCreate(w) \/ FlushCreated(w)
          BY <4>2 DEF SendCreate, AnswerCreate, FlushCreated
        <4>3. CASE \/ Classify(w) \/ StoreApplying(w) \/ SaveSnapshot(w) \/ Release(w) \/ WriteUpdates(w)
                   \/ EndCreates(w) \/ ReadLinks(w) \/ WriteLinks(w) \/ ReadBack(w)
                   \/ StoreApplied(w) \/ AuditApply(w)
          BY <4>3 DEF Classify, StoreApplying, SaveSnapshot, Release, WriteUpdates, EndCreates, ReadLinks,
             WriteLinks, ReadBack, StoreApplied, AuditApply, PlaceOf, PlaceAfterCreates, AfterChunk, Return,
             ApplySteps, TypeInv, TypeOK
        <4>4. CASE \/ LoadSnapshot(w) \/ RemoveLink(w) \/ ArchiveCreated(w) \/ RestoreValue(w)
                   \/ StoreUndone(w) \/ DropSnapshot(w) \/ AuditUndo(w)
          BY <4>4 DEF LoadSnapshot, RemoveLink, ArchiveCreated, RestoreValue, StoreUndone, DropSnapshot,
             AuditUndo, Reverted, AfterRevert, Return, UndoSteps, TypeInv, TypeOK
        <4> QED BY <2>3, <4>1, <4>2, <4>3, <4>4 DEF Step
      <3> QED BY <1>2, <3>1 DEF Goto, TypeInv, TypeOK, UndoSteps, ApplySteps
    <2> QED BY <2>1, <2>2, <2>3, WorkerFrame
  <1>3. ASSUME NEW w \in Workers, pc'[w] \in UndoSteps, undo'[w].result # None
        PROVE  undo'[w].known /\ Honest(undo'[w].result, writes')
    <2>0. ASSUME pc[w] \in UndoSteps, undo'[w].known = undo[w].known, undo'[w].result = undo[w].result
          PROVE  undo'[w].known /\ Honest(undo'[w].result, writes')
      <3>1. undo[w].known /\ Honest(undo[w].result, writes)
        BY <1>3, <2>0
      <3>2. UNCHANGED writes
        BY <2>0, <3>1, ReportedWrites
      <3> QED BY <2>0, <3>1, <3>2
    <2>1. CASE Undo(w)
      <3>1. undo'[w].result = result /\ undo'[w].known = Stored /\ UNCHANGED writes
        BY <2>1 DEF Undo, TypeInv, TypeOK
      <3> QED BY <1>3, <3>1 DEF Stored
    <2>2. CASE pc'[w] = pc[w] /\ undo'[w] = undo[w]
      BY <1>3, <2>0, <2>2
    <2>3. CASE LoadSnapshot(w) \/ RemoveLink(w) \/ ArchiveCreated(w) \/ RestoreValue(w)
      BY <1>3, <2>0, <2>3, ReportCarried
    <2>4. CASE StoreUndone(w) \/ DropSnapshot(w)
      BY <2>0, <2>4 DEF StoreUndone, DropSnapshot, UndoSteps
    <2>5. CASE FailSnapshot(w) \/ Interrupt(w) \/ Apply(w)
      BY <1>3, <2>5 DEF FailSnapshot, Interrupt, Apply, Goto, TypeInv, TypeOK, UndoSteps
    <2>6. CASE \/ Classify(w) \/ StoreApplying(w) \/ SaveSnapshot(w) \/ Release(w) \/ WriteUpdates(w)
               \/ SendCreate(w) \/ AnswerCreate(w) \/ FlushCreated(w) \/ EndCreates(w)
               \/ ReadLinks(w) \/ WriteLinks(w) \/ ReadBack(w)
               \/ SaveOutcome(w) \/ StoreApplied(w) \/ AuditApply(w) \/ AuditUndo(w)
      BY <1>3, <2>6, StepsApart
    <2>7. pc'[w] # "idle"
      BY <1>3 DEF UndoSteps
    <2> QED BY <2>1, <2>2, <2>3, <2>4, <2>5, <2>6, <2>7, WorkerFrame DEF Step
  <1> QED BY <1>1, <1>2, <1>3

LEMMA InitReports == Init => ReportInv
  BY DEF Init, ReportInv, UndoSteps

\* In one process, where a read-back of associations tells what it is asked,
\* the report of a changeset is true of what HubSpot has applied, op by op,
\* when it is stored and ever after (_record, _mark_interrupted, _next_note).
THEOREM ReportsAreHonest == ASSUME OneProcess, SureLinks PROVE Spec => []ReportIsHonest
  <1>1. ReportInv /\ TypeInv => ReportIsHonest
    BY DEF ReportInv, Honest, ReportIsHonest, Touched, TypeInv, TypeOK, Items, Ops, Pairs
  <1>2. Spec => []ReportInv
    BY InitReports, TypeInvariant, PhaseInvariant, WriteInvariant, LinkInvariant, ReportStep, PTL DEF Spec
  <1> QED BY <1>1, <1>2, TypeInvariant, PTL

-----------------------------------------------------------------------------
\* Nothing fails but a read of associations.
OnlyReadsFail == Faults \subseteq {"read"}

\* One request at a time.
OneWorker == \A v, w \in Workers : v = w

-----------------------------------------------------------------------------
(* The steps of an undo *)

\* An undo begins, loads, reverts one item, or goes on to end.
LEMMA UndoFrame ==
  ASSUME TypeInv, [Next]_vars, NEW w \in Workers, pc'[w] \in UndoSteps
  PROVE  \/ pc'[w] = pc[w] /\ undo'[w] = undo[w]
         \/ Undo(w) \/ LoadSnapshot(w) \/ RemoveLink(w) \/ ArchiveCreated(w) \/ RestoreValue(w)
         \/ StoreUndone(w) \/ DropSnapshot(w)
  <1> USE DEF store, hubspot, workers, history
  <1>1. ~(FailSnapshot(w) \/ Interrupt(w) \/ Apply(w))
    BY DEF FailSnapshot, Interrupt, Apply, Goto, TypeInv, TypeOK, UndoSteps
  <1>2. ~(\/ Classify(w) \/ StoreApplying(w) \/ SaveSnapshot(w) \/ Release(w) \/ WriteUpdates(w)
          \/ SendCreate(w) \/ AnswerCreate(w) \/ FlushCreated(w) \/ EndCreates(w)
          \/ ReadLinks(w) \/ WriteLinks(w) \/ ReadBack(w)
          \/ SaveOutcome(w) \/ StoreApplied(w) \/ AuditApply(w) \/ AuditUndo(w))
    BY StepsApart
  <1>3. pc'[w] # "idle"
    BY DEF UndoSteps
  <1> QED BY <1>1, <1>2, <1>3, WorkerFrame DEF Step

\* What a write can end in, a record that is gone included.
Endings == Outcomes \union {"failed"}

\* What the answer to one reverted item makes of an undo.
LEMMA TriedItem ==
  ASSUME TypeInv, NEW w \in Workers, pc[w] = "undoing", NEW u \in Undos, NEW outcome,
         Reverted(w, u, outcome)
  PROVE  /\ undo'[w].links = u.links /\ undo'[w].objects = u.objects /\ undo'[w].values = u.values
         /\ undo'[w].known = u.known /\ undo'[w].result = u.result
         /\ undo'[w].failed <=> u.failed \/ outcome # "ok"
         /\ pc'[w] = AfterRevert(undo'[w])
  <1>1. undo'[w] = Tried(u, outcome) /\ pc'[w] = AfterRevert(undo'[w])
    BY DEF Reverted, Goto, TypeInv, TypeOK
  <1> QED BY <1>1 DEF Tried, Undos

\* What an undo has left is what it had, without the item it has tried.
LEMMA Reverts ==
  ASSUME TypeInv, NEW w \in Workers
  PROVE  /\ RemoveLink(w) => \E p \in undo[w].links, outcome \in Endings :
              /\ undo'[w].links = undo[w].links \ {p} /\ undo'[w].objects = undo[w].objects
              /\ undo'[w].values = undo[w].values
              /\ undo'[w].failed <=> undo[w].failed \/ outcome # "ok"
              /\ link' = IF outcome \in {"ok", "lost"} THEN [link EXCEPT ![p] = {}] ELSE link
         /\ ArchiveCreated(w) => \E o \in undo[w].objects, outcome \in Endings :
              /\ undo'[w].links = undo[w].links /\ undo'[w].objects = undo[w].objects \ {o}
              /\ undo'[w].values = undo[w].values
              /\ undo'[w].failed <=> undo[w].failed \/ outcome # "ok"
              /\ live' = IF outcome \in {"ok", "lost"} THEN live \ {o} ELSE live
         /\ RestoreValue(w) => \E u \in undo[w].values, outcome \in Endings :
              /\ undo'[w].links = undo[w].links /\ undo'[w].objects = undo[w].objects
              /\ undo'[w].values = undo[w].values \ {u}
              /\ undo'[w].failed <=> undo[w].failed \/ outcome # "ok"
              /\ value' = IF outcome \in {"ok", "lost"} THEN [value EXCEPT ![u] = original[u]] ELSE value
         /\ RemoveLink(w) \/ ArchiveCreated(w) \/ RestoreValue(w) =>
              pc[w] = "undoing" /\ undo[w] \in Undos /\ pc'[w] = AfterRevert(undo'[w])
  <1> USE DEF store, hubspot, workers, history
  <1>0. pc[w] = "undoing" => undo[w] \in Undos
    BY DEF TypeInv, TypeOK, UndoSteps
  <1>1. ASSUME RemoveLink(w)
        PROVE  /\ pc[w] = "undoing" /\ pc'[w] = AfterRevert(undo'[w])
               /\ \E p \in undo[w].links, outcome \in Endings :
                    /\ undo'[w].links = undo[w].links \ {p} /\ undo'[w].objects = undo[w].objects
                    /\ undo'[w].values = undo[w].values
                    /\ undo'[w].failed <=> undo[w].failed \/ outcome # "ok"
                    /\ link' = IF outcome \in {"ok", "lost"} THEN [link EXCEPT ![p] = {}] ELSE link
    <2>1. PICK p \in undo[w].links, outcome \in Outcomes \ {"partial"} :
            /\ link' = IF outcome \in {"ok", "lost"} THEN [link EXCEPT ![p] = {}] ELSE link
            /\ Reverted(w, [undo[w] EXCEPT !.links = @ \ {p}], outcome)
      BY <1>1 DEF RemoveLink
    <2>2. PICK u : u = [undo[w] EXCEPT !.links = @ \ {p}]
      OBVIOUS
    <2>3. /\ u \in Undos /\ u.links = undo[w].links \ {p} /\ u.objects = undo[w].objects
          /\ u.values = undo[w].values /\ u.failed = undo[w].failed
      BY <1>0, <1>1, <2>2 DEF RemoveLink, Undos
    <2>4. pc[w] = "undoing" /\ Reverted(w, u, outcome)
      BY <1>1, <2>1, <2>2 DEF RemoveLink
    <2>5. /\ pc'[w] = AfterRevert(undo'[w])
          /\ undo'[w].links = u.links /\ undo'[w].objects = u.objects /\ undo'[w].values = u.values
          /\ undo'[w].failed <=> u.failed \/ outcome # "ok"
      BY <2>3, <2>4, TriedItem
    <2>6. outcome \in Endings
      BY DEF Endings
    <2> QED BY <2>1, <2>3, <2>4, <2>5, <2>6
  <1>2. ASSUME ArchiveCreated(w)
        PROVE  /\ pc[w] = "undoing" /\ pc'[w] = AfterRevert(undo'[w])
               /\ \E o \in undo[w].objects, outcome \in Endings :
                    /\ undo'[w].links = undo[w].links /\ undo'[w].objects = undo[w].objects \ {o}
                    /\ undo'[w].values = undo[w].values
                    /\ undo'[w].failed <=> undo[w].failed \/ outcome # "ok"
                    /\ live' = IF outcome \in {"ok", "lost"} THEN live \ {o} ELSE live
    <2>1. PICK o \in undo[w].objects, outcome \in Outcomes \ {"partial"} :
            /\ live' = IF outcome \in {"ok", "lost"} THEN live \ {o} ELSE live
            /\ Reverted(w, [undo[w] EXCEPT !.objects = @ \ {o}], outcome)
      BY <1>2 DEF ArchiveCreated
    <2>2. PICK u : u = [undo[w] EXCEPT !.objects = @ \ {o}]
      OBVIOUS
    <2>3. /\ u \in Undos /\ u.links = undo[w].links /\ u.objects = undo[w].objects \ {o}
          /\ u.values = undo[w].values /\ u.failed = undo[w].failed
      BY <1>0, <1>2, <2>2 DEF ArchiveCreated, Undos
    <2>4. pc[w] = "undoing" /\ Reverted(w, u, outcome)
      BY <1>2, <2>1, <2>2 DEF ArchiveCreated
    <2>5. /\ pc'[w] = AfterRevert(undo'[w])
          /\ undo'[w].links = u.links /\ undo'[w].objects = u.objects /\ undo'[w].values = u.values
          /\ undo'[w].failed <=> u.failed \/ outcome # "ok"
      BY <2>3, <2>4, TriedItem
    <2>6. outcome \in Endings
      BY DEF Endings
    <2> QED BY <2>1, <2>3, <2>4, <2>5, <2>6
  <1>3. ASSUME RestoreValue(w)
        PROVE  /\ pc[w] = "undoing" /\ pc'[w] = AfterRevert(undo'[w])
               /\ \E u \in undo[w].values, outcome \in Endings :
                    /\ undo'[w].links = undo[w].links /\ undo'[w].objects = undo[w].objects
                    /\ undo'[w].values = undo[w].values \ {u}
                    /\ undo'[w].failed <=> undo[w].failed \/ outcome # "ok"
                    /\ value' = IF outcome \in {"ok", "lost"} THEN [value EXCEPT ![u] = original[u]] ELSE value
    <2>1. PICK x \in undo[w].values : \E outcome \in Answers(x) :
            /\ value' = IF outcome \in {"ok", "lost"} THEN [value EXCEPT ![x] = original[x]] ELSE value
            /\ Reverted(w, [undo[w] EXCEPT !.values = @ \ {x}], outcome)
      BY <1>3 DEF RestoreValue
    <2>2. PICK outcome \in Answers(x) :
            /\ value' = IF outcome \in {"ok", "lost"} THEN [value EXCEPT ![x] = original[x]] ELSE value
            /\ Reverted(w, [undo[w] EXCEPT !.values = @ \ {x}], outcome)
      BY <2>1
    <2>3. PICK u : u = [undo[w] EXCEPT !.values = @ \ {x}]
      OBVIOUS
    <2>4. /\ u \in Undos /\ u.links = undo[w].links /\ u.objects = undo[w].objects
          /\ u.values = undo[w].values \ {x} /\ u.failed = undo[w].failed
      BY <1>0, <1>3, <2>3 DEF RestoreValue, Undos
    <2>5. pc[w] = "undoing" /\ Reverted(w, u, outcome)
      BY <1>3, <2>2, <2>3 DEF RestoreValue
    <2>6. /\ pc'[w] = AfterRevert(undo'[w])
          /\ undo'[w].links = u.links /\ undo'[w].objects = u.objects /\ undo'[w].values = u.values
          /\ undo'[w].failed <=> u.failed \/ outcome # "ok"
      BY <2>4, <2>5, TriedItem
    <2>7. outcome \in Endings
      BY DEF Endings, Answers
    <2> QED BY <2>2, <2>4, <2>5, <2>6, <2>7
  <1> QED BY <1>0, <1>1, <1>2, <1>3

-----------------------------------------------------------------------------
(* What others had joined stays *)

\* Among S there is no association that others had made.
OthersFree(S, l) == \A p \in S : "old" \notin l[p]

\* What the run of an apply counts as its own was not joined by others: it has
\* looked before it associates.
BeforeLinks == BeforeWrites \union {"updates", "creates"}
Spares(r, step, l) ==
  /\ step \in BeforeLinks => ~r.linking /\ ~r.interrupted
  /\ r.interrupted => ~r.linking
  /\ r.linking => OthersFree(Associated(r), l)
  /\ \A p \in r.todo \union r.back : BothExisting(p) /\ "old" \in l[p] => p \in r.pre

SparesAll ==
  /\ snapshot # None => OthersFree(snapshot.associated, link)
  /\ \A w \in Workers : pc[w] \in UndoSteps => OthersFree(undo[w].links, link)
  /\ \A w \in Workers : pc[w] \in ApplySteps => Spares(run[w], pc[w], link)

\* No apply is stopped once it has begun to associate, and no look at the
\* associations fails.
LooksFirst == Faults \subseteq {"store", "kill"}

\* What others have joined never grows.
OthersShrink(l, m) == \A p \in Pairs : "old" \in m[p] => "old" \in l[p]

LEMMA OthersStep ==
  ASSUME TypeInv, [Next]_vars
  PROVE  OthersShrink(link, link')
  <1>1. ASSUME NEW S, Applied(S) PROVE OthersShrink(link, link')
    BY <1>1 DEF Applied, OthersShrink
  <1>2. ASSUME NEW w \in Workers, RemoveLink(w) PROVE OthersShrink(link, link')
    BY <1>2 DEF RemoveLink, OthersShrink, TypeInv, TypeOK
  <1>3. CASE link' = link
    BY <1>3 DEF OthersShrink
  <1> QED BY <1>1, <1>2, <1>3, LinksChange

\* A run keeps what it spares when others take more away, and when it moves on
\* without touching its associations.
LEMMA SparesOn ==
  ASSUME NEW r \in Runs, NEW s \in Runs, NEW step, NEW next, NEW l, NEW m,
         Spares(r, step, l), OthersShrink(l, m),
         s.linking = r.linking, s.interrupted = r.interrupted,
         s.pair = r.pair, s.pre = r.pre, s.todo = r.todo, s.back = r.back,
         next \in BeforeLinks => step \in BeforeLinks
  PROVE  Spares(s, next, m)
  <1>1. Associated(s) = Associated(r)
    BY DEF Associated
  <1>2. r.todo \subseteq Pairs /\ r.back \subseteq Pairs /\ Associated(r) \subseteq Pairs
    BY DEF Runs, Associated, Pairs
  <1> QED BY <1>1, <1>2 DEF Spares, OthersFree, OthersShrink

\* The associations are planned: none has an outcome.
LEMMA LinkingSpares ==
  ASSUME NEW r \in Runs, NEW l, NEW next, next \notin BeforeLinks, Spares(r, "creates", l)
  PROVE  Spares(Linking(r), next, l)
  <1>1. /\ Linking(r).pair = PairsOf(r) /\ Linking(r).interrupted = r.interrupted
        /\ Linking(r).todo = r.todo /\ Linking(r).back = r.back /\ Linking(r).pre = r.pre
    BY DEF Linking, Runs
  <1>2. \A p \in Pairs : PairsOf(r)[p] \notin {"ok", "unconfirmed"}
    BY DEF PairsOf
  <1>3. Associated(Linking(r)) = {}
    BY <1>1, <1>2 DEF Associated, Pairs
  <1>4. ~r.interrupted
    BY DEF Spares, BeforeLinks
  <1> QED BY <1>1, <1>3, <1>4 DEF Spares, OthersFree

\* A look finds all that is joined, so that only the others are sent.
LEMMA LookedSpares ==
  ASSUME NEW r \in Runs, NEW l, NEW next, next \notin BeforeLinks, Spares(r, "links", l),
         NEW group \in SUBSET Pairs
  PROVE  Spares(Looked(r, group, {p \in group : BothExisting(p) /\ l[p] # {}}), next, l)
  <1> DEFINE found == {p \in group : BothExisting(p) /\ l[p] # {}}
             s == Looked(r, group, found)
             skip == found \ Labelled
  <1>1. /\ s.linking = r.linking /\ s.interrupted = r.interrupted /\ s.pre = r.pre \union found
        /\ s.todo = group \ skip /\ s.back = r.back
        /\ \A p \in Pairs : s.pair[p] = IF p \in skip THEN "skipped" ELSE r.pair[p]
    BY DEF Looked, Runs
  <1> HIDE DEF s
  <1>2. Associated(s) \subseteq Associated(r)
    BY <1>1 DEF Associated, Pairs
  <1>3. \A p \in s.todo : BothExisting(p) /\ "old" \in l[p] => p \in found
    BY <1>1
  <1>4. Spares(s, next, l)
    BY <1>1, <1>2, <1>3 DEF Spares, OthersFree
  <1> QED BY <1>4 DEF s

\* What is sent has been looked at, so an outcome of it is the run's own.
LEMMA AnsweredSpares ==
  ASSUME NEW r \in Runs, NEW l, NEW next, next \notin BeforeLinks, NEW step, Spares(r, step, l),
         NEW S \in SUBSET (r.todo \union r.back), NEW out, DOMAIN out = S
  PROVE  Spares(Answered(r, out), next, l)
  <1> DEFINE s == Answered(r, out)
  <1>1. /\ s.linking = r.linking /\ s.interrupted = r.interrupted /\ s.pre = r.pre
        /\ s.todo = r.todo \ S /\ s.back = {}
        /\ \A p \in Pairs : s.pair[p] = IF p \in S THEN out[p] ELSE r.pair[p]
    BY DEF Answered, Runs
  <1> HIDE DEF s
  <1>2. ASSUME NEW p \in Associated(s), r.linking PROVE "old" \notin l[p]
    <2>1. CASE p \in S
      BY <1>1, <1>2, <2>1 DEF Spares, Associated
    <2>2. CASE p \notin S
      BY <1>1, <1>2, <2>2 DEF Spares, OthersFree, Associated, Pairs
    <2> QED BY <2>1, <2>2
  <1>3. Spares(s, next, l)
    BY <1>1, <1>2 DEF Spares, OthersFree
  <1> QED BY <1>3 DEF s

\* An outcome is folded into the ops; an apply stopped before its associations
\* has none.
LEMMA OutcomeSpares ==
  ASSUME NEW r \in Runs, PairsKnown(r), NEW l, NEW next, next \notin BeforeLinks,
         Spares(r, "conclude", l)
  PROVE  LET s == Folded(Marked(r)) IN
         Spares(s, next, l) /\ OthersFree(SnapshotOf(s).associated, l)
  <1> DEFINE m == Marked(r)
             s == Folded(m)
  <1>1. m \in Runs /\ PairsKnown(m)
    BY MarkedType, KnownPairs
  <1>2. s \in Runs
    BY <1>1, FoldedType
  <1>3. /\ m.linking = r.linking /\ m.interrupted = r.interrupted /\ m.pre = r.pre
        /\ m.todo = r.todo /\ m.back = r.back /\ (r.linking => m.pair = r.pair)
    BY DEF Marked, Spares, Runs
  <1>4. /\ s.linking = m.linking /\ s.interrupted = m.interrupted /\ s.pre = m.pre
        /\ s.todo = m.todo /\ s.back = m.back /\ s.pair = m.pair
    BY <1>1 DEF Folded, Runs
  <1> HIDE DEF m, s
  <1>5. Associated(s) = IF r.linking THEN Associated(r) ELSE {}
    BY <1>3, <1>4 DEF Associated
  <1>6. Spares(s, next, l) /\ OthersFree(Associated(s), l)
    BY <1>3, <1>4, <1>5 DEF Spares, OthersFree
  <1>7. SnapshotOf(s).associated = Associated(s)
    BY DEF SnapshotOf
  <1> QED BY <1>6, <1>7 DEF m, s

\* The steps of an apply before its associations.
LEMMA EarlySpares ==
  ASSUME TypeInv, TypeInv', SparesAll, OthersShrink(link, link'), NEW w \in Workers,
         \/ Classify(w) \/ StoreApplying(w) \/ SaveSnapshot(w) \/ FailSnapshot(w) \/ WriteUpdates(w)
         \/ SendCreate(w) \/ AnswerCreate(w) \/ FlushCreated(w)
  PROVE  pc'[w] \in ApplySteps => Spares(run'[w], pc'[w], link')
  <1> USE DEF store, hubspot, workers, history
  <1>1. pc[w] \in BeforeLinks
    BY DEF Classify, StoreApplying, SaveSnapshot, FailSnapshot, WriteUpdates, SendCreate, AnswerCreate,
       FlushCreated, BeforeLinks, BeforeWrites
  <1>2. pc[w] \in ApplySteps /\ run[w] \in Runs /\ Spares(run[w], pc[w], link)
    BY <1>1 DEF BeforeLinks, BeforeWrites, ApplySteps, SparesAll, TypeInv, TypeOK
  <1>3. ASSUME pc'[w] \in ApplySteps PROVE run'[w] \in Runs
    BY <1>3 DEF TypeInv, TypeOK
  <1>4. /\ run'[w].linking = run[w].linking /\ run'[w].interrupted = run[w].interrupted
        /\ run'[w].pair = run[w].pair /\ run'[w].pre = run[w].pre
        /\ run'[w].todo = run[w].todo /\ run'[w].back = run[w].back
    <2>0. \A r \in Runs : /\ AfterUpdates(r).linking = r.linking /\ AfterUpdates(r).interrupted = r.interrupted
                          /\ AfterUpdates(r).pair = r.pair /\ AfterUpdates(r).pre = r.pre
                          /\ AfterUpdates(r).todo = r.todo /\ AfterUpdates(r).back = r.back
      BY DEF AfterUpdates, Runs
    <2>1. CASE Classify(w)
      <3>1. PICK u \in Updates : run' = [run EXCEPT ![w] = Classified(run[w], u)]
        BY <2>1 DEF Classify
      <3>2. run'[w] = Classified(run[w], u)
        BY <3>1 DEF TypeInv, TypeOK
      <3> QED BY <1>2, <3>2 DEF Classified, Runs
    <2>2. CASE StoreApplying(w) \/ FailSnapshot(w)
      BY <2>2 DEF StoreApplying, FailSnapshot
    <2>3. CASE SaveSnapshot(w)
      <3>1. run'[w] = AfterUpdates(run[w])
        BY <2>3 DEF SaveSnapshot, TypeInv, TypeOK
      <3> QED BY <1>2, <2>0, <3>1
    <2>4. CASE WriteUpdates(w)
      <3>1. PICK batch \in (SUBSET Remaining(run[w])) \ {{}} : \E out \in [batch -> Outcomes \union {"failed"}] :
              run' = [run EXCEPT ![w] = AfterUpdates(Written(run[w], batch, out))]
                /\ \A u \in batch : out[u] \in Answers(u)
        BY <2>4 DEF WriteUpdates
      <3>2. PICK out \in [batch -> Outcomes \union {"failed"}] :
              run' = [run EXCEPT ![w] = AfterUpdates(Written(run[w], batch, out))]
        BY <3>1
      <3>3. run'[w] = AfterUpdates(Written(run[w], batch, out))
        BY <3>2 DEF TypeInv, TypeOK
      <3>4. batch \in SUBSET Updates
        BY DEF Remaining
      <3>5. Written(run[w], batch, out) \in Runs
        BY <1>2, <3>4, WrittenType
      <3>6. LET s == Written(run[w], batch, out) IN
            /\ s.linking = run[w].linking /\ s.interrupted = run[w].interrupted
            /\ s.pair = run[w].pair /\ s.pre = run[w].pre /\ s.todo = run[w].todo /\ s.back = run[w].back
        BY <1>2 DEF Written, Runs
      <3> QED BY <2>0, <3>3, <3>5, <3>6
    <2>5. CASE SendCreate(w)
      <3>1. PICK c : run' = [run EXCEPT ![w] = Sent(run[w], c)]
        BY <2>5 DEF SendCreate
      <3> QED BY <1>2, <3>1 DEF Sent, Runs, TypeInv, TypeOK
    <2>6. CASE AnswerCreate(w)
      <3>1. PICK c, outcome, new : run' = [run EXCEPT ![w] = Created(run[w], c, outcome, new)]
        BY <2>6 DEF AnswerCreate
      <3>2. run'[w] = Created(run[w], c, outcome, new)
        BY <3>1 DEF TypeInv, TypeOK
      <3> QED BY <1>2, <3>2 DEF Created, Runs
    <2>7. CASE FlushCreated(w)
      <3>1. PICK c : run' = [run EXCEPT ![w] = Freed(run[w], c)]
        BY <2>7 DEF FlushCreated
      <3> QED BY <1>2, <3>1 DEF Freed, Runs, TypeInv, TypeOK
    <2> QED BY <2>1, <2>2, <2>3, <2>4, <2>5, <2>6, <2>7
  <1> QED BY <1>1, <1>2, <1>3, <1>4, SparesOn

\* And those of its associations.
LEMMA LateSpares ==
  ASSUME TypeInv, TypeInv', SparesAll, LooksFirst, OthersShrink(link, link'), NEW w \in Workers,
         \/ EndCreates(w) \/ ReadLinks(w) \/ WriteLinks(w) \/ ReadBack(w) \/ SaveOutcome(w)
         \/ StoreApplied(w) \/ Interrupt(w)
  PROVE  pc'[w] \in ApplySteps => Spares(run'[w], pc'[w], link')
  <1> USE DEF store, hubspot, workers, history
  <1> SUFFICES ASSUME pc'[w] \in ApplySteps PROVE Spares(run'[w], pc'[w], link')
    OBVIOUS
  <1>1. pc[w] \in ApplySteps
    BY DEF EndCreates, ReadLinks, WriteLinks, ReadBack, SaveOutcome, StoreApplied, Interrupt, WritingSteps, ApplySteps
  <1>2. run[w] \in Runs /\ Spares(run[w], pc[w], link) /\ run'[w] \in Runs
    BY <1>1 DEF SparesAll, TypeInv, TypeOK
  <1>3. ASSUME NEW s \in Runs, Spares(s, pc'[w], link), run'[w] = s
        PROVE  Spares(run'[w], pc'[w], link')
    BY <1>3, SparesOn
  <1>4. CASE EndCreates(w)
    <2>1. run'[w] = Linking(run[w]) /\ pc[w] = "creates"
      BY <1>4 DEF EndCreates, TypeInv, TypeOK
    <2>2. pc'[w] \notin BeforeLinks
      BY <1>4 DEF EndCreates, Goto, PlaceAfterCreates, TypeInv, TypeOK, BeforeLinks, BeforeWrites
    <2> QED BY <1>2, <1>3, <2>1, <2>2, LinkingSpares
  <1>5. ASSUME NEW r, pc' = [pc EXCEPT ![w] = AfterChunk(r)]
        PROVE  pc'[w] \notin BeforeLinks
    BY <1>5 DEF AfterChunk, PlaceAfterCreates, TypeInv, TypeOK, BeforeLinks, BeforeWrites
  <1>6. CASE ReadLinks(w)
    <2>1. PICK group \in SUBSET Pairs :
            run' = [run EXCEPT ![w] = Looked(run[w], group, {p \in group : BothExisting(p) /\ link[p] # {}})]
      BY <1>6 DEF ReadLinks, LooksFirst
    <2>2. pc[w] = "links" /\ pc'[w] \notin BeforeLinks
      BY <1>5, <1>6 DEF ReadLinks, Goto
    <2>3. run'[w] = Looked(run[w], group, {p \in group : BothExisting(p) /\ link[p] # {}})
      BY <2>1 DEF TypeInv, TypeOK
    <2> QED BY <1>2, <1>3, <2>2, <2>3, LookedSpares
  <1>7. CASE WriteLinks(w)
    <2>1. PICK chunk \in SUBSET run[w].todo : \E outcome \in Outcomes :
            \/ run' = [run EXCEPT ![w] = Unsettled(run[w], chunk)] /\ Goto(w, "readback")
            \/ /\ run' = [run EXCEPT ![w] = Answered(run[w], [p \in chunk |-> Believed(outcome)])]
               /\ Goto(w, AfterChunk(run'[w]))
      BY <1>7 DEF WriteLinks
    <2>2. CASE run' = [run EXCEPT ![w] = Unsettled(run[w], chunk)] /\ Goto(w, "readback")
      <3>1. pc'[w] = "readback" /\ run'[w] = Unsettled(run[w], chunk)
        BY <2>2 DEF Goto, TypeInv, TypeOK
      <3>2. LET s == Unsettled(run[w], chunk) IN
            /\ s.linking = run[w].linking /\ s.interrupted = run[w].interrupted
            /\ s.pair = run[w].pair /\ s.pre = run[w].pre /\ s.todo = run[w].todo /\ s.back = chunk
        BY <1>2 DEF Unsettled, Runs
      <3>3. Associated(Unsettled(run[w], chunk)) = Associated(run[w])
        BY <3>2 DEF Associated
      <3>4. Spares(run'[w], pc'[w], link)
        BY <1>2, <3>1, <3>2, <3>3 DEF Spares, BeforeLinks, BeforeWrites
      <3> QED BY <1>2, <1>3, <3>4
    <2>3. ASSUME NEW outcome \in Outcomes,
                 run' = [run EXCEPT ![w] = Answered(run[w], [p \in chunk |-> Believed(outcome)])],
                 Goto(w, AfterChunk(run'[w]))
          PROVE  Spares(run'[w], pc'[w], link')
      <3>1. pc'[w] \notin BeforeLinks
        BY <1>5, <2>3 DEF Goto
      <3>2. run'[w] = Answered(run[w], [p \in chunk |-> Believed(outcome)])
        BY <2>3 DEF TypeInv, TypeOK
      <3>3. Spares(run'[w], pc'[w], link)
        BY <1>2, <3>1, <3>2, AnsweredSpares
      <3> QED BY <1>2, <1>3, <3>3
    <2> QED BY <2>1, <2>2, <2>3
  <1>8. CASE ReadBack(w)
    <2>1. PICK out : /\ DOMAIN out = run[w].back
                     /\ run' = [run EXCEPT ![w] = Answered(run[w], out)]
      BY <1>8 DEF ReadBack, SeenLinked
    <2>2. pc'[w] \notin BeforeLinks
      BY <1>5, <1>8 DEF ReadBack, Goto
    <2>3. run'[w] = Answered(run[w], out)
      BY <2>1 DEF TypeInv, TypeOK
    <2>4. Spares(run'[w], pc'[w], link)
      BY <1>2, <2>1, <2>2, <2>3, AnsweredSpares
    <2> QED BY <1>2, <1>3, <2>4
  <1>9. CASE SaveOutcome(w)
    <2>1. pc[w] = "conclude" /\ pc'[w] = "settle" /\ run'[w] = Folded(Marked(run[w]))
      BY <1>9 DEF SaveOutcome, Goto, TypeInv, TypeOK
    <2>2. PairsKnown(run[w])
      BY <1>1 DEF TypeInv, LinksKnown
    <2>3. Spares(run'[w], pc'[w], link)
      BY <1>2, <2>1, <2>2, OutcomeSpares DEF BeforeLinks, BeforeWrites
    <2> QED BY <1>2, <1>3, <2>3
  <1>10. CASE StoreApplied(w)
    <2>1. pc[w] = "settle" /\ pc'[w] = "apply_audit" /\ run'[w] = run[w]
      BY <1>10 DEF StoreApplied, Goto, TypeInv, TypeOK
    <2> QED BY <1>2, <2>1, SparesOn DEF BeforeLinks, BeforeWrites
  <1>11. CASE Interrupt(w)
    <2>1. pc[w] = "creates"
      BY <1>11 DEF Interrupt, Fault, LooksFirst
    <2>2. PICK sent : run'[w] = Interrupted(run[w], sent)
      BY <1>11 DEF Interrupt, TypeInv, TypeOK
    <2>3. pc'[w] = "conclude"
      BY <1>11 DEF Interrupt, Goto, TypeInv, TypeOK
    <2>4. LET s == Interrupted(run[w], sent) IN
          /\ s.linking = run[w].linking /\ s.pre = run[w].pre /\ s.todo = run[w].todo /\ s.back = run[w].back
      BY <1>2 DEF Interrupted, Runs
    <2>5. Spares(run'[w], pc'[w], link)
      BY <1>2, <2>1, <2>2, <2>3, <2>4 DEF Spares, BeforeLinks, BeforeWrites
    <2> QED BY <1>2, <1>3, <2>5
  <1> QED BY <1>4, <1>6, <1>7, <1>8, <1>9, <1>10, <1>11

\* The snapshot names only what a run counts as its own, and an undo takes its
\* work from the snapshot.
LEMMA SparesStep ==
  LooksFirst /\ TypeInv /\ TypeInv' /\ SparesAll /\ [Next]_vars => SparesAll'
  <1> SUFFICES ASSUME LooksFirst, TypeInv, TypeInv', SparesAll, [Next]_vars PROVE SparesAll'
    OBVIOUS
  <1> USE DEF store, hubspot, workers, history
  <1>0. OthersShrink(link, link')
    BY OthersStep
  <1>1. ASSUME NEW S \in SUBSET Links, OthersFree(S, link) PROVE OthersFree(S, link')
    BY <1>0, <1>1 DEF OthersFree, OthersShrink, Pairs
  <1>2. ASSUME snapshot' # None PROVE OthersFree(snapshot'.associated, link')
    <2>0. ASSUME NEW s \in Snapshots, OthersFree(s.associated, link) PROVE OthersFree(s.associated, link')
      BY <1>1, <2>0 DEF Snapshots
    <2>1. CASE snapshot' = snapshot
      BY <1>2, <2>0, <2>1 DEF SparesAll, TypeInv, TypeOK
    <2>2. ASSUME NEW w \in Workers, SaveSnapshot(w) \/ FailSnapshot(w)
          PROVE  OthersFree(snapshot'.associated, link')
      <3>1. pc[w] = "snap" /\ run[w] \in Runs /\ snapshot' \in {snapshot, SnapshotOf(run[w])}
        BY <2>2 DEF SaveSnapshot, FailSnapshot, TypeInv, TypeOK, ApplySteps
      <3>2. ~run[w].linking
        BY <3>1 DEF SparesAll, Spares, BeforeLinks, BeforeWrites, ApplySteps
      <3>3. SnapshotOf(run[w]).associated = {}
        BY <3>1, <3>2, NoAssociations
      <3> QED BY <2>1, <3>1, <3>3 DEF OthersFree
    <2>3. ASSUME NEW w \in Workers, FlushCreated(w) \/ EndCreates(w)
          PROVE  OthersFree(snapshot'.associated, link')
      <3>1. run[w] \in Runs /\ snapshot' \in {snapshot, Flushed(run[w])}
        BY <2>3 DEF FlushCreated, EndCreates, TypeInv, TypeOK, ApplySteps
      <3>2. snapshot # None /\ snapshot \in Snapshots
        BY <1>2, <3>1 DEF Flushed, TypeInv, TypeOK
      <3>3. snapshot'.associated = snapshot.associated
        BY <3>1, <3>2 DEF Flushed, Snapshots
      <3> QED BY <2>0, <3>2, <3>3 DEF SparesAll
    <2>4. ASSUME NEW w \in Workers, SaveOutcome(w) PROVE OthersFree(snapshot'.associated, link')
      <3>1. pc[w] = "conclude" /\ pc[w] \in ApplySteps /\ snapshot' = SnapshotOf(Folded(Marked(run[w])))
        BY <2>4 DEF SaveOutcome, ApplySteps
      <3>2. run[w] \in Runs /\ PairsKnown(run[w]) /\ Spares(run[w], "conclude", link)
        BY <3>1 DEF SparesAll, TypeInv, TypeOK, LinksKnown
      <3>3. OthersFree(snapshot'.associated, link)
        BY <3>1, <3>2, OutcomeSpares DEF BeforeLinks, BeforeWrites
      <3>4. snapshot' \in Snapshots
        BY <1>2 DEF TypeInv, TypeOK
      <3> QED BY <2>0, <3>3, <3>4
    <2>5. ~(ExpireSnapshot \/ \E w \in Workers : DropSnapshot(w))
      BY <1>2 DEF ExpireSnapshot, DropSnapshot
    <2> QED BY <2>1, <2>2, <2>3, <2>4, <2>5, WhoSaves
  <1>3. ASSUME NEW w \in Workers, pc'[w] \in UndoSteps PROVE OthersFree(undo'[w].links, link')
    <2>1. CASE (pc'[w] = pc[w] /\ undo'[w] = undo[w]) \/ StoreUndone(w) \/ DropSnapshot(w)
      <3>1. pc[w] \in UndoSteps /\ undo'[w] = undo[w]
        BY <1>3, <2>1 DEF StoreUndone, DropSnapshot, UndoSteps
      <3>2. undo[w] \in Undos
        BY <3>1 DEF TypeInv, TypeOK
      <3> QED BY <1>1, <3>1, <3>2 DEF SparesAll, Undos
    <2>2. CASE Undo(w)
      BY <2>2 DEF Undo, TypeInv, TypeOK, OthersFree
    <2>3. CASE LoadSnapshot(w)
      <3>1. undo'[w] = Loaded(undo[w]) /\ snapshot # None /\ undo[w] \in Undos
        BY <1>3, <2>3 DEF LoadSnapshot, Return, UndoSteps, TypeInv, TypeOK
      <3>2. undo'[w].links = snapshot.associated /\ snapshot \in Snapshots
        BY <3>1 DEF Loaded, Undos, TypeInv, TypeOK
      <3> QED BY <1>1, <3>1, <3>2 DEF SparesAll, Snapshots
    <2>4. CASE RemoveLink(w) \/ ArchiveCreated(w) \/ RestoreValue(w)
      <3>1. undo'[w].links \subseteq undo[w].links /\ pc[w] \in UndoSteps /\ undo[w] \in Undos
        BY <2>4, Reverts DEF UndoSteps
      <3>2. OthersFree(undo'[w].links, link)
        BY <3>1 DEF SparesAll, OthersFree
      <3> QED BY <1>1, <3>1, <3>2 DEF Undos
    <2> QED BY <1>3, <2>1, <2>2, <2>3, <2>4, UndoFrame
  <1>4. ASSUME NEW w \in Workers, pc'[w] \in ApplySteps PROVE Spares(run'[w], pc'[w], link')
    <2>1. CASE pc'[w] = pc[w] /\ run'[w] = run[w]
      BY <1>0, <1>4, <2>1, SparesOn DEF SparesAll, TypeInv, TypeOK
    <2>2. CASE Apply(w)
      <3>1. run'[w] = FreshRun
        BY <2>2 DEF Apply, TypeInv, TypeOK
      <3> QED BY <3>1 DEF FreshRun, Spares
    <2>3. CASE \/ Undo(w) \/ LoadSnapshot(w) \/ RemoveLink(w) \/ ArchiveCreated(w) \/ RestoreValue(w)
               \/ StoreUndone(w) \/ DropSnapshot(w) \/ AuditUndo(w) \/ AuditApply(w) \/ Release(w)
               \/ pc'[w] = "idle"
      <3>1. pc'[w] = "idle" \/ \E step \in UndoSteps : Goto(w, step)
        BY <2>3 DEF Undo, LoadSnapshot, RemoveLink, ArchiveCreated, RestoreValue, StoreUndone,
           DropSnapshot, AuditUndo, AuditApply, Release, Reverted, AfterRevert, Return, UndoSteps,
           TypeInv, TypeOK
      <3>2. pc'[w] = "idle" \/ pc'[w] \in UndoSteps
        BY <3>1 DEF Goto, TypeInv, TypeOK
      <3> QED BY <1>4, <3>2 DEF ApplySteps, UndoSteps
    <2> QED BY <1>0, <1>4, <2>1, <2>2, <2>3, EarlySpares, LateSpares, WorkerFrame DEF Step
  <1> QED BY <1>2, <1>3, <1>4 DEF SparesAll

LEMMA InitSpares == Init => SparesAll
  BY DEF Init, SparesAll, ApplySteps, UndoSteps

\* Nothing the server does removes an association that others had made, if no
\* apply is stopped while it associates and no look at the associations fails:
\* for any processes, requests, deaths, store failures and expiries
\* (undo_changeset, _associate).
THEOREM OthersLinksStay == ASSUME LooksFirst PROVE Spec => OldLinksStay
  <1>1. ASSUME TypeInv, SparesAll, [Next]_vars, link' # link, NEW q \in Pairs, "old" \in link[q]
        PROVE  "old" \in link'[q]
    <2>1. ASSUME NEW S, Applied(S) PROVE "old" \in link'[q]
      BY <1>1, <2>1 DEF Applied
    <2>2. ASSUME NEW w \in Workers, RemoveLink(w) PROVE "old" \in link'[q]
      <3>1. PICK p \in undo[w].links : link' = [link EXCEPT ![p] = {}] \/ link' = link
        BY <2>2 DEF RemoveLink
      <3>2. pc[w] \in UndoSteps
        BY <2>2 DEF RemoveLink, UndoSteps
      <3>3. p # q
        BY <1>1, <3>1, <3>2 DEF SparesAll, OthersFree
      <3> QED BY <1>1, <3>1, <3>3 DEF TypeInv, TypeOK
    <2> QED BY <1>1, <2>1, <2>2, LinksChange
  <1>2. TypeInv /\ SparesAll /\ [Next]_vars => [\A p \in Pairs : "old" \in link[p] => "old" \in link'[p]]_link
    BY <1>1
  <1>3. TypeInv /\ TypeInv' /\ SparesAll /\ [Next]_vars => SparesAll'
    BY SparesStep
  <1> QED BY <1>2, <1>3, InitSpares, TypeInvariant, PTL DEF Spec, OldLinksStay

-----------------------------------------------------------------------------
(* An undo that has succeeded is the last thing a changeset does *)

FinalInv ==
  /\ reverted => /\ status \in {"undone", "gone"} /\ snapshot = None
                 /\ \A w \in Workers : pc[w] \in {"idle", "undo_audit"}
  /\ status = "unborn" => snapshot = None /\ \A w \in Workers : pc[w] = "idle"
  /\ \A w \in Workers :
       /\ pc[w] \in UndoSteps /\ ~undo[w].known => status = "gone"
       /\ pc[w] = "undo_drop" => status \in {"undone", "gone"}

LEMMA WhoReverts ==
  ASSUME [Next]_vars, reverted' # reverted
  PROVE  \E w \in Workers : DropSnapshot(w)
  BY ZenonT(60) DEF Next, Step, Propose, Apply, Undo, Raise, RaiseStored, FailSnapshot, Interrupt, Kill,
     ExpireRecord, ExpireSnapshot, Edit, Classify, StoreApplying, SaveSnapshot, Release, WriteUpdates,
     SendCreate, AnswerCreate, FlushCreated, EndCreates, ReadLinks, WriteLinks, ReadBack,
     SaveOutcome, StoreApplied, AuditApply, LoadSnapshot, RemoveLink, ArchiveCreated, RestoreValue,
     StoreUndone, AuditUndo, vars, store, hubspot, workers, history

\* A changeset that is not proposed yet, or is done with, takes few steps.
LEMMA RestingSteps ==
  ASSUME TypeInv, FinalInv, [Next]_vars, status = "unborn" \/ reverted
  PROVE  \/ Propose /\ status = "unborn"
         \/ ExpireRecord \/ ExpireSnapshot \/ Edit \/ UNCHANGED vars
         \/ \E w \in Workers : AuditUndo(w) \/ Raise(w) \/ Kill(w)
  <1>1. \A w \in Workers : pc[w] \in {"idle", "undo_audit"}
    BY DEF FinalInv
  <1>2. status \in {"unborn", "undone", "gone"} /\ snapshot = None
    BY DEF FinalInv
  <1>3. ~Propose \/ status = "unborn"
    BY DEF Propose
  <1>4. ASSUME NEW w \in Workers
        PROVE  ~(Apply(w) \/ Undo(w) \/ RaiseStored(w) \/ FailSnapshot(w) \/ Interrupt(w))
    BY <1>1, <1>2 DEF Apply, Undo, Stored, RaiseStored, FailSnapshot, Interrupt, WritingSteps
  <1>5. ASSUME NEW w \in Workers, Step(w) PROVE AuditUndo(w)
    BY <1>1, <1>5 DEF Step, Classify, StoreApplying, SaveSnapshot, Release, WriteUpdates,
       SendCreate, AnswerCreate, FlushCreated, EndCreates, ReadLinks, WriteLinks, ReadBack,
       SaveOutcome, StoreApplied, AuditApply, LoadSnapshot, RemoveLink, ArchiveCreated, RestoreValue,
       StoreUndone, DropSnapshot
  <1> QED BY <1>3, <1>4, <1>5 DEF Next

LEMMA FinalStep == TypeInv /\ Phases /\ OneWorker /\ FinalInv /\ [Next]_vars => FinalInv'
  <1> SUFFICES ASSUME TypeInv, Phases, OneWorker, FinalInv, [Next]_vars PROVE FinalInv'
    OBVIOUS
  <1> USE DEF store, hubspot, workers, history
  <1>1. ASSUME NEW w \in Workers, AuditUndo(w) \/ Raise(w) \/ Kill(w)
        PROVE  /\ UNCHANGED <<status, snapshot, reverted>> /\ UNCHANGED hubspot /\ budget'.edits = budget.edits
               /\ \A v \in Workers : pc'[v] \in {pc[v], "idle"}
    BY <1>1 DEF AuditUndo, Raise, Kill, Fault, Return, TypeInv, TypeOK
  <1>2. reverted' => /\ status' \in {"undone", "gone"} /\ snapshot' = None
                     /\ \A w \in Workers : pc'[w] \in {"idle", "undo_audit"}
    <2>1. CASE reverted
      <3>1. ~Propose
        BY <2>1 DEF FinalInv, Propose
      <3>2. CASE ExpireRecord \/ ExpireSnapshot \/ Edit \/ UNCHANGED vars
        BY <2>1, <3>2 DEF FinalInv, ExpireRecord, ExpireSnapshot, Edit, vars
      <3> QED BY <1>1, <2>1, <3>1, <3>2, RestingSteps DEF FinalInv
    <2>2. ASSUME NEW w \in Workers, DropSnapshot(w)
          PROVE  /\ status' \in {"undone", "gone"} /\ snapshot' = None
                 /\ \A v \in Workers : pc'[v] \in {"idle", "undo_audit"}
      <3>1. pc'[w] = "undo_audit"
        BY <2>2 DEF DropSnapshot, Goto, TypeInv, TypeOK
      <3> QED BY <2>2, <3>1 DEF DropSnapshot, FinalInv, OneWorker
    <2> QED BY <2>1, <2>2, WhoReverts
  <1>3. status' = "unborn" => snapshot' = None /\ \A w \in Workers : pc'[w] = "idle"
    <2>1. ASSUME status' = "unborn" PROVE status = "unborn"
      BY <2>1, WhoStores DEF Propose, ExpireRecord, StoreApplying, RaiseStored, Release, StoreApplied, StoreUndone
    <2>2. CASE status = "unborn"
      <3>1. CASE Propose
        BY <3>1 DEF Propose
      <3>2. CASE ExpireRecord \/ ExpireSnapshot \/ Edit \/ UNCHANGED vars
        BY <2>2, <3>2 DEF FinalInv, ExpireRecord, ExpireSnapshot, Edit, vars
      <3> QED BY <1>1, <2>2, <3>1, <3>2, RestingSteps DEF FinalInv
    <2> QED BY <2>1, <2>2
  <1>4. ASSUME NEW w \in Workers, pc[w] \in UndoSteps, ~StoreUndone(w) PROVE status' \in {status, "gone"}
    <2>1. \A v \in Workers : v = w
      BY DEF OneWorker
    <2>2. ~Propose
      BY <1>4 DEF Propose, FinalInv, UndoSteps
    <2>3. ~ \E v \in Workers : StoreApplying(v) \/ RaiseStored(v) \/ Release(v) \/ StoreApplied(v)
      BY <1>4, <2>1 DEF StoreApplying, RaiseStored, Release, StoreApplied, UndoSteps
    <2> QED BY <1>4, <2>1, <2>2, <2>3, WhoStores DEF ExpireRecord
  <1>5. ASSUME NEW w \in Workers, pc'[w] \in UndoSteps, ~undo'[w].known PROVE status' = "gone"
    <2>1. CASE Undo(w)
      <3>1. ~Stored /\ snapshot # None /\ status' = status
        BY <1>5, <2>1 DEF Undo, TypeInv, TypeOK
      <3> QED BY <3>1 DEF Stored, FinalInv
    <2>2. ASSUME pc[w] \in UndoSteps, ~undo[w].known PROVE status' = "gone"
      <3>1. status = "gone"
        BY <2>2 DEF FinalInv
      <3>2. ~StoreUndone(w)
        BY <2>2 DEF StoreUndone, Phases, KnownStored
      <3> QED BY <1>4, <2>2, <3>1, <3>2
    <2>3. CASE (pc'[w] = pc[w] /\ undo'[w] = undo[w]) \/ StoreUndone(w) \/ DropSnapshot(w)
      <3>1. pc[w] \in UndoSteps /\ undo'[w] = undo[w]
        BY <1>5, <2>3 DEF StoreUndone, DropSnapshot, UndoSteps
      <3> QED BY <1>5, <2>2, <3>1
    <2>4. CASE LoadSnapshot(w) \/ RemoveLink(w) \/ ArchiveCreated(w) \/ RestoreValue(w)
      BY <1>5, <2>2, <2>4, ReportCarried
    <2> QED BY <1>5, <2>1, <2>3, <2>4, UndoFrame
  <1>6. ASSUME NEW w \in Workers, pc'[w] = "undo_drop" PROVE status' \in {"undone", "gone"}
    <2>0. pc'[w] \in UndoSteps
      BY <1>6 DEF UndoSteps
    <2>1. CASE pc'[w] = pc[w]
      <3>1. status \in {"undone", "gone"} /\ pc[w] \in UndoSteps
        BY <1>6, <2>0, <2>1 DEF FinalInv
      <3>2. ~StoreUndone(w)
        BY <1>6, <2>1 DEF StoreUndone
      <3> QED BY <1>4, <3>1, <3>2
    <2>2. CASE LoadSnapshot(w) \/ RemoveLink(w) \/ ArchiveCreated(w) \/ RestoreValue(w)
      <3>1. pc'[w] = AfterRevert(undo'[w])
        BY <1>6, <2>2, Reverts DEF LoadSnapshot, Goto, Return, TypeInv, TypeOK
      <3> QED BY <1>5, <1>6, <2>0, <3>1 DEF AfterRevert
    <2>3. CASE StoreUndone(w)
      BY <2>3 DEF StoreUndone
    <2>4. ~Undo(w) /\ ~DropSnapshot(w)
      BY <1>6 DEF Undo, DropSnapshot, Goto, TypeInv, TypeOK
    <2> QED BY <2>0, <2>1, <2>2, <2>3, <2>4, UndoFrame
  <1> QED BY <1>2, <1>3, <1>5, <1>6 DEF FinalInv

LEMMA InitFinal == Init => FinalInv
  BY DEF Init, FinalInv, UndoSteps

\* With one request at a time a changeset that is undone changes nothing in
\* HubSpot any more: not by a second undo, and not after its record has
\* expired, whatever fails (undo_changeset).
THEOREM UndoIsFinal == ASSUME OneWorker PROVE Spec => UndoneIsFinal
  <1>0. OneProcess
    BY DEF OneWorker, OneProcess
  <1>1. ASSUME TypeInv, FinalInv, [Next]_vars, reverted, budget'.edits = budget.edits
        PROVE  UNCHANGED hubspot
    <2>1. ~Propose /\ ~Edit
      BY <1>1 DEF Propose, Edit, FinalInv, TypeInv, TypeOK
    <2>2. CASE ExpireRecord \/ ExpireSnapshot \/ UNCHANGED vars
      BY <2>2 DEF ExpireRecord, ExpireSnapshot, vars
    <2>3. ASSUME NEW w \in Workers, AuditUndo(w) \/ Raise(w) \/ Kill(w) PROVE UNCHANGED hubspot
      BY <2>3 DEF AuditUndo, Raise, Kill
    <2> QED BY <1>1, <2>1, <2>2, <2>3, RestingSteps
  <1>2. TypeInv /\ FinalInv /\ [Next]_vars =>
          [reverted /\ budget'.edits = budget.edits => UNCHANGED hubspot]_vars
    BY <1>1
  <1>3. TypeInv /\ Phases /\ FinalInv /\ [Next]_vars => FinalInv'
    BY FinalStep
  <1>4. Spec => []Phases
    BY <1>0, PhaseInvariant
  <1> QED BY <1>2, <1>3, <1>4, InitFinal, TypeInvariant, PTL DEF Spec, UndoneIsFinal

-----------------------------------------------------------------------------
(* What an undo that has succeeded leaves *)

\* What the server knows to have written and HubSpot still has is among these.
Left(links, objects, values) ==
  /\ live \cap answered \subseteq objects
  /\ \A u \in Updates : Touched(u) /\ value[u] = "new" => u \in values
  /\ \A p \in Links : BothExisting(p) /\ link[p] = {"new"} => p \in links

\* A value that is written was not there before.
Changing == {"classify", "flip", "snap", "updates"}
OrigInv ==
  /\ \A u \in Updates : Touched(u) => original[u] # "new"
  /\ \A w \in Workers : pc[w] \in Changing =>
       \A u \in Updates : run[w].res[u] = "ok" => original[u] # "new"
  /\ status = "applying" => \E w \in Workers : pc[w] \in ApplySteps

LeftInv ==
  /\ \A w \in Workers :
       /\ pc[w] \in UndoSteps => status \in {"applied", "undone"}
       /\ pc[w] \in {"undoing", "undo_store", "undo_drop"} /\ ~undo[w].failed =>
            Left(undo[w].links, undo[w].objects, undo[w].values)
       /\ pc[w] \in {"undo_store", "undo_drop"} => ~undo[w].failed /\ ~Reverting(undo[w])
  /\ status = "undone" => Left({}, {}, {})
  /\ reverted => status = "undone"

\* Then no request stops halfway.
LEMMA NoFaults ==
  ASSUME OnlyReadsFail, NEW w \in Workers
  PROVE  ~(Raise(w) \/ RaiseStored(w) \/ FailSnapshot(w) \/ Interrupt(w) \/ Kill(w))
  BY DEF OnlyReadsFail, Raise, RaiseStored, FailSnapshot, Interrupt, Kill, Fault

\* Where no apply writes, HubSpot gets no more of what a changeset has made.
LEMMA QuietStep ==
  ASSUME TypeInv, [Next]_vars, \A v \in Workers : pc[v] \notin WritingSteps
  PROVE  /\ UNCHANGED <<writes, answered>> /\ live' \subseteq live
         /\ \A p \in Pairs : link'[p] \in {link[p], {}}
         /\ \A u \in Updates : value'[u] \in {value[u], original[u], "edited", "gone"}
  <1> USE DEF store, hubspot, workers, history, TypeInv, TypeOK
  <1>1. ASSUME UNCHANGED <<hubspot, answered>>
        PROVE  /\ UNCHANGED <<writes, answered>> /\ live' \subseteq live
               /\ \A p \in Pairs : link'[p] \in {link[p], {}}
               /\ \A u \in Updates : value'[u] \in {value[u], original[u], "edited", "gone"}
    BY <1>1
  <1>2. CASE Edit
    <2>1. UNCHANGED <<writes, answered, link>> /\ live' \subseteq live
      BY <1>2 DEF Edit
    <2>2. \A u \in Updates : value'[u] \in {value[u], original[u], "edited", "gone"}
      BY <1>2 DEF Edit
    <2> QED BY <2>1, <2>2
  <1>3. ASSUME NEW w \in Workers, RemoveLink(w)
        PROVE  /\ UNCHANGED <<writes, answered, value, live>>
               /\ \A p \in Pairs : link'[p] \in {link[p], {}}
    BY <1>3 DEF RemoveLink
  <1>4. ASSUME NEW w \in Workers, ArchiveCreated(w)
        PROVE  UNCHANGED <<writes, answered, value, link>> /\ live' \subseteq live
    BY <1>4 DEF ArchiveCreated
  <1>5. ASSUME NEW w \in Workers, RestoreValue(w)
        PROVE  /\ UNCHANGED <<writes, answered, live, link>>
               /\ \A u \in Updates : value'[u] \in {value[u], original[u]}
    BY <1>5 DEF RestoreValue
  <1>6. ASSUME ~Edit, ~ \E w \in Workers : RemoveLink(w) \/ ArchiveCreated(w) \/ RestoreValue(w)
        PROVE  UNCHANGED <<hubspot, answered>>
    BY ZenonT(60), <1>6 DEF Next, Step, Propose, Apply, Undo, Raise, RaiseStored, FailSnapshot, Interrupt, Kill,
       ExpireRecord, ExpireSnapshot, Classify, StoreApplying, SaveSnapshot, Release, WriteUpdates,
       SendCreate, AnswerCreate, FlushCreated, EndCreates, ReadLinks, WriteLinks, ReadBack,
       SaveOutcome, StoreApplied, AuditApply, LoadSnapshot,
       StoreUndone, DropSnapshot, AuditUndo, vars, WritingSteps
  <1> QED BY <1>1, <1>2, <1>3, <1>4, <1>5, <1>6

\* So nothing is added to what is left.
LEMMA LeftStays ==
  ASSUME TypeInv, [Next]_vars, \A v \in Workers : pc[v] \notin WritingSteps,
         \A u \in Updates : Touched(u) => original[u] # "new",
         NEW L, NEW O, NEW V, Left(L, O, V)
  PROVE  Left(L, O, V)'
  <1>1. \A p \in Links : link'[p] \in {link[p], {}}
    BY QuietStep DEF Pairs
  <1>2. {} # {"new"}
    OBVIOUS
  <1>3. \A p \in Links : link'[p] = {"new"} => link[p] = {"new"}
    BY <1>1, <1>2
  <1>4. \A u \in Updates : Touched(u)' => Touched(u)
    BY QuietStep DEF Touched
  <1>5. \A u \in Updates : Touched(u) /\ value'[u] = "new" => value[u] = "new"
    BY QuietStep
  <1>6. live' \cap answered' \subseteq live \cap answered
    BY QuietStep
  <1> QED BY <1>3, <1>4, <1>5, <1>6 DEF Left

-----------------------------------------------------------------------------
(* A value that is written was not there before *)

LEMMA OriginalStays ==
  ASSUME [Next]_vars, status # "unborn"
  PROVE  original' = original
  BY ZenonT(60) DEF Next, Step, Propose, Apply, Undo, Raise, RaiseStored, FailSnapshot, Interrupt, Kill,
     ExpireRecord, ExpireSnapshot, Edit, Classify, StoreApplying, SaveSnapshot, Release, WriteUpdates,
     SendCreate, AnswerCreate, FlushCreated, EndCreates, ReadLinks, WriteLinks, ReadBack,
     SaveOutcome, StoreApplied, AuditApply, LoadSnapshot, RemoveLink, ArchiveCreated, RestoreValue,
     StoreUndone, DropSnapshot, AuditUndo, vars, store, hubspot, workers, history

\* Only a look at the record finds an update ok that is not yet written.
LEMMA ChangingStep ==
  ASSUME TypeInv, [Next]_vars, NEW w \in Workers, pc'[w] \in Changing, NEW u \in Updates,
         run'[w].res[u] = "ok"
  PROVE  \/ pc[w] \in Changing /\ run[w].res[u] = "ok"
         \/ Classify(w) /\ Verdict(u) = "ok"
  <1> USE DEF store, hubspot, workers, history
  <1>0. u \in Ops /\ u \notin Creates
    BY ChangesetAssumption DEF Ops
  <1>1. CASE pc'[w] = pc[w] /\ run'[w] = run[w]
    BY <1>1
  <1>2. CASE Apply(w)
    <2>1. run'[w] = FreshRun
      BY <1>2 DEF Apply, TypeInv, TypeOK
    <2> QED BY <1>0, <2>1 DEF FreshRun
  <1>3. ASSUME pc[w] \in Changing PROVE run[w] \in Runs
    BY <1>3 DEF Changing, ApplySteps, TypeInv, TypeOK
  <1>4. ASSUME NEW r \in Runs, AfterUpdates(r).res[u] = "ok" PROVE r.res[u] = "ok"
    <2>1. Orphans(r) \subseteq Creates
      BY DEF Orphans
    <2>2. CASE Remaining(r) # {}
      BY <1>4, <2>2 DEF AfterUpdates
    <2>3. CASE Remaining(r) = {}
      <3>1. AfterUpdates(r).res = [o \in Ops |-> IF o \in Orphans(r) THEN "skipped" ELSE r.res[o]]
        BY <2>3 DEF AfterUpdates, Runs
      <3> QED BY <1>0, <1>4, <2>1, <3>1
    <2> QED BY <2>2, <2>3
  <1>5. CASE Classify(w)
    <2>1. PICK v \in Updates : run' = [run EXCEPT ![w] = Classified(run[w], v)]
      BY <1>5 DEF Classify
    <2>2. pc[w] \in Changing /\ run'[w] = Classified(run[w], v)
      BY <1>5, <2>1 DEF Classify, Changing, TypeInv, TypeOK
    <2>3. Classified(run[w], v).res = [run[w].res EXCEPT ![v] = Verdict(v)]
      BY <1>3, <2>2 DEF Classified, Runs
    <2>4. run'[w].res[u] = IF u = v THEN Verdict(v) ELSE run[w].res[u]
      BY <1>0, <1>3, <2>2, <2>3 DEF Runs
    <2> QED BY <1>5, <2>2, <2>4
  <1>6. CASE StoreApplying(w)
    BY <1>6 DEF StoreApplying, Changing
  <1>7. CASE SaveSnapshot(w)
    <2>1. pc[w] \in Changing /\ run'[w] = AfterUpdates(run[w])
      BY <1>7 DEF SaveSnapshot, Changing, TypeInv, TypeOK
    <2> QED BY <1>3, <1>4, <2>1
  <1>8. CASE WriteUpdates(w)
    <2>1. PICK batch \in (SUBSET Remaining(run[w])) \ {{}} : \E out \in [batch -> Outcomes \union {"failed"}] :
            run' = [run EXCEPT ![w] = AfterUpdates(Written(run[w], batch, out))]
      BY <1>8 DEF WriteUpdates
    <2>2. PICK out : run' = [run EXCEPT ![w] = AfterUpdates(Written(run[w], batch, out))]
      BY <2>1
    <2>3. pc[w] \in Changing /\ run'[w] = AfterUpdates(Written(run[w], batch, out))
      BY <1>8, <2>2 DEF WriteUpdates, Changing, TypeInv, TypeOK
    <2>4. batch \subseteq Updates /\ \A v \in batch : run[w].res[v] = "ok"
      BY DEF Remaining
    <2>5. Written(run[w], batch, out) \in Runs
      BY <1>3, <2>3, <2>4, WrittenType
    <2>6. Written(run[w], batch, out).res[u] = "ok"
      BY <1>4, <2>3, <2>5
    <2>7. u \notin batch => Written(run[w], batch, out).res[u] = run[w].res[u]
      BY <1>0, <1>3, <2>3 DEF Written, Runs
    <2> QED BY <2>3, <2>4, <2>6, <2>7
  <1>9. CASE \/ SendCreate(w) \/ AnswerCreate(w) \/ FlushCreated(w) \/ EndCreates(w) \/ ReadLinks(w)
             \/ WriteLinks(w) \/ ReadBack(w) \/ SaveOutcome(w) \/ StoreApplied(w) \/ FailSnapshot(w)
             \/ Interrupt(w) \/ Release(w) \/ AuditApply(w) \/ AuditUndo(w)
    <2>1. CASE SendCreate(w) \/ AnswerCreate(w) \/ FlushCreated(w)
      BY <2>1 DEF SendCreate, AnswerCreate, FlushCreated, Changing
    <2>2. CASE EndCreates(w) \/ ReadLinks(w) \/ WriteLinks(w) \/ ReadBack(w)
      <3>1. PICK step \in {"links", "associate", "readback", "conclude"} : Goto(w, step)
        BY <2>2 DEF EndCreates, ReadLinks, WriteLinks, ReadBack, AfterChunk, PlaceAfterCreates
      <3> QED BY <3>1 DEF Goto, TypeInv, TypeOK, Changing
    <2>3. CASE SaveOutcome(w) \/ StoreApplied(w) \/ FailSnapshot(w) \/ Interrupt(w)
      BY <2>3 DEF SaveOutcome, StoreApplied, FailSnapshot, Interrupt, Goto, TypeInv, TypeOK, Changing
    <2>4. CASE Release(w) \/ AuditApply(w) \/ AuditUndo(w)
      BY <2>4 DEF Release, AuditApply, AuditUndo, Return, TypeInv, TypeOK, Changing
    <2> QED BY <1>9, <2>1, <2>2, <2>3, <2>4
  <1>10. CASE \/ Undo(w) \/ LoadSnapshot(w) \/ RemoveLink(w) \/ ArchiveCreated(w) \/ RestoreValue(w)
              \/ StoreUndone(w) \/ DropSnapshot(w)
    <2>1. pc'[w] = "idle" \/ \E step \in UndoSteps : Goto(w, step)
      BY <1>10 DEF Undo, LoadSnapshot, RemoveLink, ArchiveCreated, RestoreValue, StoreUndone,
         DropSnapshot, Reverted, AfterRevert, Return, UndoSteps, TypeInv, TypeOK
    <2> QED BY <2>1 DEF Goto, TypeInv, TypeOK, Changing, UndoSteps
  <1>11. pc'[w] # "idle"
    BY DEF Changing
  <1> QED BY <1>1, <1>2, <1>5, <1>6, <1>7, <1>8, <1>9, <1>10, <1>11, WorkerFrame DEF Step

\* Without faults an apply goes on until it has reported.
LEMMA ApplyGoesOn ==
  ASSUME TypeInv, OnlyReadsFail, [Next]_vars, NEW w \in Workers, pc[w] \in ApplySteps,
         ~Release(w), ~AuditApply(w)
  PROVE  pc'[w] \in ApplySteps
  <1> USE DEF store, hubspot, workers, history
  <1>1. CASE pc'[w] = pc[w]
    BY <1>1
  <1>2. ASSUME NEW v \in Workers \ {w}, Apply(v) \/ Undo(v) \/ Step(v) PROVE pc'[w] = pc[w]
    BY ZenonT(60), <1>2 DEF Step, Apply, Undo, Classify, StoreApplying, SaveSnapshot, Release,
       WriteUpdates, SendCreate, AnswerCreate, FlushCreated, EndCreates, ReadLinks, WriteLinks,
       ReadBack, SaveOutcome, StoreApplied, AuditApply, LoadSnapshot, RemoveLink, ArchiveCreated,
       RestoreValue, StoreUndone, DropSnapshot, AuditUndo, Goto, Return, Reverted, TypeInv, TypeOK
  <1>3. CASE Classify(w) \/ StoreApplying(w) \/ SaveSnapshot(w) \/ WriteUpdates(w) \/ SaveOutcome(w) \/ StoreApplied(w)
    BY <1>3 DEF Classify, StoreApplying, SaveSnapshot, WriteUpdates, SaveOutcome, StoreApplied, PlaceOf,
       Goto, ApplySteps, TypeInv, TypeOK
  <1>4. CASE SendCreate(w) \/ AnswerCreate(w) \/ FlushCreated(w)
    BY <1>4 DEF SendCreate, AnswerCreate, FlushCreated, ApplySteps
  <1>5. CASE EndCreates(w) \/ ReadLinks(w) \/ WriteLinks(w) \/ ReadBack(w)
    <2>1. PICK step \in {"links", "associate", "readback", "conclude"} : Goto(w, step)
      BY <1>5 DEF EndCreates, ReadLinks, WriteLinks, ReadBack, AfterChunk, PlaceAfterCreates
    <2> QED BY <2>1 DEF Goto, TypeInv, TypeOK, ApplySteps
  <1>6. ~(\/ Apply(w) \/ Undo(w) \/ LoadSnapshot(w) \/ RemoveLink(w) \/ ArchiveCreated(w) \/ RestoreValue(w)
          \/ StoreUndone(w) \/ DropSnapshot(w) \/ AuditUndo(w))
    BY DEF Apply, Undo, Begin, LoadSnapshot, RemoveLink, ArchiveCreated, RestoreValue, StoreUndone,
       DropSnapshot, AuditUndo, ApplySteps
  <1>7. CASE Propose \/ ExpireRecord \/ ExpireSnapshot \/ Edit \/ UNCHANGED vars
    BY <1>7 DEF Propose, ExpireRecord, ExpireSnapshot, Edit, vars
  <1> QED BY <1>1, <1>2, <1>3, <1>4, <1>5, <1>6, <1>7, NoFaults DEF Next, Step

LEMMA OrigStep ==
  TypeInv /\ Phases /\ WriteInv /\ OnlyReadsFail /\ OrigInv /\ [Next]_vars => OrigInv'
  <1> SUFFICES ASSUME TypeInv, Phases, WriteInv, OnlyReadsFail, OrigInv, [Next]_vars PROVE OrigInv'
    OBVIOUS
  <1> USE DEF store, hubspot, workers, history
  <1>1. ASSUME NEW u \in Updates, Touched(u)' PROVE original'[u] # "new"
    <2>0. u \in Items
      BY DEF Items, Ops
    <2>1. CASE status = "unborn"
      <3>1. \A v \in Workers : pc[v] \notin WritingSteps
        BY <2>1, Writing
      <3>2. writes' = writes
        BY <3>1, QuietStep
      <3>3. writes[u] = 0
        BY <2>0, <2>1 DEF WriteInv, Unwritten, NothingYet
      <3> QED BY <1>1, <3>2, <3>3 DEF Touched
    <2>2. CASE status # "unborn" /\ writes' = writes
      BY <1>1, <2>2, OriginalStays DEF OrigInv, Touched
    <2>3. ASSUME NEW S, Applied(S), u \notin S, status # "unborn" PROVE original'[u] # "new"
      <3>1. writes'[u] = writes[u]
        BY <2>0, <2>3 DEF Applied
      <3> QED BY <1>1, <2>3, <3>1, OriginalStays DEF OrigInv, Touched
    <2>4. ASSUME NEW w \in Workers, WriteUpdates(w), status # "unborn" PROVE original'[u] # "new"
      <3>1. PICK batch \in (SUBSET Remaining(run[w])) \ {{}} : \E out \in [batch -> Outcomes \union {"failed"}] :
              Applied(Landed(out))
        BY <2>4 DEF WriteUpdates
      <3>2. PICK out \in [batch -> Outcomes \union {"failed"}] : Applied(Landed(out))
        BY <3>1
      <3>3. Landed(out) \subseteq batch
        BY LandedUpdates
      <3>4. CASE u \in batch
        <4>1. run[w].res[u] = "ok" /\ pc[w] \in Changing
          BY <2>4, <3>4 DEF Remaining, WriteUpdates, Changing
        <4>2. original[u] # "new"
          BY <4>1 DEF OrigInv
        <4> QED BY <2>4, <4>2, OriginalStays
      <3> QED BY <2>3, <2>4, <3>2, <3>3, <3>4
    <2>5. ASSUME NEW w \in Workers, AnswerCreate(w), status # "unborn" PROVE original'[u] # "new"
      <3>1. PICK c \in Creates : \E outcome : Applied(Landed([o \in {c} |-> outcome]))
        BY <2>5 DEF AnswerCreate
      <3>2. PICK outcome : Applied(Landed([o \in {c} |-> outcome]))
        BY <3>1
      <3>3. u \notin Landed([o \in {c} |-> outcome])
        BY ChangesetAssumption DEF Landed
      <3> QED BY <2>3, <2>5, <3>2, <3>3
    <2>6. ASSUME NEW w \in Workers, WriteLinks(w), status # "unborn" PROVE original'[u] # "new"
      <3>1. PICK S \in SUBSET run[w].todo : Applied(S)
        BY <2>6 DEF WriteLinks
      <3>2. run[w].todo \subseteq Pairs
        BY <2>6 DEF WriteLinks, ApplySteps, TypeInv, TypeOK, Runs
      <3> QED BY <2>3, <2>6, <3>1, <3>2, ChangesetAssumption
    <2> QED BY <2>1, <2>2, <2>4, <2>5, <2>6, WhoWrites, NoFaults
  <1>2. ASSUME NEW w \in Workers, pc'[w] \in Changing, NEW u \in Updates, run'[w].res[u] = "ok"
        PROVE  original'[u] # "new"
    <2>1. CASE pc[w] \in Changing /\ run[w].res[u] = "ok"
      <3>1. original[u] # "new"
        BY <2>1 DEF OrigInv
      <3>2. status # "unborn"
        BY <2>1 DEF Phases, AppliesAt, StatusAt, Changing, ApplySteps
      <3> QED BY <3>1, <3>2, OriginalStays
    <2>2. CASE Classify(w) /\ Verdict(u) = "ok"
      <3>1. original[u] # "new"
        BY <2>2 DEF Verdict
      <3> QED BY <2>2, <3>1 DEF Classify
    <2> QED BY <1>2, <2>1, <2>2, ChangingStep
  <1>3. ASSUME status' = "applying" PROVE \E w \in Workers : pc'[w] \in ApplySteps
    <2>1. CASE status' # status
      <3>1. PICK w \in Workers : StoreApplying(w)
        BY <1>3, <2>1, WhoStores, NoFaults DEF Propose, ExpireRecord, Release, StoreApplied, StoreUndone
      <3> QED BY <3>1 DEF StoreApplying, Goto, ApplySteps, TypeInv, TypeOK
    <2>2. CASE status' = status
      <3>1. PICK w \in Workers : pc[w] \in ApplySteps
        BY <1>3, <2>2 DEF OrigInv
      <3>2. ~Release(w)
        BY <1>3 DEF Release
      <3>3. ~AuditApply(w)
        BY <1>3, <2>2, <3>1 DEF AuditApply, Phases, AppliesAt, StatusAt
      <3> QED BY <3>1, <3>2, <3>3, ApplyGoesOn
    <2> QED BY <2>1, <2>2
  <1> QED BY <1>1, <1>2, <1>3 DEF OrigInv

-----------------------------------------------------------------------------
(* An undo reverts what is left until nothing is *)

LEMMA LeftStep ==
  ASSUME TypeInv, Phases, OneProcess, NoExpiry, OnlyReadsFail, KeptInv, KeptInv', AppliedIsRevertible,
         OrigInv, LeftInv, [Next]_vars
  PROVE  LeftInv'
  <1> USE DEF store, hubspot, workers, history
  <1>1. ASSUME NEW w \in Workers, pc[w] \in UndoSteps PROVE \A v \in Workers : pc[v] \notin ApplySteps
    BY <1>1 DEF KeptInv, Phases, UndoesAlone
  <1>2. WritingSteps \subseteq ApplySteps
    BY DEF WritingSteps, ApplySteps
  <1>3. \A u \in Updates : Touched(u) => original[u] # "new"
    BY DEF OrigInv
  <1>4. ASSUME NEW w \in Workers, pc[w] \in UndoSteps, NEW L, NEW O, NEW V, Left(L, O, V)
        PROVE  Left(L, O, V)'
    BY <1>1, <1>2, <1>3, <1>4, LeftStays
  <1>5. ASSUME NEW w \in Workers, pc'[w] \in UndoSteps PROVE status' \in {"applied", "undone"}
    <2>1. CASE Undo(w)
      <3>1. Stored
        BY <2>1 DEF Undo, Stored, KeptInv
      <3>2. \A v \in Workers : pc[v] \notin ApplySteps
        BY <2>1, <3>1 DEF Undo, Inflight, OneProcess
      <3> QED BY <2>1, <3>1, <3>2 DEF Undo, OrigInv
    <2>2. CASE pc[w] \in UndoSteps
      <3>1. status \in {"applied", "undone"}
        BY <2>2 DEF LeftInv
      <3>2. ~ \E v \in Workers : StoreApplying(v) \/ RaiseStored(v) \/ Release(v) \/ StoreApplied(v)
        BY <1>1, <2>2 DEF StoreApplying, RaiseStored, Release, StoreApplied, ApplySteps
      <3>3. ~Propose /\ ~ExpireRecord
        BY <3>1 DEF Propose, ExpireRecord, NoExpiry
      <3> QED BY <3>1, <3>2, <3>3, WhoStores DEF StoreUndone
    <2>3. pc[w] \in UndoSteps \/ Undo(w)
      BY <1>5, UndoFrame DEF LoadSnapshot, RemoveLink, ArchiveCreated, RestoreValue, StoreUndone,
         DropSnapshot, UndoSteps
    <2> QED BY <2>1, <2>2, <2>3
  <1>6. ASSUME NEW w \in Workers, LoadSnapshot(w), pc'[w] \in UndoSteps
        PROVE  /\ Left(undo'[w].links, undo'[w].objects, undo'[w].values)
               /\ pc'[w] = AfterRevert(undo'[w])
    <2>1. undo'[w] = Loaded(undo[w]) /\ snapshot # None /\ undo[w] \in Undos /\ pc[w] \in UndoSteps
      BY <1>6 DEF LoadSnapshot, Return, UndoSteps, TypeInv, TypeOK
    <2>2. /\ undo'[w].links = snapshot.associated /\ undo'[w].objects = snapshot.created
          /\ undo'[w].values = snapshot.original
      BY <2>1 DEF Loaded, Undos
    <2>3. status \in {"applied", "undone"}
      BY <2>1 DEF LeftInv
    <2>4. Left(snapshot.associated, snapshot.created, snapshot.original)
      <3>1. CASE status = "applied"
        BY <3>1 DEF AppliedIsRevertible, Left
      <3>2. CASE status = "undone"
        BY <3>2 DEF LeftInv, Left
      <3> QED BY <2>3, <3>1, <3>2
    <2>5. pc'[w] = AfterRevert(undo'[w])
      BY <1>6, <2>1 DEF LoadSnapshot, Goto, TypeInv, TypeOK
    <2> QED BY <2>2, <2>4, <2>5
  <1>7. ASSUME NEW w \in Workers, pc'[w] \in {"undoing", "undo_store", "undo_drop"}, ~undo'[w].failed
        PROVE  Left(undo[w].links, undo[w].objects, undo[w].values)'
    <2>0. pc'[w] \in UndoSteps
      BY <1>7 DEF UndoSteps
    <2>1. CASE (pc'[w] = pc[w] /\ undo'[w] = undo[w]) \/ StoreUndone(w)
      <3>1. pc[w] \in {"undoing", "undo_store", "undo_drop"} /\ undo'[w] = undo[w]
        BY <1>7, <2>1 DEF StoreUndone
      <3>2. Left(undo[w].links, undo[w].objects, undo[w].values) /\ pc[w] \in UndoSteps
        BY <1>7, <3>1 DEF LeftInv, UndoSteps
      <3>3. PICK L, O, V : L = undo[w].links /\ O = undo[w].objects /\ V = undo[w].values
        OBVIOUS
      <3>4. Left(L, O, V)'
        BY <1>4, <3>2, <3>3
      <3>5. L = undo'[w].links /\ O = undo'[w].objects /\ V = undo'[w].values
        BY <3>1, <3>3
      <3> QED BY <3>4, <3>5 DEF Left
    <2>2. CASE LoadSnapshot(w)
      <3>1. Left(undo'[w].links, undo'[w].objects, undo'[w].values)
        BY <1>6, <2>0, <2>2
      <3> QED BY <2>2, <3>1 DEF LoadSnapshot, Left, Touched
    <2>3. CASE RemoveLink(w) \/ ArchiveCreated(w) \/ RestoreValue(w)
      <3>1. pc[w] = "undoing" /\ pc[w] \in UndoSteps
        BY <2>3 DEF RemoveLink, ArchiveCreated, RestoreValue, UndoSteps
      <3>2. PICK L, O, V : L = undo[w].links /\ O = undo[w].objects /\ V = undo[w].values
        OBVIOUS
      <3>3. ASSUME ~undo[w].failed PROVE Left(L, O, V)'
        <4>1. Left(L, O, V)
          BY <3>1, <3>2, <3>3 DEF LeftInv
        <4> QED BY <1>4, <3>1, <4>1
      <3>4. CASE RemoveLink(w)
        <4>1. PICK p \in L, outcome \in Endings :
                /\ undo'[w].links = L \ {p} /\ undo'[w].objects = O /\ undo'[w].values = V
                /\ undo'[w].failed <=> undo[w].failed \/ outcome # "ok"
                /\ link' = IF outcome \in {"ok", "lost"} THEN [link EXCEPT ![p] = {}] ELSE link
          BY <3>2, <3>4, Reverts
        <4>2. ~undo[w].failed /\ link' = [link EXCEPT ![p] = {}]
          BY <1>7, <4>1
        <4>3. p \in Pairs => link'[p] = {}
          BY <4>2 DEF TypeInv, TypeOK
        <4>4. \A q \in Links : link'[q] = {"new"} => q # p
          BY <4>3 DEF Pairs
        <4> QED BY <3>3, <4>1, <4>2, <4>4 DEF Left
      <3>5. CASE ArchiveCreated(w)
        <4>1. PICK o \in O, outcome \in Endings :
                /\ undo'[w].links = L /\ undo'[w].objects = O \ {o} /\ undo'[w].values = V
                /\ undo'[w].failed <=> undo[w].failed \/ outcome # "ok"
                /\ live' = IF outcome \in {"ok", "lost"} THEN live \ {o} ELSE live
          BY <3>2, <3>5, Reverts
        <4>2. ~undo[w].failed /\ live' = live \ {o}
          BY <1>7, <4>1
        <4> QED BY <3>3, <4>1, <4>2 DEF Left
      <3>6. CASE RestoreValue(w)
        <4>1. PICK u \in V, outcome \in Endings :
                /\ undo'[w].links = L /\ undo'[w].objects = O /\ undo'[w].values = V \ {u}
                /\ undo'[w].failed <=> undo[w].failed \/ outcome # "ok"
                /\ value' = IF outcome \in {"ok", "lost"} THEN [value EXCEPT ![u] = original[u]] ELSE value
          BY <3>2, <3>6, Reverts
        <4>2. ~undo[w].failed /\ value' = [value EXCEPT ![u] = original[u]] /\ writes' = writes
          BY <1>7, <3>6, <4>1 DEF RestoreValue
        <4>3. \A v \in Updates : Touched(v)' /\ value'[v] = "new" => v # u
          BY <1>3, <4>2 DEF Touched, TypeInv, TypeOK
        <4> QED BY <3>3, <4>1, <4>2, <4>3 DEF Left
      <3> QED BY <2>3, <3>4, <3>5, <3>6
    <2>4. ~Undo(w) /\ ~DropSnapshot(w)
      BY <1>7 DEF Undo, DropSnapshot, Goto, TypeInv, TypeOK
    <2> QED BY <2>0, <2>1, <2>2, <2>3, <2>4, UndoFrame
  <1>8. ASSUME NEW w \in Workers, pc'[w] \in {"undo_store", "undo_drop"}
        PROVE  ~undo'[w].failed /\ ~Reverting(undo'[w])
    <2>0. pc'[w] \in UndoSteps
      BY <1>8 DEF UndoSteps
    <2>1. CASE (pc'[w] = pc[w] /\ undo'[w] = undo[w]) \/ StoreUndone(w)
      <3>1. pc[w] \in {"undo_store", "undo_drop"} /\ undo'[w] = undo[w]
        BY <1>8, <2>1 DEF StoreUndone
      <3> QED BY <3>1 DEF LeftInv
    <2>2. CASE LoadSnapshot(w) \/ RemoveLink(w) \/ ArchiveCreated(w) \/ RestoreValue(w)
      <3>1. pc'[w] = AfterRevert(undo'[w])
        BY <1>6, <2>0, <2>2, Reverts
      <3> QED BY <1>8, <3>1 DEF AfterRevert
    <2>3. ~Undo(w) /\ ~DropSnapshot(w)
      BY <1>8 DEF Undo, DropSnapshot, Goto, TypeInv, TypeOK
    <2> QED BY <2>0, <2>1, <2>2, <2>3, UndoFrame
  <1>9. ASSUME status' = "undone" PROVE Left({}, {}, {})'
    <2>1. CASE status = "undone"
      <3>1. \A v \in Workers : pc[v] \notin ApplySteps
        BY <2>1 DEF Phases, AppliesAt, StatusAt
      <3> QED BY <1>2, <1>3, <2>1, <3>1, LeftStays DEF LeftInv
    <2>2. CASE status # "undone"
      <3>1. PICK w \in Workers : StoreUndone(w)
        BY <1>9, <2>2, WhoStores DEF Propose, ExpireRecord, StoreApplying, RaiseStored, Release, StoreApplied
      <3>2. pc[w] = "undo_store" /\ pc[w] \in UndoSteps
        BY <3>1 DEF StoreUndone, UndoSteps
      <3>3. /\ Left(undo[w].links, undo[w].objects, undo[w].values)
            /\ undo[w].links = {} /\ undo[w].objects = {} /\ undo[w].values = {}
        BY <3>2 DEF LeftInv, Reverting
      <3>4. Left({}, {}, {})
        BY <3>3
      <3> QED BY <1>4, <3>2, <3>4
    <2> QED BY <2>1, <2>2
  <1>10. ASSUME reverted' PROVE status' = "undone"
    <2>1. CASE reverted
      <3>1. status = "undone" /\ status' # "gone"
        BY <2>1 DEF LeftInv, KeptInv
      <3>2. status' # status => "gone" \in {status, status'} \/ <<status, status'>> \in Moves
        BY StatusStep
      <3> QED BY <3>1, <3>2 DEF Moves
    <2>2. ASSUME NEW w \in Workers, DropSnapshot(w) PROVE status' = "undone"
      BY <2>2 DEF DropSnapshot, KeptInv, UndoSteps
    <2> QED BY <1>10, <2>1, <2>2, WhoReverts
  <1> QED BY <1>5, <1>7, <1>8, <1>9, <1>10 DEF LeftInv

LEMMA InitLeft == Init => OrigInv /\ LeftInv
  BY DEF Init, OrigInv, LeftInv, Touched, Changing, ApplySteps, UndoSteps, Items, Ops

\* In one process, with a store that keeps its keys and where nothing fails
\* but reads, nothing that the server knows to have written is left after an
\* undo that reports "undone": whatever HubSpot answers, whatever others edit,
\* and however undos overlap (undo_changeset).
THEOREM NothingIsLeft ==
  ASSUME OneProcess, NoExpiry, OnlyReadsFail PROVE Spec => []UndoneLeavesNothing
  <1>1. LeftInv => UndoneLeavesNothing
    BY DEF LeftInv, Left, UndoneLeavesNothing
  <1>2. TypeInv /\ Phases /\ WriteInv /\ OrigInv /\ [Next]_vars => OrigInv'
    BY OrigStep
  <1>3. /\ TypeInv /\ Phases /\ KeptInv /\ KeptInv' /\ AppliedIsRevertible /\ OrigInv /\ LeftInv /\ [Next]_vars
        => LeftInv'
    BY LeftStep
  <1>4. SnapInv => KeptInv
    BY DEF SnapInv
  <1> QED BY <1>1, <1>2, <1>3, <1>4, InitLeft, TypeInvariant, PhaseInvariant, WriteInvariant, SnapInvariant,
          RevertsWhatItApplied, PTL DEF Spec
=============================================================================
