--------------------------- MODULE ChangesetProofs --------------------------
(***************************************************************************)
(* Theorems about Changeset for any ops, requests, outcomes and bounds:     *)
(* its types, the phases its status goes through, and, in one process, what *)
(* an apply writes.                                                         *)
(***************************************************************************)
EXTENDS Changeset, TLAPS

-----------------------------------------------------------------------------
(* Types *)

\* An explicit association is pending or blocked when its turn comes, so its
\* outcome is the outcome of an op.
PairsKnown(r) == r.linking => \A p \in Links : r.pair[p] # "absent"
LinksKnown == \A w \in Workers : pc[w] \in ApplySteps => PairsKnown(run[w])
TypeInv == TypeOK /\ LinksKnown

StoreOK ==
  /\ status \in {"unborn", "pending", "applying", "applied", "undone", "gone"}
  /\ original \in [Updates -> Values]
  /\ result \in [Ops -> OpStatuses] \union {None}
  /\ snapshot \in Snapshots \union {None}
  /\ audit \subseteq {"apply_changes", "undo_changes"}
HubSpotOK ==
  /\ value \in [Updates -> Values]
  /\ live \subseteq Objects
  /\ link \in [Pairs -> SUBSET {"old", "new"}]
  /\ writes \in [Items -> Nat]
WorkersOK ==
  /\ pc \in [Workers -> {"idle"} \union ApplySteps \union UndoSteps]
  /\ run \in [Workers -> Runs \union {None}]
  /\ undo \in [Workers -> Undos \union {None}]
  /\ \A w \in Workers : /\ pc[w] \in ApplySteps => run[w] \in Runs
                        /\ pc[w] \in UndoSteps => undo[w] \in Undos
  /\ LinksKnown
HistoryOK == answered \subseteq Objects /\ reverted \in BOOLEAN
BudgetOK == budget \in [requests : Nat, faults : Nat, edits : Nat]

\* The types in parts that the actions change separately.
LEMMA TypeParts == TypeInv <=> StoreOK /\ HubSpotOK /\ WorkersOK /\ HistoryOK /\ BudgetOK
  BY DEF TypeInv, TypeOK, StoreOK, HubSpotOK, WorkersOK, HistoryOK, BudgetOK
LEMMA NextTypeParts ==
  TypeInv' <=> StoreOK' /\ HubSpotOK' /\ WorkersOK' /\ HistoryOK' /\ BudgetOK'
  BY DEF TypeInv, TypeOK, StoreOK, HubSpotOK, WorkersOK, HistoryOK, BudgetOK

\* A fault, an edit and a new request spend what is left.
LEMMA SpendType ==
  ASSUME BudgetOK
  PROVE  /\ \A w \in Workers : Begin(w) => BudgetOK'
         /\ \A kinds : Fault(kinds) => BudgetOK'
  BY DEF BudgetOK, Begin, Fault

\* A request that ends leaves nothing of itself.
LEMMA ReturnType ==
  ASSUME WorkersOK, NEW w \in Workers, Return(w)
  PROVE  WorkersOK'
  BY DEF WorkersOK, LinksKnown, Return, ApplySteps, UndoSteps

\* An apply that moves on has a run, an undo what it has to revert.
LEMMA ApplyType ==
  ASSUME WorkersOK, NEW w \in Workers, NEW r \in Runs, PairsKnown(r), run' = [run EXCEPT ![w] = r],
         NEW step \in ApplySteps, pc' = [pc EXCEPT ![w] = step], UNCHANGED undo
  PROVE  WorkersOK'
  BY DEF WorkersOK, LinksKnown, ApplySteps, UndoSteps

LEMMA UndoType ==
  ASSUME WorkersOK, NEW w \in Workers, NEW u \in Undos, undo' = [undo EXCEPT ![w] = u],
         NEW step \in UndoSteps, pc' = [pc EXCEPT ![w] = step], UNCHANGED run
  PROVE  WorkersOK'
  BY DEF WorkersOK, LinksKnown, ApplySteps, UndoSteps

\* HubSpot applies a write to what it holds.
LEMMA AppliedType ==
  ASSUME HubSpotOK, NEW S, Applied(S)
  PROVE  HubSpotOK'
  <1>1. writes' \in [Items -> Nat]
    BY DEF HubSpotOK, Applied
  <1>2. value' \in [Updates -> Values]
    BY DEF HubSpotOK, Applied, Values
  <1>3. \A c \in Creates : <<c, writes[c] + 1>> \in Objects
    BY DEF HubSpotOK, Objects, Items, Ops
  <1>4. live' \subseteq Objects
    BY <1>3 DEF HubSpotOK, Applied
  <1>5. link' \in [Pairs -> SUBSET {"old", "new"}]
    BY DEF HubSpotOK, Applied
  <1> QED BY <1>1, <1>2, <1>4, <1>5 DEF HubSpotOK

-----------------------------------------------------------------------------
(* What an apply makes of its run is a run *)

LEMMA RunTypes ==
  ASSUME NEW r \in Runs
  PROVE  /\ \A S \in SUBSET Ops : [r EXCEPT !.attempted = @ \union S] \in Runs
         /\ \A S \in SUBSET Creates : [r EXCEPT !.flushing = S] \in Runs
         /\ \A S \in SUBSET Pairs : [r EXCEPT !.back = S] \in Runs
         /\ \A f \in [Ops -> OpStatuses] : [r EXCEPT !.res = f] \in Runs
  BY DEF Runs

LEMMA FreshRunType == FreshRun \in Runs
  <1>1. [o \in Ops |-> "pending"] \in [Ops -> OpStatuses]
    BY DEF OpStatuses
  <1>2. [p \in Pairs |-> "absent"] \in [Pairs -> PairStatuses]
    BY DEF PairStatuses
  <1> QED BY <1>1, <1>2 DEF FreshRun, Runs

LEMMA VerdictType == \A u \in Updates : Verdict(u) \in {"failed", "unchanged", "ok", "drifted"}
  BY DEF Verdict

LEMMA BelievedType ==
  \A outcome : Believed(outcome) \in {"ok", "failed", "unconfirmed"}
  BY DEF Believed

LEMMA AfterUpdatesType ==
  ASSUME NEW r \in Runs
  PROVE  AfterUpdates(r) \in Runs /\ PlaceOf(r) \in {"updates", "creates"}
  <1>1. [o \in Ops |-> IF o \in Orphans(r) THEN "skipped" ELSE r.res[o]] \in [Ops -> OpStatuses]
    BY DEF Runs, OpStatuses
  <1>2. Orphans(r) \subseteq Ops
    BY DEF Orphans, Ops
  <1> QED BY <1>1, <1>2 DEF Runs, AfterUpdates, PlaceOf

LEMMA WrittenType ==
  ASSUME NEW r \in Runs, NEW batch \in SUBSET Updates, NEW out
  PROVE  Written(r, batch, out) \in Runs
  <1>1. [o \in Ops |-> IF o \in batch THEN Believed(out[o]) ELSE r.res[o]] \in [Ops -> OpStatuses]
    BY BelievedType DEF Runs, OpStatuses, Verdicts
  <1> QED BY <1>1 DEF Runs, Written, Ops

LEMMA CreatedType ==
  ASSUME NEW r \in Runs, NEW c \in Creates, NEW outcome, NEW new \in SUBSET Objects
  PROVE  Created(r, c, outcome, new) \in Runs
  <1>1. [r.res EXCEPT ![c] = Believed(outcome)] \in [Ops -> OpStatuses]
    BY BelievedType DEF Runs, OpStatuses, Verdicts
  <1> QED BY <1>1 DEF Runs, Created, Ops

LEMMA LinkingType ==
  ASSUME NEW r \in Runs
  PROVE  Linking(r) \in Runs
  <1>1. PairsOf(r) \in [Pairs -> PairStatuses]
    BY DEF PairsOf, PairStatuses
  <1> QED BY <1>1 DEF Runs, Linking

LEMMA LookedType ==
  ASSUME NEW r \in Runs, NEW group \in SUBSET Pairs, NEW found \in SUBSET group
  PROVE  Looked(r, group, found) \in Runs
  <1>1. [p \in Pairs |-> IF p \in found \ Labelled THEN "skipped" ELSE r.pair[p]]
           \in [Pairs -> PairStatuses]
    BY DEF Runs, PairStatuses
  <1> QED BY <1>1 DEF Runs, Looked

LEMMA AnsweredType ==
  ASSUME NEW r \in Runs, NEW chunk \in SUBSET Pairs,
         NEW out \in [chunk -> {"ok", "failed", "unconfirmed"}]
  PROVE  Answered(r, out) \in Runs
  <1>1. [p \in Pairs |-> IF p \in DOMAIN out THEN out[p] ELSE r.pair[p]] \in [Pairs -> PairStatuses]
    BY DEF Runs, PairStatuses
  <1> QED BY <1>1 DEF Runs, Answered

LEMMA MarkedType ==
  ASSUME NEW r \in Runs
  PROVE  Marked(r) \in Runs
  <1> DEFINE res == [o \in Ops |->
               IF Unfinished(r, o) THEN IF o \in r.attempted THEN "unconfirmed" ELSE "failed"
               ELSE IF ~r.linking /\ r.res[o] = "ok" /\ \E p \in Nested : Owner[p] = o
               THEN "partial" ELSE r.res[o]]
             pair == [p \in Pairs |-> IF r.pair[p] = "pending" THEN "unconfirmed" ELSE r.pair[p]]
  <1>1. res \in [Ops -> OpStatuses]
    BY DEF Runs, OpStatuses, Verdicts
  <1>2. pair \in [Pairs -> PairStatuses]
    BY DEF Runs, PairStatuses
  <1>3. Marked(r) = IF ~r.interrupted THEN r ELSE [r EXCEPT !.res = res, !.pair = pair]
    BY DEF Marked
  <1> HIDE DEF res, pair
  <1> QED BY <1>1, <1>2, <1>3 DEF Runs

LEMMA FoldedType ==
  ASSUME NEW r \in Runs, PairsKnown(r)
  PROVE  Folded(r) \in Runs /\ PairsKnown(Folded(r))
  <1> DEFINE res == [o \in Ops |->
               IF o \in Links THEN r.pair[o]
               ELSE IF r.res[o] = "ok" /\ \E p \in Nested :
                         Owner[p] = o /\ r.pair[p] \in {"failed", "unconfirmed", "blocked"}
                    THEN "partial" ELSE r.res[o]]
  <1>1. Folded(r) = IF ~r.linking THEN r ELSE [r EXCEPT !.res = res]
    BY DEF Folded
  <1>2. ASSUME r.linking PROVE \A o \in Links : r.pair[o] \in PairStatuses \ {"absent"}
    BY <1>2 DEF PairsKnown, Runs, Pairs
  <1>3. ASSUME r.linking PROVE res \in [Ops -> OpStatuses]
    BY <1>2, <1>3 DEF Runs, OpStatuses, Verdicts, PairStatuses
  <1> HIDE DEF res
  <1> QED BY <1>1, <1>3 DEF Runs, PairsKnown

LEMMA KnownPairs ==
  ASSUME NEW r \in Runs, PairsKnown(r)
  PROVE  /\ PairsKnown(Marked(r))
         /\ PairsKnown(AfterUpdates(r))
         /\ PairsKnown(Linking(r))
         /\ \A S : PairsKnown([r EXCEPT !.attempted = S]) /\ PairsKnown([r EXCEPT !.flushing = S])
                   /\ PairsKnown([r EXCEPT !.back = S]) /\ PairsKnown([r EXCEPT !.res = S])
         /\ \A sent : PairsKnown(Interrupted(r, sent))
         /\ \A batch, out : PairsKnown(Written(r, batch, out))
         /\ \A c, outcome, new : PairsKnown(Created(r, c, outcome, new))
         /\ \A group, found : PairsKnown(Looked(r, group, found))
  <1>1. PairsKnown(Marked(r))
    <2> DEFINE res == [o \in Ops |->
               IF Unfinished(r, o) THEN IF o \in r.attempted THEN "unconfirmed" ELSE "failed"
               ELSE IF ~r.linking /\ r.res[o] = "ok" /\ \E p \in Nested : Owner[p] = o
               THEN "partial" ELSE r.res[o]]
             pair == [p \in Pairs |-> IF r.pair[p] = "pending" THEN "unconfirmed" ELSE r.pair[p]]
    <2>1. Marked(r) = IF ~r.interrupted THEN r ELSE [r EXCEPT !.res = res, !.pair = pair]
      BY DEF Marked
    <2>2. \A p \in Links : pair[p] = "absent" => r.pair[p] = "absent"
      BY DEF Pairs
    <2> HIDE DEF res, pair
    <2> QED BY <2>1, <2>2 DEF Runs, PairsKnown
  <1>2. PairsKnown(AfterUpdates(r))
    BY DEF AfterUpdates, PairsKnown, Runs
  <1>3. PairsKnown(Linking(r))
    BY ChangesetAssumption DEF Linking, PairsOf, PairsKnown, Runs, Pairs
  <1>4. \A S : PairsKnown([r EXCEPT !.attempted = S]) /\ PairsKnown([r EXCEPT !.flushing = S])
                   /\ PairsKnown([r EXCEPT !.back = S]) /\ PairsKnown([r EXCEPT !.res = S])
    BY DEF PairsKnown, Runs
  <1>5. \A sent : PairsKnown(Interrupted(r, sent))
    BY DEF PairsKnown, Runs, Interrupted
  <1>6. \A batch, out : PairsKnown(Written(r, batch, out))
    BY DEF PairsKnown, Runs, Written
  <1>7. \A c, outcome, new : PairsKnown(Created(r, c, outcome, new))
    BY DEF PairsKnown, Runs, Created
  <1>8. \A group, found : PairsKnown(Looked(r, group, found))
    BY DEF PairsKnown, Runs, Looked, Pairs
  <1> QED BY <1>1, <1>2, <1>3, <1>4, <1>5, <1>6, <1>7, <1>8

LEMMA AnsweredPairs ==
  ASSUME NEW r \in Runs, PairsKnown(r), NEW chunk \in SUBSET Pairs,
         NEW out \in [chunk -> {"ok", "failed", "unconfirmed"}]
  PROVE  PairsKnown(Answered(r, out))
  BY DEF PairsKnown, Runs, Answered, Pairs

LEMMA SnapshotType ==
  ASSUME NEW r \in Runs
  PROVE  /\ SnapshotOf(r) \in Snapshots
         /\ StoreOK => Flushed(r) \in Snapshots \union {None}
  <1>1. SnapshotOf(r) \in Snapshots
    BY DEF SnapshotOf, Snapshots, Runs, Associated
  <1>2. ASSUME StoreOK PROVE Flushed(r) \in Snapshots \union {None}
    BY <1>2 DEF StoreOK, Flushed, Snapshots, Runs
  <1> QED BY <1>1, <1>2

\* The run of an apply in flight.
LEMMA InFlight ==
  ASSUME WorkersOK, NEW w \in Workers, pc[w] \in ApplySteps
  PROVE  run[w] \in Runs /\ PairsKnown(run[w])
  BY DEF WorkersOK, LinksKnown

LEMMA UnchangedTypes ==
  /\ StoreOK /\ UNCHANGED store => StoreOK'
  /\ HubSpotOK /\ UNCHANGED hubspot => HubSpotOK'
  /\ WorkersOK /\ UNCHANGED workers => WorkersOK'
  /\ HistoryOK /\ UNCHANGED history => HistoryOK'
  /\ BudgetOK /\ UNCHANGED budget => BudgetOK'
  BY DEF StoreOK, HubSpotOK, WorkersOK, LinksKnown, HistoryOK, BudgetOK,
         store, hubspot, workers, history

\* The types are kept up to the first write of an apply.
LEMMA PrepareTypes ==
  ASSUME TypeInv, NEW w \in Workers,
         Apply(w) \/ Classify(w) \/ StoreApplying(w) \/ SaveSnapshot(w) \/ Release(w)
  PROVE  TypeInv'
  <1> StoreOK /\ HubSpotOK /\ WorkersOK /\ HistoryOK /\ BudgetOK
    BY TypeParts
  <1> USE DEF store, hubspot, workers, history
  <1>1. HubSpotOK' /\ HistoryOK'
    BY UnchangedTypes DEF Apply, Classify, StoreApplying, SaveSnapshot, Release
  <1>2. BudgetOK'
    BY SpendType, UnchangedTypes DEF Apply, Classify, StoreApplying, SaveSnapshot, Release
  <1>3. StoreOK' /\ WorkersOK'
    <2>1. CASE Apply(w)
      <3>1. PairsKnown(FreshRun)
        BY DEF PairsKnown, FreshRun
      <3>2. WorkersOK'
        BY <2>1, <3>1, FreshRunType, ApplyType DEF Apply, Goto, ApplySteps
      <3> QED BY <2>1, <3>2, UnchangedTypes DEF Apply
    <2>2. CASE Classify(w)
      <3>1. PICK u \in Updates : run' = [run EXCEPT ![w] = Classified(run[w], u)]
        BY <2>2 DEF Classify
      <3>2. run[w] \in Runs /\ PairsKnown(run[w])
        BY <2>2, InFlight DEF Classify, ApplySteps
      <3>3. [run[w].res EXCEPT ![u] = Verdict(u)] \in [Ops -> OpStatuses]
        BY <3>2, VerdictType DEF Runs, Ops, OpStatuses, Verdicts
      <3>4. PICK step \in {"classify", "flip"} : Goto(w, step)
        BY <2>2 DEF Classify
      <3>5. Classified(run[w], u) \in Runs /\ PairsKnown(Classified(run[w], u))
        BY <3>2, <3>3, RunTypes, KnownPairs DEF Classified
      <3>6. WorkersOK'
        BY <2>2, <3>1, <3>4, <3>5, ApplyType DEF Classify, Goto, ApplySteps
      <3> QED BY <2>2, <3>6, UnchangedTypes DEF Classify
    <2>3. CASE StoreApplying(w)
      <3>1. run[w] \in Runs /\ PairsKnown(run[w]) /\ run' = [run EXCEPT ![w] = run[w]]
        BY <2>3, InFlight DEF StoreApplying, ApplySteps, WorkersOK
      <3>2. WorkersOK'
        BY <2>3, <3>1, ApplyType DEF StoreApplying, Goto, ApplySteps
      <3> QED BY <2>3, <3>2 DEF StoreApplying, StoreOK
    <2>4. CASE SaveSnapshot(w)
      <3>1. run[w] \in Runs /\ PairsKnown(run[w])
        BY <2>4, InFlight DEF SaveSnapshot, ApplySteps
      <3>2. WorkersOK'
        BY <2>4, <3>1, AfterUpdatesType, KnownPairs, ApplyType DEF SaveSnapshot, Goto, ApplySteps
      <3> QED BY <2>4, <3>1, <3>2, SnapshotType DEF SaveSnapshot, StoreOK
    <2>5. CASE Release(w)
      BY <2>5, ReturnType DEF Release, StoreOK
    <2> QED BY <2>1, <2>2, <2>3, <2>4, <2>5
  <1> QED BY <1>1, <1>2, <1>3, NextTypeParts

\* So they are by the writes of records.
LEMMA RecordTypes ==
  ASSUME TypeInv, NEW w \in Workers,
         WriteUpdates(w) \/ SendCreate(w) \/ AnswerCreate(w) \/ FlushCreated(w) \/ EndCreates(w)
  PROVE  TypeInv'
  <1> StoreOK /\ HubSpotOK /\ WorkersOK /\ HistoryOK /\ BudgetOK
    BY TypeParts
  <1> USE DEF store, hubspot, workers, history
  <1>0. run[w] \in Runs /\ PairsKnown(run[w])
    BY InFlight DEF WriteUpdates, SendCreate, AnswerCreate, FlushCreated, EndCreates, ApplySteps
  <1>1. BudgetOK'
    BY UnchangedTypes DEF WriteUpdates, SendCreate, AnswerCreate, FlushCreated, EndCreates
  <1>2. CASE WriteUpdates(w)
    <2>1. PICK batch, out :
            /\ batch \in SUBSET Remaining(run[w])
            /\ Applied(Landed(out))
            /\ run' = [run EXCEPT ![w] = AfterUpdates(Written(run[w], batch, out))]
            /\ Goto(w, PlaceOf(Written(run[w], batch, out)))
      BY <1>2 DEF WriteUpdates
    <2>2. Written(run[w], batch, out) \in Runs /\ PairsKnown(Written(run[w], batch, out))
      BY <1>0, <2>1, WrittenType, KnownPairs DEF Remaining
    <2>3. WorkersOK'
      BY <1>2, <2>1, <2>2, AfterUpdatesType, KnownPairs, ApplyType DEF WriteUpdates, Goto, ApplySteps
    <2> QED BY <1>1, <1>2, <2>1, <2>3, AppliedType, UnchangedTypes, NextTypeParts DEF WriteUpdates
  <1>3. CASE SendCreate(w)
    <2>1. PICK c \in Creates :
            run' = [run EXCEPT ![w] = Sent(run[w], c)]
      BY <1>3 DEF SendCreate
    <2>2. Sent(run[w], c) \in Runs /\ PairsKnown(Sent(run[w], c))
      BY <1>0 DEF Runs, Ops, PairsKnown, Sent
    <2>3. pc' = [pc EXCEPT ![w] = "creates"]
      BY <1>3 DEF SendCreate, WorkersOK
    <2>4. WorkersOK'
      BY <1>0, <1>3, <2>1, <2>2, <2>3, ApplyType DEF SendCreate, ApplySteps
    <2> QED BY <1>1, <1>3, <2>4, UnchangedTypes, NextTypeParts DEF SendCreate
  <1>4. CASE AnswerCreate(w)
    <2>0. PICK c \in Creates : \E outcome :
            LET new == IF outcome = "ok" THEN {<<c, writes[c] + 1>>} ELSE {} IN
            /\ Applied(Landed([o \in {c} |-> outcome]))
            /\ run' = [run EXCEPT ![w] = Created(run[w], c, outcome, new)]
            /\ answered' = answered \union new
      BY <1>4 DEF AnswerCreate
    <2>1. PICK outcome :
            LET new == IF outcome = "ok" THEN {<<c, writes[c] + 1>>} ELSE {} IN
            /\ Applied(Landed([o \in {c} |-> outcome]))
            /\ run' = [run EXCEPT ![w] = Created(run[w], c, outcome, new)]
            /\ answered' = answered \union new
      BY <2>0
    <2> DEFINE new == IF outcome = "ok" THEN {<<c, writes[c] + 1>>} ELSE {}
    <2>2. new \subseteq Objects
      BY DEF Objects, HubSpotOK, Items, Ops
    <2>7. /\ Applied(Landed([o \in {c} |-> outcome]))
          /\ run' = [run EXCEPT ![w] = Created(run[w], c, outcome, new)]
          /\ answered' = answered \union new
      BY <2>1
    <2> HIDE DEF new
    <2>3. pc' = [pc EXCEPT ![w] = "creates"]
      BY <1>4 DEF AnswerCreate, WorkersOK
    <2>6. Created(run[w], c, outcome, new) \in Runs /\ PairsKnown(Created(run[w], c, outcome, new))
      BY <1>0, <2>2, CreatedType, KnownPairs
    <2>4. WorkersOK'
      BY <1>4, <2>7, <2>3, <2>6, ApplyType DEF AnswerCreate, ApplySteps
    <2>5. HistoryOK'
      BY <1>4, <2>7, <2>2 DEF HistoryOK, AnswerCreate
    <2> QED BY <1>1, <1>4, <2>7, <2>4, <2>5, AppliedType, UnchangedTypes, NextTypeParts DEF AnswerCreate
  <1>5. CASE FlushCreated(w)
    <2>1. PICK c \in Creates :
            run' = [run EXCEPT ![w] = Freed(run[w], c)]
      BY <1>0, <1>5 DEF FlushCreated, Runs
    <2>2. Freed(run[w], c) \in Runs /\ PairsKnown(Freed(run[w], c))
      BY <1>0 DEF Runs, PairsKnown, Freed
    <2>3. pc' = [pc EXCEPT ![w] = "creates"]
      BY <1>5 DEF FlushCreated, WorkersOK
    <2>4. WorkersOK'
      BY <1>0, <1>5, <2>1, <2>2, <2>3, ApplyType DEF FlushCreated, ApplySteps
    <2>5. StoreOK'
      BY <1>0, <1>5, SnapshotType DEF FlushCreated, StoreOK
    <2> QED BY <1>1, <1>5, <2>4, <2>5, UnchangedTypes, NextTypeParts DEF FlushCreated
  <1>6. CASE EndCreates(w)
    <2>1. PICK step \in {"links", "conclude"} : Goto(w, step)
      BY <1>6 DEF EndCreates, PlaceAfterCreates
    <2>2. WorkersOK'
      BY <1>0, <1>6, <2>1, LinkingType, KnownPairs, ApplyType DEF EndCreates, Goto, ApplySteps
    <2>3. StoreOK'
      BY <1>0, <1>6, SnapshotType DEF EndCreates, StoreOK
    <2> QED BY <1>1, <1>6, <2>2, <2>3, UnchangedTypes, NextTypeParts DEF EndCreates
  <1> QED BY <1>2, <1>3, <1>4, <1>5, <1>6

\* By the writes of associations.
LEMMA LinkTypes ==
  ASSUME TypeInv, NEW w \in Workers, ReadLinks(w) \/ WriteLinks(w) \/ ReadBack(w)
  PROVE  TypeInv'
  <1> StoreOK /\ HubSpotOK /\ WorkersOK /\ HistoryOK /\ BudgetOK
    BY TypeParts
  <1> USE DEF store, hubspot, workers, history
  <1>0. run[w] \in Runs /\ PairsKnown(run[w])
    BY InFlight DEF ReadLinks, WriteLinks, ReadBack, ApplySteps
  <1>1. BudgetOK' /\ StoreOK' /\ HistoryOK'
    BY UnchangedTypes DEF ReadLinks, WriteLinks, ReadBack
  <1>2. \A r : AfterChunk(r) \in {"associate", "links", "conclude"}
    BY DEF AfterChunk, PlaceAfterCreates
  <1>3. CASE ReadLinks(w)
    <2>1. PICK group \in (SUBSET {p \in Pairs : run[w].pair[p] = "pending"}) \ {{}} :
            \E found \in {{p \in group : BothExisting(p) /\ link[p] # {}}}
                          \union (IF "read" \in Faults THEN {{}} ELSE {}) :
              /\ run' = [run EXCEPT ![w] = Looked(run[w], group, found)]
              /\ Goto(w, AfterChunk(run'[w]))
      BY <1>3 DEF ReadLinks
    <2>2. PICK found \in SUBSET group :
            /\ run' = [run EXCEPT ![w] = Looked(run[w], group, found)]
            /\ Goto(w, AfterChunk(run'[w]))
      BY <2>1
    <2>3. Looked(run[w], group, found) \in Runs /\ PairsKnown(Looked(run[w], group, found))
      BY <1>0, LookedType, KnownPairs
    <2>4. PICK step \in ApplySteps : pc' = [pc EXCEPT ![w] = step]
      BY <1>2, <2>2 DEF Goto, ApplySteps
    <2>5. WorkersOK'
      BY <1>3, <2>2, <2>3, <2>4, ApplyType DEF ReadLinks
    <2> QED BY <1>1, <1>3, <2>5, UnchangedTypes, NextTypeParts DEF ReadLinks
  <1>4. CASE WriteLinks(w)
    <2>1. PICK chunk \in (SUBSET run[w].todo) \ {{}}, outcome \in Outcomes, S \in SUBSET run[w].todo :
            /\ S \subseteq chunk
            /\ outcome = "ok" => S = chunk
            /\ outcome \in {"failed", "timeout"} => S = {}
            /\ outcome = "partial" => S # chunk
            /\ Applied(S)
            /\ IF outcome = "partial"
               THEN run' = [run EXCEPT ![w] = Unsettled(run[w], chunk)] /\ Goto(w, "readback")
               ELSE /\ run' = [run EXCEPT ![w] =
                         Answered(run[w], [p \in chunk |-> Believed(outcome)])]
                    /\ Goto(w, AfterChunk(run'[w]))
      BY <1>4 DEF WriteLinks
    <2>2. chunk \subseteq Pairs
      BY <1>0 DEF Runs
    <2>3. Unsettled(run[w], chunk) \in Runs /\ PairsKnown(Unsettled(run[w], chunk))
      BY <1>0, <2>2, RunTypes, KnownPairs DEF Unsettled
    <2> DEFINE out == [p \in chunk |-> Believed(outcome)]
    <2>4. out \in [chunk -> {"ok", "failed", "unconfirmed"}]
      BY BelievedType
    <2>5. Answered(run[w], out) \in Runs /\ PairsKnown(Answered(run[w], out))
      BY <1>0, <2>2, <2>4, AnsweredType, AnsweredPairs
    <2>6. PICK r \in Runs, step \in ApplySteps :
            PairsKnown(r) /\ run' = [run EXCEPT ![w] = r] /\ pc' = [pc EXCEPT ![w] = step]
      <3>1. CASE outcome = "partial"
        BY <2>1, <2>3, <3>1 DEF Goto, ApplySteps
      <3>2. CASE outcome # "partial"
        <4>1. run' = [run EXCEPT ![w] = Answered(run[w], out)] /\ Goto(w, AfterChunk(run'[w]))
          BY <2>1, <3>2
        <4>2. PICK step \in ApplySteps : pc' = [pc EXCEPT ![w] = step]
          BY <1>2, <4>1 DEF Goto, ApplySteps
        <4> QED BY <2>5, <4>1, <4>2
      <3> QED BY <3>1, <3>2
    <2>7. WorkersOK'
      BY <1>4, <2>6, ApplyType DEF WriteLinks
    <2> QED BY <1>1, <1>4, <2>1, <2>7, AppliedType, NextTypeParts DEF WriteLinks
  <1>5. CASE ReadBack(w)
    <2> DEFINE chunk == run[w].back
    <2>1. PICK out : /\ out = SeenLinked(chunk) \/ out = [p \in chunk |-> "unconfirmed"]
                     /\ run' = [run EXCEPT ![w] = Answered(run[w], out)]
      BY <1>5 DEF ReadBack
    <2>2. out \in [chunk -> {"ok", "failed", "unconfirmed"}]
      BY <2>1 DEF SeenLinked
    <2>3. Answered(run[w], out) \in Runs /\ PairsKnown(Answered(run[w], out))
      BY <1>0, <2>2, AnsweredType, AnsweredPairs DEF Runs
    <2>4. PICK step \in ApplySteps : pc' = [pc EXCEPT ![w] = step]
      BY <1>2, <1>5 DEF Goto, ApplySteps, ReadBack
    <2>5. WorkersOK'
      BY <1>5, <2>1, <2>3, <2>4, ApplyType DEF ReadBack
    <2> QED BY <1>1, <1>5, <2>5, UnchangedTypes, NextTypeParts DEF ReadBack
  <1> QED BY <1>3, <1>4, <1>5

\* And when the apply concludes.
LEMMA ConcludeTypes ==
  ASSUME TypeInv, NEW w \in Workers, SaveOutcome(w) \/ StoreApplied(w) \/ AuditApply(w)
  PROVE  TypeInv'
  <1> StoreOK /\ HubSpotOK /\ WorkersOK /\ HistoryOK /\ BudgetOK
    BY TypeParts
  <1> USE DEF store, hubspot, workers, history
  <1>0. run[w] \in Runs /\ PairsKnown(run[w])
    BY InFlight DEF SaveOutcome, StoreApplied, AuditApply, ApplySteps
  <1>1. BudgetOK' /\ HubSpotOK' /\ HistoryOK'
    BY UnchangedTypes DEF SaveOutcome, StoreApplied, AuditApply
  <1>2. CASE SaveOutcome(w)
    <2> DEFINE r == Folded(Marked(run[w]))
    <2>1. r \in Runs /\ PairsKnown(r)
      BY <1>0, MarkedType, KnownPairs, FoldedType
    <2>2. WorkersOK'
      BY <1>2, <2>1, ApplyType DEF SaveOutcome, Goto, ApplySteps
    <2>3. StoreOK'
      BY <1>2, <2>1, SnapshotType DEF SaveOutcome, StoreOK
    <2> QED BY <1>1, <2>2, <2>3, NextTypeParts
  <1>3. CASE StoreApplied(w)
    <2>1. run' = [run EXCEPT ![w] = run[w]]
      BY <1>3 DEF StoreApplied, WorkersOK
    <2>2. WorkersOK'
      BY <1>0, <1>3, <2>1, ApplyType DEF StoreApplied, Goto, ApplySteps
    <2>3. StoreOK'
      BY <1>0, <1>3 DEF StoreApplied, StoreOK, Runs
    <2> QED BY <1>1, <2>2, <2>3, NextTypeParts
  <1>4. CASE AuditApply(w)
    BY <1>1, <1>4, ReturnType, NextTypeParts DEF AuditApply, StoreOK
  <1> QED BY <1>2, <1>3, <1>4

-----------------------------------------------------------------------------
(* The types are kept by an undo, by what goes wrong and by others *)

LEMMA UndoTypes ==
  ASSUME TypeInv, NEW w \in Workers,
         Undo(w) \/ LoadSnapshot(w) \/ RemoveLink(w) \/ ArchiveCreated(w) \/ RestoreValue(w)
           \/ StoreUndone(w) \/ DropSnapshot(w) \/ AuditUndo(w)
  PROVE  TypeInv'
  <1> StoreOK /\ HubSpotOK /\ WorkersOK /\ HistoryOK /\ BudgetOK
    BY TypeParts
  <1> USE DEF store, hubspot, workers, history
  <1>0. \A u : AfterRevert(u) \in {"undoing", "undo_audit", "undo_store", "undo_drop"}
    BY DEF AfterRevert
  <1>1. BudgetOK'
    BY UnchangedTypes, SpendType DEF Undo, LoadSnapshot, RemoveLink, ArchiveCreated, RestoreValue,
         StoreUndone, DropSnapshot, AuditUndo
  <1>2. CASE Undo(w)
    <2> DEFINE u == [links |-> {}, objects |-> {}, values |-> {}, failed |-> FALSE,
                     known |-> Stored, result |-> result]
    <2>1. u \in Undos
      BY DEF Undos, StoreOK, Stored
    <2>2. run' = run /\ undo' = [undo EXCEPT ![w] = u] /\ pc' = [pc EXCEPT ![w] = "undo_load"]
      BY <1>2 DEF Undo, Goto
    <2> HIDE DEF u
    <2>3. WorkersOK'
      BY <2>1, <2>2, UndoType DEF UndoSteps
    <2> QED BY <1>1, <1>2, <2>3, UnchangedTypes, NextTypeParts DEF Undo
  <1>3. CASE LoadSnapshot(w)
    <2>1. CASE Return(w)
      BY <1>1, <1>3, <2>1, ReturnType, UnchangedTypes, NextTypeParts DEF LoadSnapshot
    <2>2. CASE snapshot # None
      <3>1. snapshot \in Snapshots /\ undo[w] \in Undos
        BY <1>3, <2>2 DEF StoreOK, LoadSnapshot, WorkersOK, UndoSteps
      <3>2. Loaded(undo[w]) \in Undos
        BY <3>1 DEF Loaded, Undos, Snapshots
      <3>3. /\ run' = run /\ undo' = [undo EXCEPT ![w] = Loaded(undo[w])]
            /\ Goto(w, AfterRevert(undo'[w]))
        BY <1>3, <2>2 DEF LoadSnapshot
      <3>4. PICK step \in UndoSteps : pc' = [pc EXCEPT ![w] = step]
        BY <1>0, <3>3 DEF Goto, UndoSteps
      <3>5. WorkersOK'
        BY <3>2, <3>3, <3>4, UndoType
      <3> QED BY <1>1, <1>3, <3>5, UnchangedTypes, NextTypeParts DEF LoadSnapshot
    <2> QED BY <1>3, <2>1, <2>2 DEF LoadSnapshot
  <1>4. ASSUME NEW u \in Undos, NEW outcome, Reverted(w, u, outcome), run' = run PROVE WorkersOK'
    <2>1. Tried(u, outcome) \in Undos
      BY DEF Tried, Undos
    <2>2. PICK step \in UndoSteps : pc' = [pc EXCEPT ![w] = step]
      BY <1>0, <1>4 DEF Reverted, Goto, UndoSteps
    <2> QED BY <1>4, <2>1, <2>2, UndoType DEF Reverted
  <1>5. CASE RemoveLink(w)
    <2>0. undo[w] \in Undos
      BY <1>5 DEF RemoveLink, WorkersOK, UndoSteps
    <2>1. PICK p \in undo[w].links, outcome \in Outcomes \ {"partial"} :
            /\ link' = IF outcome \in {"ok", "lost"} THEN [link EXCEPT ![p] = {}] ELSE link
            /\ Reverted(w, [undo[w] EXCEPT !.links = @ \ {p}], outcome)
      BY <1>5 DEF RemoveLink
    <2>2. [undo[w] EXCEPT !.links = @ \ {p}] \in Undos
      BY <2>0 DEF Undos
    <2>3. HubSpotOK'
      BY <1>5, <2>1 DEF HubSpotOK, RemoveLink
    <2> QED BY <1>1, <1>4, <1>5, <2>1, <2>2, <2>3, UnchangedTypes, NextTypeParts DEF RemoveLink
  <1>6. CASE ArchiveCreated(w)
    <2>0. undo[w] \in Undos
      BY <1>6 DEF ArchiveCreated, WorkersOK, UndoSteps
    <2>1. PICK o \in undo[w].objects, outcome \in Outcomes \ {"partial"} :
            /\ live' = IF outcome \in {"ok", "lost"} THEN live \ {o} ELSE live
            /\ Reverted(w, [undo[w] EXCEPT !.objects = @ \ {o}], outcome)
      BY <1>6 DEF ArchiveCreated
    <2>2. [undo[w] EXCEPT !.objects = @ \ {o}] \in Undos
      BY <2>0 DEF Undos
    <2>3. HubSpotOK'
      BY <1>6, <2>1 DEF HubSpotOK, ArchiveCreated
    <2> QED BY <1>1, <1>4, <1>6, <2>1, <2>2, <2>3, UnchangedTypes, NextTypeParts DEF ArchiveCreated
  <1>7. CASE RestoreValue(w)
    <2>0. undo[w] \in Undos
      BY <1>7 DEF RestoreValue, WorkersOK, UndoSteps
    <2>1. PICK u \in undo[w].values, outcome \in Outcomes \union {"failed"} :
            /\ value' = IF outcome \in {"ok", "lost"} THEN [value EXCEPT ![u] = original[u]] ELSE value
            /\ Reverted(w, [undo[w] EXCEPT !.values = @ \ {u}], outcome)
      BY <1>7 DEF RestoreValue, Answers
    <2>2. [undo[w] EXCEPT !.values = @ \ {u}] \in Undos
      BY <2>0 DEF Undos
    <2>3. u \in Updates
      BY <2>0 DEF Undos
    <2>4. HubSpotOK'
      BY <1>7, <2>1, <2>3 DEF HubSpotOK, RestoreValue, StoreOK
    <2> QED BY <1>1, <1>4, <1>7, <2>1, <2>2, <2>4, UnchangedTypes, NextTypeParts DEF RestoreValue
  <1>8. CASE StoreUndone(w) \/ DropSnapshot(w)
    <2>0. undo[w] \in Undos /\ undo' = [undo EXCEPT ![w] = undo[w]] /\ run' = run
      BY <1>8 DEF StoreUndone, DropSnapshot, WorkersOK, UndoSteps
    <2>1. PICK step \in UndoSteps : pc' = [pc EXCEPT ![w] = step]
      BY <1>8 DEF StoreUndone, DropSnapshot, UndoSteps, Goto
    <2>2. WorkersOK'
      BY <2>0, <2>1, UndoType
    <2>3. StoreOK'
      BY <1>8, <2>0 DEF StoreUndone, DropSnapshot, StoreOK, Undos
    <2>4. HistoryOK' /\ HubSpotOK'
      BY <1>8 DEF StoreUndone, DropSnapshot, HistoryOK, HubSpotOK
    <2> QED BY <1>1, <2>2, <2>3, <2>4, NextTypeParts
  <1>9. CASE AuditUndo(w)
    BY <1>1, <1>9, ReturnType, UnchangedTypes, NextTypeParts DEF AuditUndo, StoreOK
  <1> QED BY <1>2, <1>3, <1>5, <1>6, <1>7, <1>8, <1>9

LEMMA FaultTypes ==
  ASSUME TypeInv, NEW w \in Workers,
         Raise(w) \/ RaiseStored(w) \/ FailSnapshot(w) \/ Interrupt(w) \/ Kill(w)
  PROVE  TypeInv'
  <1> StoreOK /\ HubSpotOK /\ WorkersOK /\ HistoryOK /\ BudgetOK
    BY TypeParts
  <1> USE DEF store, hubspot, workers, history
  <1>1. BudgetOK'
    BY SpendType DEF Raise, RaiseStored, FailSnapshot, Interrupt, Kill
  <1>2. CASE Raise(w) \/ RaiseStored(w)
    BY <1>1, <1>2, ReturnType, UnchangedTypes, NextTypeParts DEF Raise, RaiseStored, StoreOK
  <1>3. CASE FailSnapshot(w)
    <2>1. run[w] \in Runs /\ PairsKnown(run[w]) /\ run' = [run EXCEPT ![w] = run[w]]
      BY <1>3, InFlight DEF FailSnapshot, ApplySteps, WorkersOK
    <2>2. WorkersOK'
      BY <1>3, <2>1, ApplyType DEF FailSnapshot, Goto, ApplySteps
    <2>3. StoreOK'
      BY <1>3, <2>1, SnapshotType DEF FailSnapshot, StoreOK
    <2> QED BY <1>1, <1>3, <2>2, <2>3, UnchangedTypes, NextTypeParts DEF FailSnapshot
  <1>4. CASE Interrupt(w)
    <2>0. run[w] \in Runs /\ PairsKnown(run[w])
      BY <1>4, InFlight DEF Interrupt, WritingSteps, ApplySteps
    <2>1. PICK sent, S : Applied(S) /\ run' = [run EXCEPT ![w] = Interrupted(run[w], sent)]
      BY <1>4 DEF Interrupt
    <2>2. Interrupted(run[w], sent) \in Runs /\ PairsKnown(Interrupted(run[w], sent))
      BY <2>0, KnownPairs DEF Interrupted, Runs, Ops
    <2>3. WorkersOK'
      BY <1>4, <2>1, <2>2, ApplyType DEF Interrupt, Goto, ApplySteps
    <2> QED BY <1>1, <1>4, <2>1, <2>3, AppliedType, UnchangedTypes, NextTypeParts DEF Interrupt
  <1>5. CASE Kill(w)
    <2>1. PICK dead \in SUBSET Workers :
            /\ pc' = [v \in Workers |-> IF v \in dead THEN "idle" ELSE pc[v]]
            /\ run' = [v \in Workers |-> IF v \in dead THEN None ELSE run[v]]
            /\ undo' = [v \in Workers |-> IF v \in dead THEN None ELSE undo[v]]
      BY <1>5 DEF Kill
    <2>2. WorkersOK'
      BY <2>1 DEF WorkersOK, LinksKnown, ApplySteps, UndoSteps
    <2> QED BY <1>1, <1>5, <2>2, UnchangedTypes, NextTypeParts DEF Kill
  <1> QED BY <1>2, <1>3, <1>4, <1>5

LEMMA OtherTypes ==
  ASSUME TypeInv, Propose \/ ExpireRecord \/ ExpireSnapshot \/ Edit \/ UNCHANGED vars
  PROVE  TypeInv'
  <1> StoreOK /\ HubSpotOK /\ WorkersOK /\ HistoryOK /\ BudgetOK
    BY TypeParts
  <1> USE DEF store, hubspot, workers, history
  <1>1. CASE Propose
    BY <1>1, UnchangedTypes, NextTypeParts DEF Propose, StoreOK, HubSpotOK
  <1>2. CASE ExpireRecord \/ ExpireSnapshot
    BY <1>2, UnchangedTypes, NextTypeParts DEF ExpireRecord, ExpireSnapshot, StoreOK
  <1>3. CASE Edit
    <2>1. BudgetOK'
      BY <1>3 DEF Edit, BudgetOK
    <2>2. HubSpotOK'
      BY <1>3 DEF Edit, HubSpotOK, Values
    <2> QED BY <1>3, <2>1, <2>2, UnchangedTypes, NextTypeParts DEF Edit
  <1>4. CASE UNCHANGED vars
    BY <1>4, UnchangedTypes, NextTypeParts DEF vars
  <1> QED BY <1>1, <1>2, <1>3, <1>4

LEMMA TypeStep == TypeInv /\ [Next]_vars => TypeInv'
  BY PrepareTypes, RecordTypes, LinkTypes, ConcludeTypes, UndoTypes, FaultTypes, OtherTypes
     DEF Next, Step

LEMMA InitTypes == Init => TypeInv
  <1> SUFFICES ASSUME Init PROVE TypeInv
    OBVIOUS
  <1> USE DEF Init
  <1>1. StoreOK
    BY DEF StoreOK, Values
  <1>2. HubSpotOK
    <2>1. link \in [Pairs -> SUBSET {"old", "new"}]
      OBVIOUS
    <2> QED BY <2>1 DEF HubSpotOK, Values
  <1>3. WorkersOK
    BY DEF WorkersOK, LinksKnown, ApplySteps, UndoSteps
  <1>4. HistoryOK /\ BudgetOK
    BY ChangesetAssumption DEF HistoryOK, BudgetOK
  <1> QED BY <1>1, <1>2, <1>3, <1>4, TypeParts

LEMMA TypeInvariant == Spec => []TypeInv
  BY InitTypes, TypeStep, PTL DEF Spec

\* Every reachable state is well typed; in particular what the server stores
\* under a changeset is always a status per op (changes.py).
THEOREM TypeCorrect == Spec => []TypeOK
  <1>1. TypeInv => TypeOK
    BY DEF TypeInv
  <1> QED BY <1>1, TypeInvariant, PTL

-----------------------------------------------------------------------------
(* The phases of a changeset, in one process *)

OneProcess == \A v, w \in Workers : Process[v] = Process[w]

\* The claim in _inflight lets one apply in.  Where it is and what is stored go
\* together; an undo of a stored record meets no apply.
OneApply == \A v, w \in Workers : pc[v] \in ApplySteps /\ pc[w] \in ApplySteps => v = w
StatusAt(step) ==
  CASE step \in {"classify", "flip"} -> {"pending", "gone"}
    [] step = "apply_audit" -> {"applied"}
    [] OTHER -> {"applying"}
AppliesAt == \A w \in Workers : pc[w] \in ApplySteps => status \in StatusAt(pc[w])
UndoesAlone ==
  \A w \in Workers : pc[w] \in UndoSteps /\ undo[w].known =>
    /\ status \in {"applying", "applied", "undone", "gone"}
    /\ \A v \in Workers : pc[v] \notin ApplySteps
KnownStored == \A w \in Workers : pc[w] = "undo_store" => undo[w].known
Phases == OneApply /\ AppliesAt /\ UndoesAlone /\ KnownStored

\* What an apply does concerns the one apply there is.
LEMMA ApplyPhases ==
  ASSUME TypeInv, Phases, NEW w \in Workers, pc[w] \in ApplySteps,
         NEW step \in ApplySteps \union {"idle"}, pc' = [pc EXCEPT ![w] = step],
         \A v \in Workers \ {w} : undo'[v] = undo[v],
         step # "idle" => status' \in StatusAt(step)
  PROVE  Phases'
  <1> USE DEF TypeInv, TypeOK, Phases
  <1>1. \A v \in Workers \ {w} : pc'[v] = pc[v] /\ pc[v] \notin ApplySteps
    BY DEF OneApply
  <1>2. pc'[w] = step
    OBVIOUS
  <1>3. OneApply' /\ AppliesAt'
    <2>1. \A v \in Workers : pc'[v] \in ApplySteps => v = w
      BY <1>1
    <2>2. pc'[w] \in ApplySteps => status' \in StatusAt(pc'[w])
      BY <1>2 DEF ApplySteps
    <2> QED BY <2>1, <2>2 DEF OneApply, AppliesAt
  <1>4. \A v \in Workers : pc'[v] \in UndoSteps => pc[v] \in UndoSteps /\ v # w
    BY <1>1, <1>2 DEF ApplySteps, UndoSteps
  <1>5. UndoesAlone' /\ KnownStored'
    BY <1>1, <1>4 DEF UndoesAlone, KnownStored, UndoSteps
  <1> QED BY <1>3, <1>5

\* An undo that goes on remembers whether the record was there.
LEMMA UndoPhases ==
  ASSUME TypeInv, Phases, NEW w \in Workers, pc[w] \in UndoSteps,
         NEW step \in UndoSteps \union {"idle"}, pc' = [pc EXCEPT ![w] = step],
         \A v \in Workers \ {w} : undo'[v] = undo[v],
         step # "idle" => undo'[w].known = undo[w].known,
         step = "undo_store" => undo[w].known,
         status' = status \/ (undo[w].known /\ status' = "undone")
  PROVE  Phases'
  <1> USE DEF TypeInv, TypeOK, Phases
  <1>1. \A v \in Workers \ {w} : pc'[v] = pc[v]
    OBVIOUS
  <1>2. pc'[w] = step
    OBVIOUS
  <1>3. \A v \in Workers : pc'[v] \in ApplySteps => pc[v] \in ApplySteps /\ pc'[v] = pc[v]
    BY <1>1, <1>2 DEF ApplySteps, UndoSteps
  <1>4. OneApply' /\ AppliesAt'
    BY <1>3 DEF OneApply, AppliesAt, UndoesAlone
  <1>5. \A v \in Workers : pc'[v] \in UndoSteps =>
           pc[v] \in UndoSteps /\ undo'[v].known = undo[v].known
    BY <1>1, <1>2 DEF UndoSteps
  <1>6. UndoesAlone'
    BY <1>3, <1>5 DEF UndoesAlone
  <1>7. KnownStored'
    BY <1>1, <1>2 DEF KnownStored
  <1> QED BY <1>4, <1>6, <1>7

LEMMA ApplyPhaseStep ==
  ASSUME TypeInv, Phases, NEW w \in Workers,
         \/ Classify(w) \/ StoreApplying(w) \/ SaveSnapshot(w) \/ Release(w) \/ WriteUpdates(w)
         \/ SendCreate(w) \/ AnswerCreate(w) \/ FlushCreated(w) \/ EndCreates(w)
         \/ ReadLinks(w) \/ WriteLinks(w) \/ ReadBack(w)
         \/ SaveOutcome(w) \/ StoreApplied(w) \/ AuditApply(w)
         \/ RaiseStored(w) \/ FailSnapshot(w) \/ Interrupt(w)
  PROVE  Phases'
  <1> USE DEF TypeInv, TypeOK, store, hubspot, workers, history, Goto
  <1>0. pc[w] \in ApplySteps /\ status \in StatusAt(pc[w])
    BY DEF Phases, AppliesAt, ApplySteps, WritingSteps, Classify, StoreApplying, SaveSnapshot, Release,
       WriteUpdates, SendCreate, AnswerCreate, FlushCreated, EndCreates, ReadLinks, WriteLinks, ReadBack,
       SaveOutcome, StoreApplied, AuditApply, RaiseStored, FailSnapshot, Interrupt
  <1>1. CASE Classify(w)
    <2>1. PICK step \in {"classify", "flip"} : pc' = [pc EXCEPT ![w] = step]
      BY <1>1 DEF Classify
    <2>2. status' \in StatusAt(step) /\ undo' = undo
      BY <1>0, <1>1, <2>1 DEF Classify, StatusAt
    <2> QED BY <1>0, <2>1, <2>2, ApplyPhases DEF ApplySteps
  <1>2. CASE StoreApplying(w)
    BY <1>0, <1>2, ApplyPhases DEF StoreApplying, StatusAt, ApplySteps
  <1>3. CASE Release(w) \/ AuditApply(w) \/ RaiseStored(w)
    <2>1. pc' = [pc EXCEPT ![w] = "idle"] /\ \A v \in Workers \ {w} : undo'[v] = undo[v]
      BY <1>3 DEF Release, AuditApply, RaiseStored, Return
    <2> QED BY <1>0, <2>1, ApplyPhases
  <1>4. CASE StoreApplied(w)
    BY <1>0, <1>4, ApplyPhases DEF StoreApplied, StatusAt, ApplySteps
  <1>5. ASSUME NEW step \in ApplySteps \ {"classify", "flip", "apply_audit"}, Goto(w, step),
               status' = status, undo' = undo, pc[w] \notin {"classify", "flip", "apply_audit"}
        PROVE  Phases'
    <2>1. status' \in StatusAt(step)
      BY <1>0, <1>5 DEF StatusAt
    <2> QED BY <1>0, <1>5, <2>1, ApplyPhases
  <1>6. CASE SaveSnapshot(w)
    BY <1>5, <1>6 DEF SaveSnapshot, PlaceOf, ApplySteps
  <1>7. CASE WriteUpdates(w)
    <2>1. PICK step \in {"updates", "creates"} : Goto(w, step)
      BY <1>7 DEF WriteUpdates, PlaceOf
    <2> QED BY <1>5, <1>7, <2>1 DEF WriteUpdates, ApplySteps
  <1>8. CASE SendCreate(w) \/ AnswerCreate(w) \/ FlushCreated(w)
    <2>1. Goto(w, "creates") /\ status' = status /\ undo' = undo /\ pc[w] = "creates"
      BY <1>8 DEF SendCreate, AnswerCreate, FlushCreated
    <2> QED BY <1>5, <2>1 DEF ApplySteps
  <1>9. CASE EndCreates(w) \/ ReadLinks(w) \/ WriteLinks(w) \/ ReadBack(w)
    <2>1. \E step \in {"links", "associate", "readback", "conclude"} : Goto(w, step)
      BY <1>9 DEF EndCreates, ReadLinks, WriteLinks, ReadBack, AfterChunk, PlaceAfterCreates
    <2>2. status' = status /\ undo' = undo /\ pc[w] \notin {"classify", "flip", "apply_audit"}
      BY <1>9 DEF EndCreates, ReadLinks, WriteLinks, ReadBack
    <2> QED BY <1>5, <2>1, <2>2 DEF ApplySteps
  <1>10. CASE SaveOutcome(w) \/ FailSnapshot(w) \/ Interrupt(w)
    BY <1>5, <1>10 DEF SaveOutcome, FailSnapshot, Interrupt, ApplySteps, WritingSteps
  <1> QED BY <1>1, <1>2, <1>3, <1>4, <1>6, <1>7, <1>8, <1>9, <1>10

LEMMA UndoPhaseStep ==
  ASSUME TypeInv, Phases, NEW w \in Workers,
         \/ LoadSnapshot(w) \/ RemoveLink(w) \/ ArchiveCreated(w) \/ RestoreValue(w)
         \/ StoreUndone(w) \/ DropSnapshot(w) \/ AuditUndo(w)
  PROVE  Phases'
  <1> USE DEF TypeInv, TypeOK, store, hubspot, workers, history, Goto
  <1>0. pc[w] \in UndoSteps /\ undo[w] \in Undos
    BY DEF UndoSteps, LoadSnapshot, RemoveLink, ArchiveCreated, RestoreValue, StoreUndone,
           DropSnapshot, AuditUndo
  <1>1. ASSUME NEW u \in Undos, u.known = undo[w].known, undo' = [undo EXCEPT ![w] = u],
               Goto(w, AfterRevert(undo'[w])), status' = status
        PROVE  Phases'
    <2>1. AfterRevert(u) \in UndoSteps /\ (AfterRevert(u) = "undo_store" => u.known)
      BY DEF AfterRevert, UndoSteps
    <2>2. undo'[w] = u
      BY <1>1
    <2> QED BY <1>0, <1>1, <2>1, <2>2, UndoPhases
  <1>2. CASE LoadSnapshot(w)
    <2>1. CASE Return(w)
      BY <1>0, <1>2, <2>1, UndoPhases DEF LoadSnapshot, Return
    <2>2. CASE snapshot # None
      <3>1. Loaded(undo[w]) \in Undos /\ Loaded(undo[w]).known = undo[w].known
        BY <1>0, <2>2 DEF Loaded, Undos, Snapshots
      <3> QED BY <1>1, <1>2, <2>2, <3>1 DEF LoadSnapshot
    <2> QED BY <1>2, <2>1, <2>2 DEF LoadSnapshot
  <1>3. ASSUME NEW u \in Undos, NEW outcome, u.known = undo[w].known, Reverted(w, u, outcome),
               status' = status
        PROVE  Phases'
    <2>1. Tried(u, outcome) \in Undos /\ Tried(u, outcome).known = u.known
      BY DEF Tried, Undos
    <2> QED BY <1>1, <1>3, <2>1 DEF Reverted
  <1>4. CASE RemoveLink(w)
    <2>1. PICK p, outcome : Reverted(w, [undo[w] EXCEPT !.links = @ \ {p}], outcome)
      BY <1>4 DEF RemoveLink
    <2>2. [undo[w] EXCEPT !.links = @ \ {p}] \in Undos
      BY <1>0 DEF Undos
    <2>3. [undo[w] EXCEPT !.links = @ \ {p}].known = undo[w].known /\ status' = status
      BY <1>0, <1>4 DEF Undos, RemoveLink
    <2> QED BY <1>3, <2>1, <2>2, <2>3
  <1>5. CASE ArchiveCreated(w)
    <2>1. PICK o, outcome : Reverted(w, [undo[w] EXCEPT !.objects = @ \ {o}], outcome)
      BY <1>5 DEF ArchiveCreated
    <2>2. [undo[w] EXCEPT !.objects = @ \ {o}] \in Undos
      BY <1>0 DEF Undos
    <2>3. [undo[w] EXCEPT !.objects = @ \ {o}].known = undo[w].known /\ status' = status
      BY <1>0, <1>5 DEF Undos, ArchiveCreated
    <2> QED BY <1>3, <2>1, <2>2, <2>3
  <1>6. CASE RestoreValue(w)
    <2>1. PICK u, outcome : Reverted(w, [undo[w] EXCEPT !.values = @ \ {u}], outcome)
      BY <1>6 DEF RestoreValue
    <2>2. [undo[w] EXCEPT !.values = @ \ {u}] \in Undos
      BY <1>0 DEF Undos
    <2>3. [undo[w] EXCEPT !.values = @ \ {u}].known = undo[w].known /\ status' = status
      BY <1>0, <1>6 DEF Undos, RestoreValue
    <2> QED BY <1>3, <2>1, <2>2, <2>3
  <1>7. CASE StoreUndone(w) \/ DropSnapshot(w)
    <2>1. PICK step \in {"undo_drop", "undo_audit"} : pc' = [pc EXCEPT ![w] = step]
      BY <1>7 DEF StoreUndone, DropSnapshot
    <2>2. undo' = undo
      BY <1>7 DEF StoreUndone, DropSnapshot
    <2>3. status' = status \/ (undo[w].known /\ status' = "undone")
      BY <1>7 DEF StoreUndone, DropSnapshot, Phases, KnownStored
    <2> QED BY <1>0, <2>1, <2>2, <2>3, UndoPhases DEF UndoSteps
  <1>8. CASE AuditUndo(w)
    BY <1>0, <1>8, UndoPhases DEF AuditUndo, Return
  <1> QED BY <1>2, <1>4, <1>5, <1>6, <1>7, <1>8

\* Both begin where neither an apply runs nor, for an apply, an undo could.
LEMMA BeginPhaseStep ==
  ASSUME TypeInv, Phases, OneProcess, NEW w \in Workers, Apply(w) \/ Undo(w)
  PROVE  Phases'
  <1> USE DEF TypeInv, TypeOK, store, hubspot, workers, history, Goto, Phases
  <1>1. CASE Apply(w)
    <2>1. \A v \in Workers : pc[v] \notin ApplySteps
      BY <1>1 DEF Apply, Inflight, OneProcess
    <2>2. PICK step \in {"classify", "flip"} : pc' = [pc EXCEPT ![w] = step]
      BY <1>1 DEF Apply
    <2>3. status = "pending" /\ status' = "pending" /\ undo' = undo
      BY <1>1 DEF Apply
    <2>4. OneApply' /\ AppliesAt'
      BY <2>1, <2>2, <2>3 DEF OneApply, AppliesAt, StatusAt
    <2>5. UndoesAlone' /\ KnownStored'
      BY <2>2, <2>3 DEF UndoesAlone, KnownStored, UndoSteps
    <2> QED BY <2>4, <2>5
  <1>2. CASE Undo(w)
    <2>1. Stored => status \in {"applied", "applying"} /\ \A v \in Workers : pc[v] \notin ApplySteps
      BY <1>2 DEF Undo, Inflight, OneProcess
    <2>2. pc' = [pc EXCEPT ![w] = "undo_load"] /\ status' = status /\ pc[w] = "idle"
      BY <1>2 DEF Undo, Begin
    <2>3. undo'[w].known = Stored /\ \A v \in Workers \ {w} : undo'[v] = undo[v]
      BY <1>2 DEF Undo
    <2>4. OneApply' /\ AppliesAt'
      BY <2>2 DEF OneApply, AppliesAt, ApplySteps
    <2>5. \A v \in Workers : pc'[v] \in ApplySteps => pc[v] \in ApplySteps
      BY <2>2 DEF ApplySteps
    <2>6. UndoesAlone' /\ KnownStored'
      BY <2>1, <2>2, <2>3, <2>5 DEF UndoesAlone, KnownStored, UndoSteps
    <2> QED BY <2>4, <2>6
  <1> QED BY <1>1, <1>2

LEMMA OtherPhaseStep ==
  ASSUME TypeInv, Phases,
         \/ Propose \/ ExpireRecord \/ ExpireSnapshot \/ Edit \/ UNCHANGED vars
         \/ \E w \in Workers : Raise(w) \/ Kill(w)
  PROVE  Phases'
  <1> USE DEF TypeInv, TypeOK, store, hubspot, workers, history, Phases
  <1>1. CASE Propose
    BY <1>1 DEF Propose, OneApply, AppliesAt, UndoesAlone, KnownStored, StatusAt
  <1>2. CASE ExpireRecord
    <2>1. \A w \in Workers : pc[w] \in ApplySteps => pc[w] \in {"classify", "flip"}
      BY <1>2 DEF ExpireRecord
    <2>2. AppliesAt'
      BY <1>2, <2>1 DEF ExpireRecord, AppliesAt, StatusAt
    <2> QED BY <1>2, <2>2 DEF ExpireRecord, OneApply, UndoesAlone, KnownStored
  <1>3. CASE ExpireSnapshot \/ Edit \/ UNCHANGED vars
    BY <1>3 DEF ExpireSnapshot, Edit, vars, OneApply, AppliesAt, UndoesAlone, KnownStored
  <1>4. ASSUME NEW w \in Workers, Raise(w) \/ Kill(w) PROVE Phases'
    <2>1. \A v \in Workers : pc'[v] = "idle" \/ (pc'[v] = pc[v] /\ undo'[v] = undo[v])
      BY <1>4 DEF Raise, Kill, Return
    <2>2. status' = status
      BY <1>4 DEF Raise, Kill
    <2> QED BY <2>1, <2>2 DEF OneApply, AppliesAt, UndoesAlone, KnownStored, ApplySteps, UndoSteps
  <1> QED BY <1>1, <1>2, <1>3, <1>4

LEMMA PhaseStep == TypeInv /\ Phases /\ OneProcess /\ [Next]_vars => Phases'
  BY ApplyPhaseStep, UndoPhaseStep, BeginPhaseStep, OtherPhaseStep DEF Next, Step

LEMMA InitPhases == Init => Phases
  BY DEF Init, Phases, OneApply, AppliesAt, UndoesAlone, KnownStored, ApplySteps, UndoSteps

LEMMA PhaseInvariant == ASSUME OneProcess PROVE Spec => []Phases
  BY InitPhases, TypeInvariant, PhaseStep, PTL DEF Spec

\* Only these actions store a status, each from where it is.
LEMMA StatusStep ==
  TypeInv /\ Phases /\ [Next]_vars =>
    [status' # status => "gone" \in {status, status'} \/ <<status, status'>> \in Moves]_status
  <1> SUFFICES ASSUME TypeInv, Phases, [Next]_vars, status' # status
               PROVE  "gone" \in {status, status'} \/ <<status, status'>> \in Moves
    OBVIOUS
  <1> USE DEF TypeInv, TypeOK, store, hubspot, workers, history, Phases
  <1>1. CASE Propose \/ ExpireRecord
    BY <1>1 DEF Propose, ExpireRecord, Moves
  <1>2. ASSUME NEW w \in Workers, StoreApplying(w) \/ RaiseStored(w) \/ Release(w) \/ StoreApplied(w)
        PROVE  "gone" \in {status, status'} \/ <<status, status'>> \in Moves
    <2>1. pc[w] \in ApplySteps /\ status \in StatusAt(pc[w])
      BY <1>2 DEF StoreApplying, RaiseStored, Release, StoreApplied, ApplySteps, AppliesAt
    <2> QED BY <1>2, <2>1 DEF StoreApplying, RaiseStored, Release, StoreApplied, StatusAt, Moves
  <1>3. ASSUME NEW w \in Workers, StoreUndone(w)
        PROVE  "gone" \in {status, status'} \/ <<status, status'>> \in Moves
    <2>1. status \in {"applying", "applied", "undone", "gone"}
      BY <1>3 DEF StoreUndone, KnownStored, UndoesAlone, UndoSteps
    <2> QED BY <1>3, <2>1 DEF StoreUndone, Moves
  <1>4. CASE ExpireSnapshot \/ Edit \/ UNCHANGED vars
    BY <1>4 DEF ExpireSnapshot, Edit, vars
  <1>5. ASSUME NEW w \in Workers,
          \/ Apply(w) \/ Undo(w) \/ Classify(w) \/ SaveSnapshot(w) \/ WriteUpdates(w) \/ SendCreate(w)
          \/ AnswerCreate(w) \/ FlushCreated(w) \/ EndCreates(w) \/ ReadLinks(w) \/ WriteLinks(w)
          \/ ReadBack(w) \/ SaveOutcome(w) \/ AuditApply(w) \/ LoadSnapshot(w) \/ RemoveLink(w)
          \/ ArchiveCreated(w) \/ RestoreValue(w) \/ DropSnapshot(w) \/ AuditUndo(w)
          \/ Raise(w) \/ FailSnapshot(w) \/ Interrupt(w) \/ Kill(w)
        PROVE  FALSE
    BY <1>5 DEF Apply, Undo, Classify, SaveSnapshot, WriteUpdates, SendCreate, AnswerCreate,
       FlushCreated, EndCreates, ReadLinks, WriteLinks, ReadBack, SaveOutcome, AuditApply,
       LoadSnapshot, RemoveLink, ArchiveCreated, RestoreValue, DropSnapshot, AuditUndo,
       Raise, FailSnapshot, Interrupt, Kill
  <1> QED BY <1>1, <1>2, <1>3, <1>4, <1>5 DEF Next, Step

\* In one process a changeset moves along pending, applying, applied, undone,
\* whatever fails, is cut short or is retried (changes.py _conclude, _release,
\* undo_changeset).
THEOREM StatusMovesAlong == ASSUME OneProcess PROVE Spec => StateMachine
  BY TypeInvariant, PhaseInvariant, StatusStep, PTL DEF Spec, StateMachine

-----------------------------------------------------------------------------
(* What the run of an apply knows of the writes; n counts them per item *)

\* The outcome of a record that was recorded is what HubSpot did, as far as
\* that is known; one that was not recorded was not written before the apply
\* was interrupted, and was not sent if it is not said to be attempted.
Records(r, n) ==
  \A o \in Updates \union Creates :
    /\ o \notin r.attempted => n[o] = 0
    /\ o \notin r.recorded /\ ~r.interrupted => n[o] = 0
    /\ o \in r.recorded /\ r.res[o] = "ok" => n[o] # 0
    /\ o \in r.recorded /\ r.res[o] \notin {"ok", "unconfirmed"} => n[o] = 0

Settled == {"ok", "failed", "unconfirmed"}
Results(r) ==
  /\ \A u \in Updates : /\ u \in r.recorded => r.res[u] \in Settled
                        /\ u \notin r.recorded => r.res[u] \in Verdicts
                        /\ u \in r.attempted \ r.recorded => r.res[u] = "ok"
  /\ \A c \in Creates : /\ c \in r.recorded => r.res[c] \in Settled \union {"skipped"}
                        /\ c \notin r.recorded => r.res[c] = "pending"
  /\ \A l \in Links : r.res[l] = "pending" /\ l \notin r.attempted \union r.recorded

\* Associations come last; one is pending until its outcome is settled.
Associations(r, n) ==
  /\ ~r.linking => r.todo = {} /\ r.back = {} /\ \A p \in Pairs : n[p] = 0
  /\ r.linking /\ ~r.interrupted =>
       \A p \in Pairs \ r.back : r.pair[p] = "pending" => n[p] = 0
  /\ r.back \subseteq r.todo /\ \A p \in r.todo : r.pair[p] = "pending"

\* A create is attempted only once its update is written.
Ready(r) == \A c \in Creates \ r.recorded :
              DependsOn[c] # None => r.res[DependsOn[c]] = "ok"
Followed(r, n) == \A c \in Creates \cap r.attempted :
                    DependsOn[c] # None => n[DependsOn[c]] # 0

Planned(r) ==
  /\ r.attempted = {} /\ r.recorded = {} /\ ~r.linking /\ ~r.interrupted /\ r.todo = {} /\ r.back = {}
  /\ \A o \in Creates \union Links : r.res[o] = "pending"
  /\ \A u \in Updates : r.res[u] \in Verdicts \union {"pending"}
NothingYet(n) == \A o \in Items : n[o] = 0

BeforeWrites == {"classify", "flip", "snap", "release"}
Underway(r, step, n) ==
  /\ step \in BeforeWrites => Planned(r) /\ NothingYet(n)
  /\ step \in BeforeWrites \ {"classify"} => \A u \in Updates : r.res[u] \in Verdicts
  /\ step \in WritingSteps => ~r.interrupted
  /\ step \in WritingSteps \union {"conclude"} =>
       Records(r, n) /\ Results(r) /\ Associations(r, n) /\ Followed(r, n)
  /\ step = "updates" => Creates \cap (r.attempted \union r.recorded) = {}
  /\ step \in {"updates", "creates"} => ~r.linking
  /\ step \in WritingSteps \ {"updates"} => Remaining(r) = {}
  /\ step = "creates" => Ready(r)
  /\ step \in WritingSteps \ {"updates", "creates"} => r.linking /\ Creates \subseteq r.recorded
  /\ step \in WritingSteps \ {"readback"} => r.back = {}
  /\ step = "conclude" /\ ~r.interrupted =>
       /\ Remaining(r) = {} /\ r.linking /\ Creates \subseteq r.recorded
       /\ \A p \in Pairs : r.pair[p] # "pending"

-----------------------------------------------------------------------------
(* The steps of a run *)

Counts == [Items -> Nat]

\* HubSpot counts what it applies.
Counted(n, S) == [o \in Items |-> IF o \in S THEN n[o] + 1 ELSE n[o]]

LEMMA AfterUpdatesUnderway ==
  ASSUME NEW r \in Runs, NEW n \in Counts, Records(r, n), Results(r), Associations(r, n),
         ~r.linking, ~r.interrupted, Creates \cap (r.attempted \union r.recorded) = {}
  PROVE  Underway(AfterUpdates(r), PlaceOf(r), n)
  <1> USE ChangesetAssumption
  <1>1. CASE Remaining(r) # {}
    BY <1>1 DEF AfterUpdates, PlaceOf, Underway, WritingSteps, BeforeWrites, Followed, Associations
  <1>2. CASE Remaining(r) = {}
    <2> DEFINE s == AfterUpdates(r)
    <2>1. s = [r EXCEPT !.res = [o \in Ops |-> IF o \in Orphans(r) THEN "skipped" ELSE r.res[o]],
                        !.recorded = @ \union Orphans(r)]
      BY <1>2 DEF AfterUpdates
    <2>2. /\ s.recorded = r.recorded \union Orphans(r) /\ s.attempted = r.attempted
          /\ s.linking = r.linking /\ s.interrupted = r.interrupted
          /\ s.todo = r.todo /\ s.back = r.back /\ s.pair = r.pair
          /\ s.res = [o \in Ops |-> IF o \in Orphans(r) THEN "skipped" ELSE r.res[o]]
      BY <2>1 DEF Runs
    <2> HIDE DEF s
    <2>3. Orphans(r) \subseteq Creates
      BY DEF Orphans
    <2>4. /\ \A u \in Updates : s.res[u] = r.res[u] /\ (u \in s.recorded <=> u \in r.recorded)
          /\ \A c \in Creates : s.res[c] = IF c \in Orphans(r) THEN "skipped" ELSE r.res[c]
          /\ \A l \in Links : s.res[l] = r.res[l]
      BY <2>2, <2>3 DEF Ops, Pairs
    <2>5. Records(s, n)
      BY <2>2, <2>3, <2>4 DEF Records
    <2>6. Results(s)
      BY <2>2, <2>3, <2>4 DEF Results, Pairs
    <2>7. Associations(s, n)
      BY <2>2 DEF Associations
    <2>8. Remaining(s) = {}
      BY <1>2, <2>4 DEF Remaining
    <2>9. Ready(s)
      BY <2>2, <2>4 DEF Ready, Orphans
    <2>10. Followed(s, n)
      BY <2>2 DEF Followed
    <2> QED BY <1>2, <2>2, <2>5, <2>6, <2>7, <2>8, <2>9, <2>10
            DEF s, PlaceOf, Underway, WritingSteps, BeforeWrites, Associations
  <1> QED BY <1>1, <1>2

\* A batch is written: its records get their outcome.
LEMMA WrittenUnderway ==
  ASSUME NEW r \in Runs, NEW n \in Counts, Underway(r, "updates", n),
         NEW batch \in SUBSET Remaining(r), NEW out,
         NEW S \in SUBSET batch, \A u \in batch : out[u] \in {"ok", "lost"} <=> u \in S
  PROVE  Underway(AfterUpdates(Written(r, batch, out)), PlaceOf(Written(r, batch, out)), Counted(n, S))
  <1> USE ChangesetAssumption
  <1> DEFINE s == Written(r, batch, out)
             m == Counted(n, S)
  <1>1. s \in Runs /\ m \in Counts
    BY WrittenType DEF Remaining, Counts, Counted
  <1>2. /\ s.recorded = r.recorded \union batch /\ s.attempted = r.attempted \union batch
        /\ s.linking = r.linking /\ s.interrupted = r.interrupted
        /\ s.todo = r.todo /\ s.back = r.back /\ s.pair = r.pair
        /\ s.res = [o \in Ops |-> IF o \in batch THEN Believed(out[o]) ELSE r.res[o]]
    BY DEF Runs, Written
  <1>3. /\ Records(r, n) /\ Results(r) /\ Associations(r, n) /\ ~r.linking /\ ~r.interrupted
        /\ Creates \cap (r.attempted \union r.recorded) = {}
    BY DEF Underway, WritingSteps
  <1>4. batch \subseteq Updates /\ batch \cap r.recorded = {}
    BY DEF Remaining
  <1>5. \A o \in Items : m[o] = IF o \in S THEN n[o] + 1 ELSE n[o]
    BY DEF Counted
  <1>6. /\ \A o \in batch : s.res[o] = Believed(out[o])
        /\ \A o \in Ops \ batch : s.res[o] = r.res[o]
    BY <1>2, <1>4 DEF Ops
  <1> HIDE DEF s, m
  <1>7. Records(s, m)
    <2>1. ASSUME NEW o \in batch
          PROVE  /\ s.res[o] = "ok" => m[o] # 0
                 /\ s.res[o] \notin {"ok", "unconfirmed"} => m[o] = 0
      <3>1. n[o] = 0 /\ o \in Items
        BY <1>3, <1>4 DEF Records, Items, Ops
      <3> QED BY <1>5, <1>6, <3>1 DEF Believed
    <2>2. ASSUME NEW o \in (Updates \union Creates) \ batch
          PROVE  m[o] = n[o] /\ s.res[o] = r.res[o]
      BY <1>5, <1>6 DEF Items, Ops
    <2> QED BY <1>2, <1>3, <2>1, <2>2 DEF Records
  <1>8. Results(s)
    <2>1. \A u \in batch : s.res[u] \in Settled
      BY <1>6, BelievedType DEF Settled
    <2>2. batch \cap Creates = {} /\ batch \cap Links = {}
      BY <1>4 DEF Pairs
    <2> QED BY ZenonT(60), <1>2, <1>3, <1>4, <1>6, <2>1, <2>2 DEF Results, Ops
  <1>9. Associations(s, m)
    <2>1. \A p \in Pairs : m[p] = n[p]
      BY <1>4, <1>5 DEF Items, Ops, Pairs
    <2> QED BY <1>2, <1>3, <2>1 DEF Associations
  <1>10. Creates \cap (s.attempted \union s.recorded) = {}
    BY <1>2, <1>3, <1>4
  <1>11. Underway(AfterUpdates(s), PlaceOf(s), m)
    BY <1>1, <1>2, <1>3, <1>7, <1>8, <1>9, <1>10, AfterUpdatesUnderway
  <1> QED BY <1>11 DEF s, m

\* A create is sent when its update is written.
LEMMA SentUnderway ==
  ASSUME NEW r \in Runs, NEW n \in Counts, Underway(r, "creates", n),
         NEW c \in Creates \ (r.attempted \union r.recorded)
  PROVE  Underway(Sent(r, c), "creates", n)
  <1> USE ChangesetAssumption
  <1> DEFINE s == Sent(r, c)
  <1>1. /\ s.attempted = r.attempted \union {c} /\ s.recorded = r.recorded /\ s.res = r.res
        /\ s.linking = r.linking /\ s.interrupted = r.interrupted
        /\ s.todo = r.todo /\ s.back = r.back /\ s.pair = r.pair
    BY DEF Runs, Sent
  <1> HIDE DEF s
  <1>2. /\ Records(r, n) /\ Results(r) /\ Associations(r, n) /\ Followed(r, n) /\ Ready(r)
        /\ ~r.linking /\ ~r.interrupted /\ Remaining(r) = {} /\ r.back = {}
    BY DEF Underway, WritingSteps
  <1>3. Records(s, n) /\ Associations(s, n) /\ Ready(s) /\ Remaining(s) = {}
    BY <1>1, <1>2 DEF Records, Associations, Ready, Remaining
  <1>4. Results(s)
    BY <1>1, <1>2 DEF Results, Pairs
  <1>5. DependsOn[c] # None => n[DependsOn[c]] # 0
    <2>1. ASSUME DependsOn[c] # None PROVE n[DependsOn[c]] # 0
      <3>1. DependsOn[c] \in Updates /\ r.res[DependsOn[c]] = "ok"
        BY <1>2, <2>1 DEF Ready
      <3>2. DependsOn[c] \in r.recorded
        BY <1>2, <3>1 DEF Remaining
      <3> QED BY <1>2, <3>1, <3>2 DEF Records
    <2> QED BY <2>1
  <1>6. Followed(s, n)
    BY <1>1, <1>2, <1>5 DEF Followed
  <1>7. Underway(s, "creates", n)
    BY <1>1, <1>2, <1>3, <1>4, <1>6 DEF Underway, WritingSteps, BeforeWrites
  <1> QED BY <1>7 DEF s

\* The answer to a create is recorded.
LEMMA CreatedUnderway ==
  ASSUME NEW r \in Runs, NEW n \in Counts, Underway(r, "creates", n),
         NEW c \in Creates \cap (r.attempted \ r.recorded), NEW outcome, NEW new \in SUBSET Objects,
         NEW S \in SUBSET {c}, outcome \in {"ok", "lost"} <=> S = {c}
  PROVE  Underway(Created(r, c, outcome, new), "creates", Counted(n, S))
  <1> USE ChangesetAssumption
  <1> DEFINE s == Created(r, c, outcome, new)
             m == Counted(n, S)
  <1>1. /\ s.attempted = r.attempted /\ s.recorded = r.recorded \union {c}
        /\ s.res = [r.res EXCEPT ![c] = Believed(outcome)]
        /\ s.linking = r.linking /\ s.interrupted = r.interrupted
        /\ s.todo = r.todo /\ s.back = r.back /\ s.pair = r.pair
    BY DEF Runs, Created
  <1>2. /\ s.res[c] = Believed(outcome)
        /\ \A o \in Ops \ {c} : s.res[o] = r.res[o]
    BY <1>1 DEF Runs, Ops
  <1>3. \A o \in Items : m[o] = IF o \in S THEN n[o] + 1 ELSE n[o]
    BY DEF Counted
  <1> HIDE DEF s, m
  <1>4. /\ Records(r, n) /\ Results(r) /\ Associations(r, n) /\ Followed(r, n) /\ Ready(r)
        /\ ~r.linking /\ ~r.interrupted /\ Remaining(r) = {} /\ r.back = {}
    BY DEF Underway, WritingSteps
  <1>5. Records(s, m)
    <2>1. /\ s.res[c] = "ok" => m[c] # 0
          /\ s.res[c] \notin {"ok", "unconfirmed"} => m[c] = 0
      <3>1. n[c] = 0 /\ c \in Items
        BY <1>4 DEF Records, Items, Ops
      <3> QED BY <1>2, <1>3, <3>1 DEF Believed
    <2>2. \A o \in (Updates \union Creates) \ {c} : m[o] = n[o] /\ s.res[o] = r.res[o]
      BY <1>2, <1>3 DEF Items, Ops
    <2> QED BY <1>1, <1>4, <2>1, <2>2 DEF Records
  <1>6. Results(s)
    <2>1. s.res[c] \in Settled
      BY <1>2, BelievedType DEF Settled
    <2>2. c \notin Updates /\ c \notin Links
      BY DEF Pairs
    <2>3. /\ \A u \in Updates : s.res[u] = r.res[u] /\ (u \in s.recorded <=> u \in r.recorded)
          /\ \A l \in Links : s.res[l] = r.res[l] /\ (l \in s.recorded <=> l \in r.recorded)
          /\ \A d \in Creates \ {c} : s.res[d] = r.res[d]
      BY <1>1, <1>2, <2>2 DEF Ops
    <2> QED BY <1>1, <1>4, <2>1, <2>3 DEF Results
  <1>7. Associations(s, m)
    <2>1. \A p \in Pairs : m[p] = n[p]
      BY <1>3 DEF Items, Ops, Pairs
    <2> QED BY <1>1, <1>4, <2>1 DEF Associations
  <1>8. Remaining(s) = {} /\ Ready(s)
    <2>1. \A u \in Updates : s.res[u] = r.res[u] /\ (u \in s.recorded <=> u \in r.recorded)
      BY <1>1, <1>2 DEF Ops
    <2>2. Remaining(s) = {}
      BY <1>4, <2>1 DEF Remaining
    <2>3. Ready(s)
      BY <1>1, <1>4, <2>1 DEF Ready
    <2> QED BY <2>2, <2>3
  <1>9. Followed(s, m)
    <2>1. \A u \in Updates : m[u] = n[u]
      BY <1>3 DEF Items, Ops
    <2> QED BY <1>1, <1>4, <2>1 DEF Followed
  <1>10. Underway(s, "creates", m)
    BY <1>1, <1>4, <1>5, <1>6, <1>7, <1>8, <1>9 DEF Underway, WritingSteps, BeforeWrites
  <1> QED BY <1>10 DEF s, m

LEMMA FreedUnderway ==
  ASSUME NEW r \in Runs, NEW n \in Counts, Underway(r, "creates", n), NEW c
  PROVE  Underway(Freed(r, c), "creates", n)
  <1> DEFINE s == Freed(r, c)
  <1>1. /\ s.attempted = r.attempted /\ s.recorded = r.recorded /\ s.res = r.res
        /\ s.linking = r.linking /\ s.interrupted = r.interrupted
        /\ s.todo = r.todo /\ s.back = r.back /\ s.pair = r.pair
    BY DEF Runs, Freed
  <1> HIDE DEF s
  <1>2. Underway(s, "creates", n)
    BY <1>1 DEF Underway, WritingSteps, BeforeWrites, Records, Results, Associations, Followed,
                Ready, Remaining
  <1> QED BY <1>2 DEF s

\* After the creates the pairs are pending, blocked or absent, and none is written.
LEMMA LinkingUnderway ==
  ASSUME NEW r \in Runs, NEW n \in Counts, Underway(r, "creates", n), CreatesDone(r)
  PROVE  Underway(Linking(r), PlaceAfterCreates(Linking(r)), n)
  <1> DEFINE s == Linking(r)
  <1>1. /\ s.attempted = r.attempted /\ s.recorded = r.recorded /\ s.res = r.res
        /\ s.linking /\ s.interrupted = r.interrupted
        /\ s.todo = r.todo /\ s.back = r.back
    BY DEF Runs, Linking
  <1> HIDE DEF s
  <1>2. /\ Records(r, n) /\ Results(r) /\ Associations(r, n) /\ Followed(r, n)
        /\ ~r.linking /\ ~r.interrupted /\ Remaining(r) = {} /\ r.back = {}
    BY DEF Underway, WritingSteps
  <1>3. Records(s, n) /\ Results(s) /\ Followed(s, n) /\ Remaining(s) = {}
    BY <1>1, <1>2 DEF Records, Results, Followed, Remaining
  <1>4. Associations(s, n)
    BY <1>1, <1>2 DEF Associations
  <1>5. Underway(s, PlaceAfterCreates(s), n)
    BY <1>1, <1>2, <1>3, <1>4 DEF Underway, WritingSteps, BeforeWrites, PlaceAfterCreates, CreatesDone
  <1> QED BY <1>5 DEF s

\* A run that only changes what it knows of the associations goes on with them.
LEMMA ChunkUnderway ==
  ASSUME NEW r, NEW n, NEW s, NEW m, NEW step \in {"links", "associate", "readback"},
         Underway(r, step, n),
         s.attempted = r.attempted, s.recorded = r.recorded, s.res = r.res,
         s.linking = r.linking, s.interrupted = r.interrupted,
         \A o \in Updates \union Creates : m[o] = n[o], Associations(s, m)
  PROVE  /\ s.back = {} => Underway(s, AfterChunk(s), m)
         /\ Underway(s, "readback", m)
  <1> USE ChangesetAssumption
  <1>1. /\ Records(r, n) /\ Results(r) /\ Followed(r, n)
        /\ r.linking /\ ~r.interrupted /\ Remaining(r) = {} /\ Creates \subseteq r.recorded
    BY DEF Underway, WritingSteps
  <1>2. Records(s, m) /\ Results(s) /\ Remaining(s) = {}
    BY <1>1 DEF Records, Results, Remaining
  <1>3. Followed(s, m)
    BY <1>1 DEF Followed
  <1>4. Underway(s, "readback", m)
    BY <1>1, <1>2, <1>3 DEF Underway, WritingSteps, BeforeWrites
  <1>5. ASSUME s.back = {} PROVE Underway(s, AfterChunk(s), m)
    BY <1>1, <1>2, <1>3, <1>5 DEF Underway, WritingSteps, BeforeWrites, AfterChunk, PlaceAfterCreates
  <1> QED BY <1>4, <1>5

LEMMA LookedUnderway ==
  ASSUME NEW r \in Runs, NEW n \in Counts, Underway(r, "links", n),
         NEW group \in SUBSET {p \in Pairs : r.pair[p] = "pending"}, NEW found
  PROVE  Underway(Looked(r, group, found), AfterChunk(Looked(r, group, found)), n)
  <1> DEFINE s == Looked(r, group, found)
  <1>1. /\ s.attempted = r.attempted /\ s.recorded = r.recorded /\ s.res = r.res
        /\ s.linking = r.linking /\ s.interrupted = r.interrupted
        /\ s.todo = group \ (found \ Labelled) /\ s.back = r.back
        /\ s.pair = [p \in Pairs |-> IF p \in found \ Labelled THEN "skipped" ELSE r.pair[p]]
    BY DEF Runs, Looked
  <1> HIDE DEF s
  <1>2. Associations(r, n) /\ r.linking /\ r.back = {}
    BY DEF Underway, WritingSteps
  <1>3. Associations(s, n)
    BY <1>1, <1>2 DEF Associations
  <1>4. Underway(s, AfterChunk(s), n)
    BY <1>1, <1>2, <1>3, ChunkUnderway
  <1> QED BY <1>4 DEF s

\* A chunk has its outcome, or errors that name no pair: its pairs may be written.
LEMMA ChunkCounted ==
  ASSUME NEW n \in Counts, NEW S \in SUBSET Pairs
  PROVE  /\ \A o \in Updates \union Creates : Counted(n, S)[o] = n[o]
         /\ \A p \in Pairs : Counted(n, S)[p] = IF p \in S THEN n[p] + 1 ELSE n[p]
  BY ChangesetAssumption DEF Counted, Items, Ops, Pairs

LEMMA AnsweredUnderway ==
  ASSUME NEW r \in Runs, NEW n \in Counts, NEW step \in {"associate", "readback"},
         Underway(r, step, n), NEW chunk \in SUBSET r.todo, r.back \subseteq chunk,
         NEW out \in [chunk -> Settled], NEW S \in SUBSET chunk
  PROVE  Underway(Answered(r, out), AfterChunk(Answered(r, out)), Counted(n, S))
  <1> DEFINE s == Answered(r, out)
             m == Counted(n, S)
  <1>0. chunk \subseteq Pairs /\ DOMAIN out = chunk
    BY DEF Runs
  <1>1. /\ s.attempted = r.attempted /\ s.recorded = r.recorded /\ s.res = r.res
        /\ s.linking = r.linking /\ s.interrupted = r.interrupted
        /\ s.todo = r.todo \ chunk /\ s.back = {}
        /\ \A p \in Pairs : s.pair[p] = IF p \in chunk THEN out[p] ELSE r.pair[p]
    BY <1>0 DEF Runs, Answered
  <1> HIDE DEF s
  <1>2. Associations(r, n) /\ r.linking /\ ~r.interrupted
    BY DEF Underway, WritingSteps
  <1>3. \A p \in Pairs : s.pair[p] = "pending" => p \notin chunk /\ r.pair[p] = "pending"
    BY <1>1 DEF Settled
  <1>4. /\ \A o \in Updates \union Creates : m[o] = n[o]
        /\ \A p \in Pairs \ chunk : m[p] = n[p]
    BY <1>0, ChunkCounted
  <1> HIDE DEF m
  <1>5. Associations(s, m)
    <2>1. \A p \in Pairs : s.pair[p] = "pending" => m[p] = 0
      BY <1>2, <1>3, <1>4 DEF Associations
    <2>2. \A p \in s.todo : s.pair[p] = "pending"
      BY <1>0, <1>1, <1>2 DEF Associations, Runs
    <2> QED BY <1>1, <1>2, <2>1, <2>2 DEF Associations
  <1>6. Underway(s, AfterChunk(s), m)
    BY <1>1, <1>4, <1>5, ChunkUnderway
  <1> QED BY <1>6 DEF s, m

LEMMA UnsettledUnderway ==
  ASSUME NEW r \in Runs, NEW n \in Counts, Underway(r, "associate", n),
         NEW chunk \in SUBSET r.todo, NEW S \in SUBSET chunk
  PROVE  Underway(Unsettled(r, chunk), "readback", Counted(n, S))
  <1> DEFINE s == Unsettled(r, chunk)
             m == Counted(n, S)
  <1>1. /\ s.attempted = r.attempted /\ s.recorded = r.recorded /\ s.res = r.res
        /\ s.linking = r.linking /\ s.interrupted = r.interrupted
        /\ s.todo = r.todo /\ s.back = chunk /\ s.pair = r.pair
    BY DEF Runs, Unsettled
  <1> HIDE DEF s
  <1>2. Associations(r, n) /\ r.linking /\ r.back = {}
    BY DEF Underway, WritingSteps
  <1>3. chunk \subseteq Pairs
    BY DEF Runs
  <1>4. /\ \A o \in Updates \union Creates : m[o] = n[o]
        /\ \A p \in Pairs \ chunk : m[p] = n[p]
    BY <1>3, ChunkCounted
  <1> HIDE DEF m
  <1>5. Associations(s, m)
    BY <1>1, <1>2, <1>4 DEF Associations
  <1>6. Underway(s, "readback", m)
    BY <1>1, <1>4, <1>5, ChunkUnderway
  <1> QED BY <1>6 DEF s, m

\* Cut short with a batch, some creates or a chunk on the wire.
Sendable(r, step) ==
  CASE step = "updates" -> Remaining(r)
    [] step = "creates" -> (r.attempted \ r.recorded) \cap Creates
    [] step = "associate" -> r.todo
    [] OTHER -> {}

LEMMA NotYetWritten ==
  ASSUME NEW r \in Runs, NEW n \in Counts, NEW step \in WritingSteps, Underway(r, step, n)
  PROVE  /\ Sendable(r, step) \subseteq Items
         /\ \A o \in Sendable(r, step) : n[o] = 0
  <1> /\ Records(r, n) /\ Associations(r, n) /\ ~r.interrupted
    BY DEF Underway
  <1>1. CASE step = "updates"
    BY <1>1 DEF Sendable, Remaining, Records, Items, Ops
  <1>2. CASE step = "creates"
    BY <1>2 DEF Sendable, Records, Items, Ops
  <1>3. CASE step = "associate"
    BY <1>3 DEF Sendable, Associations, Runs, Underway, WritingSteps, Items, Ops, Pairs
  <1>4. CASE step \in {"links", "readback"}
    BY <1>4 DEF Sendable
  <1> QED BY <1>1, <1>2, <1>3, <1>4 DEF WritingSteps

LEMMA InterruptedUnderway ==
  ASSUME NEW r \in Runs, NEW n \in Counts, NEW step \in WritingSteps, Underway(r, step, n),
         NEW sent \in SUBSET Sendable(r, step), NEW S \in SUBSET sent
  PROVE  Underway(Interrupted(r, sent), "conclude", Counted(n, S))
  <1> USE ChangesetAssumption
  <1> DEFINE s == Interrupted(r, sent)
             m == Counted(n, S)
  <1>1. /\ s.attempted = r.attempted \union (sent \cap (Updates \union Creates))
        /\ s.recorded = r.recorded /\ s.res = r.res
        /\ s.linking = r.linking /\ s.interrupted
        /\ s.todo = r.todo /\ s.back = r.back /\ s.pair = r.pair
    BY DEF Runs, Interrupted
  <1> HIDE DEF s
  <1>2. Records(r, n) /\ Results(r) /\ Associations(r, n) /\ Followed(r, n) /\ ~r.interrupted
    BY DEF Underway
  <1>3. sent \subseteq Items
    BY NotYetWritten
  <1>4. \A o \in Items : m[o] = IF o \in S THEN n[o] + 1 ELSE n[o]
    BY DEF Counted
  <1> HIDE DEF m
  <1>5. \A o \in sent \cap (Updates \union Creates) : o \notin r.recorded
    BY DEF Sendable, Remaining, WritingSteps, Runs, Pairs
  <1>6. Records(s, m)
    <2>1. \A o \in Updates \union Creates : o \notin S => m[o] = n[o]
      BY <1>4 DEF Items, Ops
    <2> QED BY <1>1, <1>2, <1>5, <2>1 DEF Records
  <1>7. Results(s)
    <2>1. \A u \in sent \cap Updates : u \notin r.recorded => r.res[u] = "ok"
      BY DEF Sendable, Remaining, WritingSteps, Runs, Pairs
    <2>2. \A l \in Links : l \notin sent \cap (Updates \union Creates)
      BY DEF Pairs
    <2> QED BY <1>1, <1>2, <2>1, <2>2 DEF Results
  <1>8. Associations(s, m)
    <2>1. ASSUME ~r.linking, NEW p \in Pairs PROVE m[p] = 0
      <3>1. step \in {"updates", "creates"}
        BY <2>1 DEF Underway
      <3>2. p \notin S
        BY <3>1 DEF Sendable, Remaining, Pairs
      <3>3. n[p] = 0 /\ p \in Items
        BY <1>2, <2>1 DEF Associations, Items, Ops, Pairs
      <3> QED BY <1>4, <3>2, <3>3
    <2> QED BY <1>1, <1>2, <2>1 DEF Associations
  <1>9. Followed(s, m)
    <2>1. sent \cap Creates \subseteq r.attempted
      BY DEF Sendable, Remaining, WritingSteps, Runs, Pairs
    <2>2. \A u \in Updates : n[u] # 0 => m[u] # 0
      BY <1>4 DEF Counts, Items, Ops
    <2> QED BY <1>1, <1>2, <2>1, <2>2 DEF Followed
  <1>10. Underway(s, "conclude", m)
    BY <1>1, <1>6, <1>7, <1>8, <1>9 DEF Underway, WritingSteps, BeforeWrites
  <1> QED BY <1>10 DEF s, m

-----------------------------------------------------------------------------
(* The invariant *)

Unwritten == status \in {"unborn", "pending"} => NothingYet(writes)
AllUnderway ==
  \A w \in Workers : pc[w] \in BeforeWrites \union WritingSteps \union {"conclude"} =>
    Underway(run[w], pc[w], writes)
WriteInv == Unwritten /\ AllUnderway /\ AppliedOnce /\ DependentsFollow

LEMMA AppliedCounts ==
  ASSUME TypeInv, NEW S, Applied(S)
  PROVE  writes' = Counted(writes, S) /\ writes \in Counts /\ writes' \in Counts
  BY DEF TypeInv, TypeOK, Applied, Counted, Counts

\* What had not been written may be, creates after their updates.
LEMMA OnceMore ==
  ASSUME TypeInv, AppliedOnce, DependentsFollow, NEW S \in SUBSET Items, Applied(S),
         \A o \in S : writes[o] = 0,
         \A c \in S \cap Creates : DependsOn[c] # None => writes[DependsOn[c]] # 0
  PROVE  AppliedOnce' /\ DependentsFollow'
  <1> USE ChangesetAssumption
  <1>1. /\ \A o \in Items : writes'[o] = IF o \in S THEN writes[o] + 1 ELSE writes[o]
        /\ \A o \in Items : writes[o] \in Nat
    BY DEF TypeInv, TypeOK, Applied
  <1>2. AppliedOnce'
    BY <1>1 DEF AppliedOnce
  <1>3. \A o \in Items : writes[o] > 0 => writes'[o] > 0
    BY <1>1
  <1>4. ASSUME NEW c \in Creates, DependsOn[c] # None, writes'[c] > 0
        PROVE  writes'[DependsOn[c]] > 0
    <2>1. DependsOn[c] \in Items /\ c \in Items
      BY <1>4 DEF Items, Ops
    <2>2. writes[DependsOn[c]] > 0
      BY <1>1, <1>4, <2>1 DEF DependentsFollow, Touched
    <2> QED BY <1>3, <2>1, <2>2
  <1>5. DependentsFollow'
    BY <1>4 DEF DependentsFollow, Touched
  <1> QED BY <1>2, <1>5

LEMMA SameWrites ==
  ASSUME AppliedOnce, DependentsFollow, UNCHANGED writes
  PROVE  AppliedOnce' /\ DependentsFollow'
  BY DEF AppliedOnce, DependentsFollow, Touched

\* The one apply there is makes its run what the writes make of it.
LEMMA ApplyWrites ==
  ASSUME TypeInv, Phases, NEW w \in Workers, pc[w] \in ApplySteps,
         NEW r, NEW step, run' = [run EXCEPT ![w] = r], Goto(w, step),
         step \in BeforeWrites \union WritingSteps \union {"conclude"} => Underway(r, step, writes')
  PROVE  AllUnderway'
  <1>1. \A v \in Workers \ {w} : pc'[v] = pc[v] /\ pc[v] \notin ApplySteps
    BY DEF TypeInv, TypeOK, Goto, Phases, OneApply
  <1>2. pc'[w] = step /\ run'[w] = r
    BY DEF TypeInv, TypeOK, Goto
  <1>3. BeforeWrites \union WritingSteps \union {"conclude"} \subseteq ApplySteps
    BY DEF BeforeWrites, WritingSteps, ApplySteps
  <1> QED BY <1>1, <1>2, <1>3 DEF AllUnderway

\* A status that was not there before is stored over writes, or by an apply
\* that has made none.
LEMMA PrepareWrites ==
  ASSUME TypeInv, Phases, OneProcess, WriteInv, NEW w \in Workers,
         Apply(w) \/ Classify(w) \/ StoreApplying(w) \/ SaveSnapshot(w) \/ FailSnapshot(w) \/ Release(w)
  PROVE  WriteInv'
  <1> USE DEF store, hubspot, workers, history, WriteInv
  <1>0. UNCHANGED writes
    BY DEF Apply, Classify, StoreApplying, SaveSnapshot, FailSnapshot, Release
  <1>1. AppliedOnce' /\ DependentsFollow'
    BY <1>0, SameWrites
  <1>2. NothingYet(writes)
    BY DEF Apply, Classify, StoreApplying, SaveSnapshot, FailSnapshot, Release,
           Unwritten, AllUnderway, Underway, BeforeWrites
  <1>3. Unwritten'
    BY <1>0, <1>2 DEF Unwritten, NothingYet
  <1>4. CASE Apply(w)
    <2>1. Planned(FreshRun)
      BY ChangesetAssumption DEF Planned, FreshRun, Ops, Pairs
    <2>2. PICK step \in {"classify", "flip"} :
            Goto(w, step) /\ (step = "flip" => Updates = {}) /\ run' = [run EXCEPT ![w] = FreshRun]
      BY <1>4 DEF Apply
    <2>3. Underway(FreshRun, step, writes')
      BY <1>0, <1>2, <2>1, <2>2 DEF Underway, BeforeWrites, WritingSteps
    <2>4. \A v \in Workers : pc[v] \notin ApplySteps
      BY <1>4 DEF Apply, Inflight, OneProcess
    <2>5. AllUnderway'
      BY <2>2, <2>3, <2>4 DEF AllUnderway, TypeInv, TypeOK, Goto, BeforeWrites, WritingSteps, ApplySteps
    <2> QED BY <1>1, <1>3, <2>5
  <1>5. CASE Classify(w)
    <2>0. pc[w] \in ApplySteps /\ run[w] \in Runs /\ Planned(run[w])
      BY <1>5 DEF Classify, TypeInv, TypeOK, ApplySteps, AllUnderway, Underway, BeforeWrites
    <2>1. PICK u \in Updates : run' = [run EXCEPT ![w] = Classified(run[w], u)]
      BY <1>5 DEF Classify
    <2> DEFINE s == Classified(run[w], u)
    <2>2. s.res = [run[w].res EXCEPT ![u] = Verdict(u)]
      BY <2>0 DEF Classified, Runs
    <2>3. /\ s.attempted = {} /\ s.recorded = {} /\ ~s.linking /\ ~s.interrupted /\ s.todo = {} /\ s.back = {}
      BY <2>0 DEF Classified, Runs, Planned
    <2>4. s.res[u] \in Verdicts /\ \A o \in Ops \ {u} : s.res[o] = run[w].res[o]
      BY <2>0, <2>2, VerdictType DEF Runs, Ops, Verdicts
    <2>5. run'[w] = s
      BY <2>1 DEF TypeInv, TypeOK
    <2> HIDE DEF s
    <2>6. Planned(s)
      BY <2>0, <2>3, <2>4, ChangesetAssumption DEF Planned, Ops, Pairs
    <2>7. PICK step \in {"classify", "flip"} :
            Goto(w, step) /\ (step = "flip" => \A v \in Updates : s.res[v] # "pending")
      BY <1>5, <2>5 DEF Classify
    <2>8. Underway(s, step, writes')
      BY <1>0, <1>2, <2>6, <2>7 DEF Underway, BeforeWrites, WritingSteps, Planned
    <2>9. AllUnderway'
      BY <2>0, <2>1, <2>7, <2>8, ApplyWrites DEF s
    <2> QED BY <1>1, <1>3, <2>9
  <1>6. CASE StoreApplying(w) \/ FailSnapshot(w)
    <2>0. pc[w] \in {"flip", "snap"} /\ run' = [run EXCEPT ![w] = run[w]]
      BY <1>6 DEF StoreApplying, FailSnapshot, TypeInv, TypeOK
    <2>1. PICK step \in {"snap", "release"} : Goto(w, step)
      BY <1>6 DEF StoreApplying, FailSnapshot
    <2>2. Underway(run[w], step, writes')
      BY <1>0, <2>0 DEF AllUnderway, Underway, BeforeWrites, WritingSteps
    <2>3. AllUnderway'
      BY <2>0, <2>1, <2>2, ApplyWrites DEF ApplySteps
    <2> QED BY <1>1, <1>3, <2>3
  <1>7. CASE SaveSnapshot(w)
    <2>0. pc[w] = "snap" /\ run[w] \in Runs /\ writes \in Counts /\ Underway(run[w], "snap", writes)
      BY <1>7 DEF SaveSnapshot, TypeInv, TypeOK, ApplySteps, AllUnderway, BeforeWrites, Counts
    <2>1. /\ Planned(run[w]) /\ NothingYet(writes) /\ \A u \in Updates : run[w].res[u] \in Verdicts
      BY <2>0 DEF Underway, BeforeWrites
    <2>2. Records(run[w], writes) /\ Results(run[w]) /\ Associations(run[w], writes)
      BY <2>1 DEF Records, Results, Associations, Planned, NothingYet, Items, Ops, Pairs
    <2>3. Underway(AfterUpdates(run[w]), PlaceOf(run[w]), writes')
      BY <1>0, <2>0, <2>1, <2>2, AfterUpdatesUnderway DEF Planned
    <2>4. AllUnderway'
      BY <1>7, <2>0, <2>3, ApplyWrites DEF SaveSnapshot, ApplySteps
    <2> QED BY <1>1, <1>3, <2>4
  <1>8. CASE Release(w)
    <2>1. /\ \A v \in Workers \ {w} : pc'[v] = pc[v] /\ run'[v] = run[v]
          /\ pc'[w] = "idle"
      BY <1>8 DEF Release, Return, TypeInv, TypeOK
    <2>2. AllUnderway'
      BY <1>0, <2>1 DEF AllUnderway, BeforeWrites, WritingSteps
    <2> QED BY <1>1, <1>3, <2>2
  <1> QED BY <1>4, <1>5, <1>6, <1>7, <1>8

\* What is known of an apply that writes.
LEMMA Writing ==
  ASSUME TypeInv, Phases, WriteInv, NEW w \in Workers, pc[w] \in WritingSteps
  PROVE  /\ pc[w] \in ApplySteps /\ status = "applying"
         /\ run[w] \in Runs /\ writes \in Counts /\ Underway(run[w], pc[w], writes)
  BY DEF TypeInv, TypeOK, Phases, AppliesAt, StatusAt, WritingSteps, ApplySteps, WriteInv, AllUnderway, Counts

LEMMA LandedUpdates ==
  ASSUME NEW batch, NEW out \in [batch -> Outcomes \union {"failed"}]
  PROVE  /\ Landed(out) \subseteq batch
         /\ \A u \in batch : out[u] \in {"ok", "lost"} <=> u \in Landed(out)
  BY DEF Landed

LEMMA RecordWrites ==
  ASSUME TypeInv, Phases, WriteInv, NEW w \in Workers,
         WriteUpdates(w) \/ SendCreate(w) \/ AnswerCreate(w) \/ FlushCreated(w) \/ EndCreates(w)
  PROVE  WriteInv'
  <1> USE DEF store, hubspot, workers, history
  <1> DEFINE r == run[w]
  <1>0. pc[w] \in {"updates", "creates"}
    BY DEF WriteUpdates, SendCreate, AnswerCreate, FlushCreated, EndCreates
  <1>1. /\ pc[w] \in ApplySteps /\ status = "applying"
        /\ r \in Runs /\ writes \in Counts /\ Underway(r, pc[w], writes)
    BY <1>0, Writing DEF WritingSteps
  <1>2. AppliedOnce /\ DependentsFollow
    BY DEF WriteInv
  <1>3. Unwritten'
    BY <1>1 DEF Unwritten, WriteUpdates, SendCreate, AnswerCreate, FlushCreated, EndCreates
  <1> HIDE DEF r
  <1>4. CASE WriteUpdates(w)
    <2>1. PICK batch \in SUBSET Remaining(r) : \E out \in [batch -> Outcomes \union {"failed"}] :
            /\ Applied(Landed(out))
            /\ run' = [run EXCEPT ![w] = AfterUpdates(Written(r, batch, out))]
            /\ Goto(w, PlaceOf(Written(r, batch, out)))
      BY <1>4 DEF WriteUpdates, r
    <2>2. PICK out \in [batch -> Outcomes \union {"failed"}] :
            /\ Applied(Landed(out))
            /\ run' = [run EXCEPT ![w] = AfterUpdates(Written(r, batch, out))]
            /\ Goto(w, PlaceOf(Written(r, batch, out)))
      BY <2>1
    <2> DEFINE S == Landed(out)
    <2>3. S \subseteq batch /\ \A u \in batch : out[u] \in {"ok", "lost"} <=> u \in S
      BY LandedUpdates
    <2> HIDE DEF S
    <2>4. Applied(S)
      BY <2>2 DEF S
    <2>5. pc[w] = "updates"
      BY <1>4 DEF WriteUpdates
    <2>6. Underway(AfterUpdates(Written(r, batch, out)), PlaceOf(Written(r, batch, out)), Counted(writes, S))
      BY <1>1, <2>3, <2>5, WrittenUnderway
    <2>7. AllUnderway'
      BY <1>1, <2>2, <2>4, <2>6, AppliedCounts, ApplyWrites
    <2>8. S \subseteq Items /\ S \cap Creates = {}
      BY <2>3, ChangesetAssumption DEF Remaining, Items, Ops
    <2>9. \A o \in S : writes[o] = 0
      BY <1>1, <2>3, <2>5, NotYetWritten DEF WritingSteps, Sendable
    <2>10. AppliedOnce' /\ DependentsFollow'
      BY <1>2, <2>4, <2>8, <2>9, OnceMore
    <2> QED BY <1>3, <2>7, <2>10 DEF WriteInv
  <1>5. CASE SendCreate(w)
    <2>1. PICK c \in Creates \ (r.attempted \union r.recorded) : run' = [run EXCEPT ![w] = Sent(r, c)]
      BY <1>5 DEF SendCreate, r
    <2>2. pc[w] = "creates" /\ UNCHANGED writes /\ Goto(w, "creates")
      BY <1>5 DEF SendCreate, Goto, TypeInv, TypeOK
    <2>3. AllUnderway'
      BY <1>1, <2>1, <2>2, SentUnderway, ApplyWrites
    <2> QED BY <1>2, <1>3, <2>2, <2>3, SameWrites DEF WriteInv
  <1>6. CASE AnswerCreate(w)
    <2>1. PICK c \in Creates \cap (r.attempted \ r.recorded) : \E outcome :
            LET new == IF outcome = "ok" THEN {<<c, writes[c] + 1>>} ELSE {} IN
            /\ Applied(Landed([o \in {c} |-> outcome]))
            /\ run' = [run EXCEPT ![w] = Created(r, c, outcome, new)]
      BY <1>6 DEF AnswerCreate, r
    <2>10. PICK outcome :
            LET new == IF outcome = "ok" THEN {<<c, writes[c] + 1>>} ELSE {} IN
            /\ Applied(Landed([o \in {c} |-> outcome]))
            /\ run' = [run EXCEPT ![w] = Created(r, c, outcome, new)]
      BY <2>1
    <2> DEFINE new == IF outcome = "ok" THEN {<<c, writes[c] + 1>>} ELSE {}
               S == Landed([o \in {c} |-> outcome])
    <2>2. Applied(S) /\ run' = [run EXCEPT ![w] = Created(r, c, outcome, new)]
      BY <2>10
    <2>3. S \subseteq {c} /\ (outcome \in {"ok", "lost"} <=> S = {c})
      BY DEF Landed
    <2>4. new \subseteq Objects
      BY DEF Objects, TypeInv, TypeOK, Items, Ops
    <2> HIDE DEF new, S
    <2>5. pc[w] = "creates" /\ Goto(w, "creates")
      BY <1>6 DEF AnswerCreate, Goto, TypeInv, TypeOK
    <2>6. Underway(Created(r, c, outcome, new), "creates", Counted(writes, S))
      BY <1>1, <2>3, <2>4, <2>5, CreatedUnderway
    <2>7. AllUnderway'
      BY <1>1, <2>2, <2>5, <2>6, AppliedCounts, ApplyWrites
    <2>8. S \subseteq Items /\ \A o \in S : writes[o] = 0
      BY <1>1, <2>3, <2>5, NotYetWritten DEF WritingSteps, Sendable, Items, Ops
    <2>9. \A d \in S \cap Creates : DependsOn[d] # None => writes[DependsOn[d]] # 0
      BY <1>1, <2>3, <2>5 DEF Underway, WritingSteps, Followed
    <2>11. AppliedOnce' /\ DependentsFollow'
      BY <1>2, <2>2, <2>8, <2>9, OnceMore
    <2> QED BY <1>3, <2>7, <2>11 DEF WriteInv
  <1>7. CASE FlushCreated(w)
    <2>1. PICK c : run' = [run EXCEPT ![w] = Freed(r, c)]
      BY <1>7 DEF FlushCreated, r
    <2>2. pc[w] = "creates" /\ UNCHANGED writes /\ Goto(w, "creates")
      BY <1>7 DEF FlushCreated, Goto, TypeInv, TypeOK
    <2>3. AllUnderway'
      BY <1>1, <2>1, <2>2, FreedUnderway, ApplyWrites
    <2> QED BY <1>2, <1>3, <2>2, <2>3, SameWrites DEF WriteInv
  <1>8. CASE EndCreates(w)
    <2>1. /\ pc[w] = "creates" /\ CreatesDone(r) /\ UNCHANGED writes
          /\ run' = [run EXCEPT ![w] = Linking(r)]
          /\ Goto(w, PlaceAfterCreates(run'[w])) /\ run'[w] = Linking(r)
      BY <1>8 DEF EndCreates, TypeInv, TypeOK, r
    <2>2. AllUnderway'
      BY <1>1, <2>1, LinkingUnderway, ApplyWrites
    <2> QED BY <1>2, <1>3, <2>1, <2>2, SameWrites DEF WriteInv
  <1> QED BY <1>4, <1>5, <1>6, <1>7, <1>8

LEMMA LinkWrites ==
  ASSUME TypeInv, Phases, WriteInv, NEW w \in Workers, ReadLinks(w) \/ WriteLinks(w) \/ ReadBack(w)
  PROVE  WriteInv'
  <1> USE DEF store, hubspot, workers, history
  <1> DEFINE r == run[w]
  <1>0. pc[w] \in {"links", "associate", "readback"}
    BY DEF ReadLinks, WriteLinks, ReadBack
  <1>1. /\ pc[w] \in ApplySteps /\ status = "applying"
        /\ r \in Runs /\ writes \in Counts /\ Underway(r, pc[w], writes)
    BY <1>0, Writing DEF WritingSteps
  <1>2. AppliedOnce /\ DependentsFollow
    BY DEF WriteInv
  <1>3. Unwritten'
    BY <1>1 DEF Unwritten, ReadLinks, WriteLinks, ReadBack
  <1> HIDE DEF r
  <1>4. CASE ReadLinks(w)
    <2>1. PICK group, found :
            /\ group \in SUBSET {p \in Pairs : r.pair[p] = "pending"}
            /\ run' = [run EXCEPT ![w] = Looked(r, group, found)]
            /\ Goto(w, AfterChunk(run'[w]))
      BY <1>4 DEF ReadLinks, r
    <2>2. run'[w] = Looked(r, group, found) /\ pc[w] = "links" /\ UNCHANGED writes
      BY <1>4, <2>1 DEF ReadLinks, TypeInv, TypeOK
    <2>3. AllUnderway'
      BY <1>1, <2>1, <2>2, LookedUnderway, ApplyWrites
    <2> QED BY <1>2, <1>3, <2>2, <2>3, SameWrites DEF WriteInv
  <1>5. CASE WriteLinks(w)
    <2>0. pc[w] = "associate"
      BY <1>5 DEF WriteLinks
    <2>1. PICK chunk \in (SUBSET r.todo) \ {{}}, outcome \in Outcomes, S \in SUBSET r.todo :
            /\ S \subseteq chunk
            /\ Applied(S)
            /\ IF outcome = "partial"
               THEN run' = [run EXCEPT ![w] = Unsettled(r, chunk)] /\ Goto(w, "readback")
               ELSE /\ run' = [run EXCEPT ![w] =
                         Answered(r, [p \in chunk |-> Believed(outcome)])]
                    /\ Goto(w, AfterChunk(run'[w]))
      BY <1>5 DEF WriteLinks, r
    <2>2. AllUnderway'
      <3>1. CASE outcome = "partial"
        <4>1. run' = [run EXCEPT ![w] = Unsettled(r, chunk)] /\ Goto(w, "readback")
          BY <2>1, <3>1
        <4>2. Underway(Unsettled(r, chunk), "readback", Counted(writes, S))
          BY <1>1, <2>0, <2>1, UnsettledUnderway
        <4> QED BY <1>1, <2>1, <4>1, <4>2, AppliedCounts, ApplyWrites
      <3>2. CASE outcome # "partial"
        <4> DEFINE out == [p \in chunk |-> Believed(outcome)]
        <4>1. run' = [run EXCEPT ![w] = Answered(r, out)] /\ Goto(w, AfterChunk(run'[w]))
          BY <2>1, <3>2
        <4>2. run'[w] = Answered(r, out)
          BY <4>1 DEF TypeInv, TypeOK
        <4>3. out \in [chunk -> Settled]
          BY BelievedType DEF Settled
        <4> HIDE DEF out
        <4>4. r.back \subseteq chunk
          BY <1>1, <2>0 DEF Underway, WritingSteps
        <4>5. Underway(Answered(r, out), AfterChunk(Answered(r, out)), Counted(writes, S))
          BY <1>1, <2>0, <2>1, <4>3, <4>4, AnsweredUnderway
        <4> QED BY <1>1, <2>1, <4>1, <4>2, <4>5, AppliedCounts, ApplyWrites
      <3> QED BY <3>1, <3>2
    <2>3. S \subseteq Items /\ S \cap Creates = {} /\ \A o \in S : writes[o] = 0
      <3>1. S \subseteq Pairs
        BY <1>1, <2>1 DEF Runs
      <3>2. \A o \in S : writes[o] = 0
        BY <1>1, <2>0, <2>1, NotYetWritten DEF WritingSteps, Sendable
      <3> QED BY <3>1, <3>2, ChangesetAssumption DEF Items, Ops, Pairs
    <2>4. AppliedOnce' /\ DependentsFollow'
      BY <1>2, <2>1, <2>3, OnceMore
    <2> QED BY <1>3, <2>2, <2>4 DEF WriteInv
  <1>6. CASE ReadBack(w)
    <2> DEFINE chunk == r.back
    <2>1. PICK out : /\ out = SeenLinked(chunk) \/ out = [p \in chunk |-> "unconfirmed"]
                     /\ run' = [run EXCEPT ![w] = Answered(r, out)]
                     /\ Goto(w, AfterChunk(run'[w]))
      BY <1>6 DEF ReadBack, r
    <2>2. out \in [chunk -> Settled]
      BY <2>1 DEF SeenLinked, Settled
    <2>3. run'[w] = Answered(r, out) /\ pc[w] = "readback" /\ UNCHANGED writes
      BY <1>6, <2>1 DEF ReadBack, TypeInv, TypeOK
    <2>4. chunk \subseteq r.todo
      BY <1>1, <2>3 DEF Underway, WritingSteps, Associations
    <2>5. Counted(writes, {}) = writes
      BY <1>1 DEF Counted, Counts
    <2>6. Underway(Answered(r, out), AfterChunk(Answered(r, out)), writes')
      <3> HIDE DEF chunk
      <3>1. Underway(Answered(r, out), AfterChunk(Answered(r, out)), Counted(writes, {}))
        BY <1>1, <2>2, <2>3, <2>4, AnsweredUnderway DEF chunk
      <3> QED BY <2>3, <2>5, <3>1
    <2>7. AllUnderway'
      BY <1>1, <2>1, <2>3, <2>6, ApplyWrites
    <2> QED BY <1>2, <1>3, <2>3, <2>7, SameWrites DEF WriteInv
  <1> QED BY <1>4, <1>5, <1>6

LEMMA InterruptWrites ==
  ASSUME TypeInv, Phases, WriteInv, NEW w \in Workers, Interrupt(w)
  PROVE  WriteInv'
  <1> USE DEF store, hubspot, workers, history
  <1> DEFINE r == run[w]
  <1>1. /\ pc[w] \in ApplySteps /\ pc[w] \in WritingSteps /\ status = "applying"
        /\ r \in Runs /\ writes \in Counts /\ Underway(r, pc[w], writes)
    BY Writing DEF Interrupt
  <1>2. AppliedOnce /\ DependentsFollow
    BY DEF WriteInv
  <1>3. Unwritten'
    BY <1>1 DEF Unwritten, Interrupt
  <1> HIDE DEF r
  <1>4. PICK sent \in Flights(w) : \E S \in SUBSET sent :
          Applied(S) /\ run' = [run EXCEPT ![w] = Interrupted(r, sent)]
    BY DEF Interrupt, r
  <1>5. PICK S \in SUBSET sent : Applied(S) /\ run' = [run EXCEPT ![w] = Interrupted(r, sent)]
    BY <1>4
  <1>6. sent \subseteq Sendable(r, pc[w])
    BY <1>4 DEF Flights, Sendable, r
  <1>7. Underway(Interrupted(r, sent), "conclude", Counted(writes, S))
    BY <1>1, <1>5, <1>6, InterruptedUnderway
  <1>8. AllUnderway'
    BY <1>1, <1>5, <1>7, AppliedCounts, ApplyWrites DEF Interrupt
  <1>9. S \subseteq Items /\ \A o \in S : writes[o] = 0
    BY <1>1, <1>5, <1>6, NotYetWritten
  <1>10. \A c \in S \cap Creates : DependsOn[c] # None => writes[DependsOn[c]] # 0
    <2>1. S \cap Creates \subseteq r.attempted
      BY <1>1, <1>5, <1>6, ChangesetAssumption DEF Sendable, Remaining, WritingSteps, Runs, Pairs
    <2>2. Followed(r, writes)
      BY <1>1 DEF Underway
    <2> QED BY <2>1, <2>2 DEF Followed
  <1>11. AppliedOnce' /\ DependentsFollow'
    BY <1>2, <1>5, <1>9, <1>10, OnceMore
  <1> QED BY <1>3, <1>8, <1>11 DEF WriteInv

\* Nothing else writes, or touches the run of an apply.
LEMMA OtherWrites ==
  ASSUME TypeInv, Phases, WriteInv, [Next]_vars,
         ~ \E w \in Workers :
              \/ Apply(w) \/ Classify(w) \/ StoreApplying(w) \/ SaveSnapshot(w) \/ FailSnapshot(w)
              \/ Release(w) \/ WriteUpdates(w) \/ SendCreate(w) \/ AnswerCreate(w)
              \/ FlushCreated(w) \/ EndCreates(w) \/ ReadLinks(w) \/ WriteLinks(w) \/ ReadBack(w)
              \/ Interrupt(w)
  PROVE  WriteInv'
  <1> USE DEF store, hubspot, workers, history, WriteInv
  <1>1. ASSUME UNCHANGED writes, status' \in {"unborn", "pending"} => status \in {"unborn", "pending"},
               \A v \in Workers : pc'[v] \in BeforeWrites \union WritingSteps \union {"conclude"} =>
                 pc'[v] = pc[v] /\ run'[v] = run[v]
        PROVE  WriteInv'
    BY <1>1, SameWrites DEF Unwritten, AllUnderway
  <1>2. CASE Propose \/ ExpireRecord \/ ExpireSnapshot \/ Edit \/ UNCHANGED vars
    BY <1>1, <1>2 DEF Propose, ExpireRecord, ExpireSnapshot, Edit, vars
  <1>3. ASSUME NEW w \in Workers, Raise(w) \/ RaiseStored(w) \/ Kill(w) PROVE WriteInv'
    <2>1. \A v \in Workers : pc'[v] = "idle" \/ (pc'[v] = pc[v] /\ run'[v] = run[v])
      BY <1>3 DEF Raise, RaiseStored, Kill, Return, TypeInv, TypeOK
    <2>2. UNCHANGED writes /\ (status' \in {"unborn", "pending"} => status \in {"unborn", "pending"})
      BY <1>3 DEF Raise, RaiseStored, Kill
    <2> QED BY <1>1, <2>1, <2>2 DEF BeforeWrites, WritingSteps
  <1>4. ASSUME NEW w \in Workers,
               \/ SaveOutcome(w) \/ StoreApplied(w) \/ AuditApply(w) \/ Undo(w) \/ LoadSnapshot(w)
               \/ RemoveLink(w) \/ ArchiveCreated(w) \/ RestoreValue(w) \/ StoreUndone(w)
               \/ DropSnapshot(w) \/ AuditUndo(w)
        PROVE  WriteInv'
    <2>1. \A v \in Workers \ {w} : pc'[v] = pc[v] /\ run'[v] = run[v]
      BY <1>4 DEF SaveOutcome, StoreApplied, AuditApply, Undo, LoadSnapshot, RemoveLink,
         ArchiveCreated, RestoreValue, StoreUndone, DropSnapshot, AuditUndo, Return, Goto, Reverted,
         TypeInv, TypeOK
    <2>2. pc'[w] \in {"settle", "apply_audit", "idle", "undo_load", "undoing", "undo_audit",
                      "undo_store", "undo_drop"}
      BY <1>4 DEF SaveOutcome, StoreApplied, AuditApply, Undo, LoadSnapshot, RemoveLink,
         ArchiveCreated, RestoreValue, StoreUndone, DropSnapshot, AuditUndo, Return, Goto, Reverted,
         AfterRevert, TypeInv, TypeOK
    <2>3. UNCHANGED writes /\ status' \in {status, "applied", "undone"}
      BY <1>4 DEF SaveOutcome, StoreApplied, AuditApply, Undo, LoadSnapshot, RemoveLink,
         ArchiveCreated, RestoreValue, StoreUndone, DropSnapshot, AuditUndo
    <2> QED BY <1>1, <2>1, <2>2, <2>3 DEF BeforeWrites, WritingSteps
  <1> QED BY <1>2, <1>3, <1>4 DEF Next, Step

LEMMA WriteStep == TypeInv /\ Phases /\ OneProcess /\ WriteInv /\ [Next]_vars => WriteInv'
  BY PrepareWrites, RecordWrites, LinkWrites, InterruptWrites, OtherWrites

LEMMA InitWrites == Init => WriteInv
  BY DEF Init, WriteInv, Unwritten, NothingYet, AllUnderway, AppliedOnce, DependentsFollow, Touched,
         BeforeWrites, WritingSteps, Items, Ops

LEMMA WriteInvariant == ASSUME OneProcess PROVE Spec => []WriteInv
  BY InitWrites, TypeInvariant, PhaseInvariant, WriteStep, PTL DEF Spec

\* In one process HubSpot applies no write of a changeset twice, whatever
\* fails, is retried or cut short, and whether or not the record expires
\* (changes.py apply_changeset, _write_batch, _create_records, _associate).
THEOREM WritesAreAppliedOnce == ASSUME OneProcess PROVE Spec => []AppliedOnce
  <1>1. WriteInv => AppliedOnce
    BY DEF WriteInv
  <1> QED BY <1>1, WriteInvariant, PTL

\* And a record that belongs to an update is made only after it (_execute).
THEOREM CreatesFollowUpdates == ASSUME OneProcess PROVE Spec => []DependentsFollow
  <1>1. WriteInv => DependentsFollow
    BY DEF WriteInv
  <1> QED BY <1>1, WriteInvariant, PTL
=============================================================================
