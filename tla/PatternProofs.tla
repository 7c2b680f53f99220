---------------------------- MODULE PatternProofs ----------------------------
(***************************************************************************)
(* Theorems about PatternWrite for any records, requests, outcomes and       *)
(* bounds.                                                                  *)
(***************************************************************************)
EXTENDS PatternWrite, TLAPS

Runs == [applied : SUBSET Matched, skipped : SUBSET Matched, failed : SUBSET Matched,
         count : {None, Count, 0}, targets : SUBSET Matched, edited : BOOLEAN, saved : BOOLEAN]
ApproveSteps == {"load", "confirm", "read", "write", "save", "clear", "audit", "answer"}
UndoSteps == {"restore", "forget"}

TypeOK ==
  /\ record \in [Matched -> {"pre", "new", "edited"}]
  /\ pending \in {"unborn", "single", "free", "unconfirmed", "confirmed", "gone"}
  /\ snapshot = None \/ snapshot \subseteq Matched
  /\ undone \subseteq Matched
  /\ pc \in [Workers -> {"idle"} \cup ApproveSteps \cup UndoSteps]
  /\ at \in [Workers -> Int]
  /\ run \in [Workers -> Runs]
  /\ \A w \in Workers : pc[w] \in {"load", "confirm", "read", "write"} => at[w] \in Matched

\* A record read as it was previewed is still so when it is written, unless
\* somebody edited it in between; another request leaves its "new" or "pre".
DriftSeen ==
  \A w \in Workers : pc[w] = "write" => record[at[w]] # "edited" \/ run[w].edited

\* A preview that was approved is gone for good.
ApprovedIsGone ==
  /\ \A w \in Workers : pc[w] \in {"audit", "answer"} => pending = "gone"
  /\ report # None => pending = "gone"

\* A stored snapshot has not been undone.
FreshSnapshot == snapshot # None => undone = {}

Stored == IF snapshot = None THEN {} ELSE snapshot

\* While no request has met another: there is one at a time; an approve that
\* passed its gate is the first to do so; what it has written is stored once its
\* save was answered, and nothing of it is undone; and an undo works on what is stored and has put back what it says.
Solo(w) ==
  /\ pc[w] \in {"confirm", "read", "write", "save", "clear"} => Present
  /\ pc[w] \in {"clear", "audit", "answer"} =>
       /\ run[w].saved => run[w].applied \subseteq Stored
       /\ run[w].applied # {} => undone = {}
  /\ pc[w] \in UndoSteps => snapshot # None /\ run[w].targets = snapshot
  /\ pc[w] \in UndoSteps => \A r \in run[w].applied : record[r] # "new"
  /\ pc[w] = "forget" => run[w].targets \subseteq run[w].applied

OneByOne ==
  alone => /\ \A v, w \in Workers : pc[v] # "idle" /\ pc[w] # "idle" => v = w
           /\ \A w \in Workers : Solo(w)

Inv == TypeOK /\ ApprovedIsGone /\ FreshSnapshot /\ OneByOne /\ ReportedIsRevertible

-----------------------------------------------------------------------------
(* Types *)

\* A run that gets another record in one of its lists is a run.
LEMMA ListsType ==
  ASSUME TypeOK, NEW w \in Workers, NEW r \in Matched
  PROVE  Applied(w, r) \in Runs /\ Skipped(w, r) \in Runs /\ Failed(w, r) \in Runs
  BY DEF TypeOK, Runs, Applied, Skipped, Failed

\* A request that begins, moves on or ends is somewhere the code can be.
LEMMA BeginType ==
  ASSUME TypeOK, NEW w \in Workers, NEW with \in Runs, NEW step \in {"load", "restore"},
         Begin(w, step, with), UNCHANGED <<record, pending, snapshot, undone>>
  PROVE  TypeOK'
  BY PatternAssumption DEF TypeOK, Begin, ApproveSteps, UndoSteps, Matched

LEMMA ReturnType ==
  ASSUME TypeOK, NEW w \in Workers, Return(w)
  PROVE  /\ pc' \in [Workers -> {"idle"} \cup ApproveSteps \cup UndoSteps]
         /\ at' \in [Workers -> Int]
         /\ run' \in [Workers -> Runs]
         /\ \A v \in Workers : pc'[v] \in {"load", "confirm", "read", "write"} => at'[v] \in Matched
  BY DEF TypeOK, Return, Goto, NoRun, Runs

LEMMA StepsType ==
  ASSUME TypeOK, NEW w \in Workers, NEW step \in ApproveSteps \cup UndoSteps, Steps(w, step),
         step \in {"load", "confirm", "read", "write"} => at[w] \in Matched
  PROVE  /\ pc' \in [Workers -> {"idle"} \cup ApproveSteps \cup UndoSteps]
         /\ at' \in [Workers -> Int]
         /\ run' \in [Workers -> Runs]
         /\ \A v \in Workers : pc'[v] \in {"load", "confirm", "read", "write"} => at'[v] \in Matched
  BY DEF TypeOK, Steps, Goto

LEMMA NextRecordType ==
  ASSUME TypeOK, NEW w \in Workers, at[w] \in Matched, NEW lists \in Runs, Lists(w, lists)
  PROVE  /\ pc' \in [Workers -> {"idle"} \cup ApproveSteps \cup UndoSteps]
         /\ at' \in [Workers -> Int]
         /\ run' \in [Workers -> Runs]
         /\ \A v \in Workers : pc'[v] \in {"load", "confirm", "read", "write"} => at'[v] \in Matched
  <1>1. [lists EXCEPT !.edited = FALSE] \in Runs
    BY DEF Runs
  <1>2. run' \in [Workers -> Runs]
    BY <1>1 DEF TypeOK, Lists
  <1>3. /\ pc' \in [Workers -> {"idle"} \cup ApproveSteps \cup UndoSteps]
        /\ \A v \in Workers : v # w => pc'[v] = pc[v]
    BY DEF TypeOK, Lists, Goto, ApproveSteps
  <1>4. (pc'[w] = "read" /\ at[w] < Count) \/ pc'[w] = "save"
    BY DEF TypeOK, Lists, Goto
  <1>5. /\ at' \in [Workers -> Int]
        /\ \A v \in Workers : v # w => at'[v] = at[v]
        /\ at[w] < Count => at'[w] = at[w] + 1
    BY DEF TypeOK, Lists
  <1>6. at[w] < Count => at[w] + 1 \in Matched
    BY PatternAssumption DEF Matched
  <1> QED BY <1>2, <1>3, <1>4, <1>5, <1>6 DEF TypeOK

\* The types are kept by every step.
LEMMA TypeStep == TypeOK /\ [Next]_vars => TypeOK'
  <1> SUFFICES ASSUME TypeOK, [Next]_vars PROVE TypeOK'
    OBVIOUS
  <1>1. ASSUME Tool PROVE TypeOK'
    BY <1>1 DEF Tool, TypeOK
  <1>2. ASSUME NEW w \in Workers, Approve(w) PROVE TypeOK'
    <2>1. PICK count \in {None, Count, 0} : Begin(w, "load", [NoRun EXCEPT !.count = count])
      BY <1>2 DEF Approve
    <2>2. [NoRun EXCEPT !.count = count] \in Runs
      BY DEF NoRun, Runs
    <2> QED BY <1>2, <2>1, <2>2, BeginType DEF Approve
  <1>3. ASSUME NEW w \in Workers, Load(w) PROVE TypeOK'
    <2>1. CASE Return(w)
      BY <1>3, <2>1, ReturnType DEF Load, TypeOK
    <2>2. ASSUME NEW step \in {"read", "confirm"}, Steps(w, step) PROVE TypeOK'
      BY <1>3, <2>2 DEF Load, TypeOK, Steps, Goto, ApproveSteps
    <2> QED BY <1>3, <2>1, <2>2 DEF Load
  <1>4. ASSUME NEW w \in Workers, Confirm(w) PROVE TypeOK'
    <2>1. CASE Return(w)
      BY <1>4, <2>1, ReturnType DEF Confirm, TypeOK
    <2>2. CASE Steps(w, "read")
      BY <1>4, <2>2 DEF Confirm, TypeOK, Steps, Goto, ApproveSteps
    <2> QED BY <1>4, <2>1, <2>2 DEF Confirm
  <1>5. ASSUME NEW w \in Workers, ReadRecord(w) PROVE TypeOK'
    <2>1. at[w] \in Matched
      BY <1>5 DEF ReadRecord, TypeOK
    <2>2. ASSUME NEW lists \in Runs, Lists(w, lists) PROVE TypeOK'
      BY <1>5, <2>1, <2>2, NextRecordType DEF ReadRecord, TypeOK
    <2>3. CASE Steps(w, "write")
      BY <1>5, <2>3 DEF ReadRecord, TypeOK, Steps, Goto, ApproveSteps
    <2> QED BY <1>5, <2>1, <2>2, <2>3, ListsType DEF ReadRecord
  <1>6. ASSUME NEW w \in Workers, WriteRecord(w) PROVE TypeOK'
    <2>1. at[w] \in Matched
      BY <1>6 DEF WriteRecord, TypeOK
    <2>2. PICK lists \in Runs : Lists(w, lists)
      BY <1>6, <2>1, ListsType DEF WriteRecord
    <2>3. record' \in [Matched -> {"pre", "new", "edited"}]
      BY <1>6, <2>1 DEF WriteRecord, TypeOK
    <2> QED BY <1>6, <2>1, <2>2, <2>3, NextRecordType DEF WriteRecord, TypeOK
  <1>14. ASSUME NEW w \in Workers, SaveSnapshot(w) PROVE TypeOK'
    <2>1. run' \in [Workers -> Runs]
      <3>1. \A b \in BOOLEAN : [run[w] EXCEPT !.saved = b] \in Runs
        BY DEF TypeOK, Runs
      <3> QED BY <1>14, <3>1 DEF SaveSnapshot, Saves, TypeOK
    <2>2. (snapshot' = None \/ snapshot' \subseteq Matched) /\ undone' \subseteq Matched
      BY <1>14 DEF SaveSnapshot, Saves, Reverts, TypeOK, Runs
    <2> QED BY <1>14, <2>1, <2>2 DEF SaveSnapshot, Goto, TypeOK, ApproveSteps
  <1>7. ASSUME NEW w \in Workers, Clear(w) \/ Audit(w) PROVE TypeOK'
    <2>1. PICK step \in {"audit", "answer"} : Steps(w, step)
      BY <1>7 DEF Clear, Audit
    <2>2. (snapshot' = None \/ snapshot' \subseteq Matched) /\ undone' \subseteq Matched
      BY <1>7 DEF Clear, Audit, TypeOK
    <2>3. /\ record' = record
          /\ pending' \in {pending, "gone"}
      BY <1>7 DEF Clear, Audit
    <2> QED BY <2>1, <2>2, <2>3, StepsType DEF TypeOK, ApproveSteps
  <1>8. ASSUME NEW w \in Workers, Answer(w) \/ Forget(w) \/ Abort(w) PROVE TypeOK'
    <2>1. undone' \subseteq Matched
      BY <1>8 DEF Answer, Forget, Abort, TypeOK, Runs
    <2> QED BY <1>8, <2>1, ReturnType DEF Answer, Forget, Abort, TypeOK
  <1>9. ASSUME NEW w \in Workers, Reject(w) PROVE TypeOK'
    BY <1>9 DEF Reject, TypeOK
  <1>10. ASSUME NEW w \in Workers, Undo(w) PROVE TypeOK'
    <2>1. [NoRun EXCEPT !.targets = snapshot] \in Runs
      BY <1>10 DEF Undo, TypeOK, NoRun, Runs
    <2> QED BY <1>10, <2>1, BeginType DEF Undo
  <1>11. ASSUME NEW w \in Workers, Restore(w) PROVE TypeOK'
    <2>1. CASE \E r \in Matched, l \in Runs : Tries(w, l) /\ (PutBack(r) \/ UNCHANGED record)
      <3>1. PICK r \in Matched, l \in Runs : Tries(w, l) /\ (PutBack(r) \/ UNCHANGED record)
        BY <2>1
      <3>2. record' \in [Matched -> {"pre", "new", "edited"}]
        BY <3>1 DEF PutBack, TypeOK
      <3> QED BY <1>11, <3>1, <3>2 DEF Restore, Tries, TypeOK
    <2>2. CASE UNCHANGED record /\ Steps(w, "forget")
      BY <1>11, <2>2, StepsType DEF Restore, TypeOK, UndoSteps
    <2>3. CASE UNCHANGED record /\ Return(w)
      BY <1>11, <2>3, ReturnType DEF Restore, TypeOK
    <2>4. run[w].targets \subseteq Matched
      BY DEF TypeOK, Runs
    <2> QED BY <1>11, <2>1, <2>2, <2>3, <2>4, ListsType DEF Restore
  <1>12. ASSUME NEW r \in Matched, Edit(r) PROVE TypeOK'
    <2>1. \A w \in Workers : [run[w] EXCEPT !.edited = @ \/ (pc[w] = "write" /\ at[w] = r)] \in Runs
      BY DEF TypeOK, Runs
    <2> QED BY <1>12, <2>1 DEF Edit, TypeOK
  <1>13. CASE UNCHANGED vars
    BY <1>13 DEF vars, TypeOK
  <1> QED BY <1>1, <1>2, <1>3, <1>4, <1>5, <1>6, <1>7, <1>8, <1>9, <1>10, <1>11, <1>12, <1>13, <1>14
         DEF Next

\* Every state is well typed.
LEMMA TypeCorrect == Spec => []TypeOK
  <1>1. Init => TypeOK
    BY DEF Init, TypeOK, NoRun, Runs
  <1> QED BY <1>1, TypeStep, PTL DEF Spec

-----------------------------------------------------------------------------
(* Drift *)

\* The step that reads a record as previewed is the only one that brings a
\* request to its write, and only an edit, which is remembered, makes it drift.
LEMMA DriftStep == TypeOK /\ DriftSeen /\ [Next]_vars => DriftSeen'
  <1> SUFFICES ASSUME TypeOK, DriftSeen, [Next]_vars, NEW v \in Workers, pc'[v] = "write"
               PROVE  record'[at'[v]] # "edited" \/ run'[v].edited
    BY DEF DriftSeen
  <1> USE DEF TypeOK, DriftSeen, Runs
  <1>1. CASE Tool \/ UNCHANGED vars
    BY <1>1 DEF Tool, vars
  <1>2. ASSUME NEW w \in Workers,
               Approve(w) \/ Load(w) \/ Confirm(w) \/ SaveSnapshot(w) \/ Clear(w) \/ Audit(w)
                 \/ Answer(w) \/ Reject(w) \/ Undo(w) \/ Forget(w) \/ Abort(w)
        PROVE  record'[at'[v]] # "edited" \/ run'[v].edited
    <2>1. v # w \/ Reject(w)
      BY <1>2 DEF Approve, Load, Confirm, SaveSnapshot, Clear, Audit, Answer, Undo, Forget,
                  Abort, Begin, Steps, Return, Goto
    <2>2. pc'[v] = pc[v] /\ at'[v] = at[v] /\ run'[v] = run[v] /\ record' = record
      BY <1>2, <2>1 DEF Approve, Load, Confirm, SaveSnapshot, Clear, Audit, Answer, Undo, Forget,
                        Abort, Begin, Steps, Return, Goto, Reject, Saves
    <2> QED BY <2>2
  <1>3. ASSUME NEW w \in Workers, ReadRecord(w)
        PROVE  record'[at'[v]] # "edited" \/ run'[v].edited
    <2>1. CASE v = w
      BY <1>3, <2>1 DEF ReadRecord, Lists, Steps, Goto, Drifted
    <2>2. CASE v # w
      BY <1>3, <2>2 DEF ReadRecord, Lists, Steps, Goto
    <2> QED BY <2>1, <2>2
  <1>4. ASSUME NEW w \in Workers, WriteRecord(w) \/ Restore(w)
        PROVE  record'[at'[v]] # "edited" \/ run'[v].edited
    <2>1. v # w
      BY <1>4 DEF WriteRecord, Restore, Lists, Tries, Steps, Return, Goto
    <2>2. pc'[v] = pc[v] /\ at'[v] = at[v] /\ run'[v] = run[v] /\ at[v] \in Matched
      BY <1>4, <2>1 DEF WriteRecord, Restore, Lists, Tries, Steps, Return, Goto
    <2>3. \A r \in Matched : record'[r] \in {record[r], "new", "pre"}
      BY <1>4 DEF WriteRecord, Restore, PutBack
    <2> QED BY <2>2, <2>3
  <1>5. ASSUME NEW r \in Matched, Edit(r)
        PROVE  record'[at'[v]] # "edited" \/ run'[v].edited
    BY <1>5 DEF Edit
  <1> QED BY <1>1, <1>2, <1>3, <1>4, <1>5 DEF Next

\* Whatever requests interleave, an approve never overwrites an edit that its
\* re-read could have seen (handlers.py _execute_pattern_write, "Drift -> skip").
THEOREM DriftNeverOverwritten == Spec => DriftIsKept
  <1>1. Init => DriftSeen
    BY DEF Init, DriftSeen
  <1>2. TypeOK /\ DriftSeen /\ [Next]_vars =>
          [\A w \in Workers : WriteRecord(w) /\ record[at[w]] = "edited" =>
             record'[at[w]] = "edited" \/ run[w].edited]_vars
    BY DEF DriftSeen, WriteRecord
  <1> QED BY <1>1, <1>2, TypeCorrect, DriftStep, PTL DEF Spec, DriftIsKept
-----------------------------------------------------------------------------
(* What a report says can be undone *)

\* What one request does.
Acts(w) ==
  \/ Approve(w) \/ Load(w) \/ Confirm(w) \/ ReadRecord(w) \/ WriteRecord(w)
  \/ SaveSnapshot(w) \/ Clear(w) \/ Audit(w) \/ Answer(w)
  \/ Reject(w) \/ Undo(w) \/ Restore(w) \/ Forget(w) \/ Abort(w)

\* A request moves nobody but itself.
LEMMA OthersStay ==
  ASSUME TypeOK, NEW w \in Workers, Acts(w)
  PROVE  \A v \in Workers \ {w} : pc'[v] = pc[v] /\ at'[v] = at[v] /\ run'[v] = run[v]
  BY DEF TypeOK, Acts, Approve, Load, Confirm, ReadRecord, WriteRecord, SaveSnapshot, Clear, Audit,
         Answer, Reject, Undo, Restore, Forget, Abort, Begin, Steps, Goto, Return, Lists, Tries, Saves

\* Nobody has met another one after a step only if nobody else was there.
LEMMA OthersIdle ==
  ASSUME TypeOK, OneByOne, NEW w \in Workers, Acts(w), alone'
  PROVE  alone /\ \A v \in Workers \ {w} : pc[v] = "idle"
  <1>1. CASE pc[w] # "idle"
    <2>1. alone
      BY <1>1 DEF Acts, Approve, Load, Confirm, ReadRecord, WriteRecord, SaveSnapshot, Clear, Audit,
         Answer, Reject, Undo, Restore, Forget, Abort, Begin, Idle
    <2> QED BY <1>1, <2>1 DEF OneByOne
  <1>2. CASE pc[w] = "idle"
    BY <1>2 DEF Acts, Approve, Load, Confirm, ReadRecord, WriteRecord, SaveSnapshot, Clear, Audit,
         Answer, Reject, Undo, Restore, Forget, Abort, Begin, Idle
  <1> QED BY <1>1, <1>2

\* So OneByOne follows from what the step does to the one request there is.
LEMMA SoloIsEnough ==
  ASSUME TypeOK, OneByOne, NEW w \in Workers, Acts(w), alone' => Solo(w)'
  PROVE  OneByOne'
  <1> SUFFICES ASSUME alone' PROVE OneByOne'
    BY DEF OneByOne
  <1>1. \A v \in Workers \ {w} : pc'[v] = "idle"
    BY OthersIdle, OthersStay
  <1>2. \A v \in Workers \ {w} : Solo(v)'
    BY <1>1 DEF Solo, UndoSteps
  <1> QED BY <1>1, <1>2 DEF OneByOne

\* The approve clears its preview before it can report, and nothing brings a
\* preview back; a snapshot that is stored anew starts with nothing undone.
LEMMA GoneStep ==
  TypeOK /\ ApprovedIsGone /\ FreshSnapshot /\ [Next]_vars => ApprovedIsGone' /\ FreshSnapshot'
  <1> SUFFICES ASSUME TypeOK, ApprovedIsGone, FreshSnapshot, [Next]_vars
               PROVE  ApprovedIsGone' /\ FreshSnapshot'
    OBVIOUS
  <1>1. CASE Tool \/ (\E r \in Matched : Edit(r)) \/ UNCHANGED vars
    BY <1>1 DEF Tool, Edit, vars, ApprovedIsGone, FreshSnapshot
  <1>2. ASSUME NEW w \in Workers, Acts(w) PROVE ApprovedIsGone' /\ FreshSnapshot'
    <2>1. FreshSnapshot'
      BY <1>2 DEF FreshSnapshot, Saves, Acts, Approve, Load, Confirm, ReadRecord, WriteRecord, SaveSnapshot,
                  Clear, Audit, Answer, Reject, Undo, Restore, Forget, Abort
    <2>2. pending = "gone" => pending' = "gone"
      BY <1>2 DEF Acts, Approve, Load, Confirm, ReadRecord, WriteRecord, SaveSnapshot, Clear, Audit,
                  Answer, Reject, Undo, Restore, Forget, Abort, Present
    <2>3. pc'[w] \in {"audit", "answer"} => pending' = "gone"
      BY <1>2 DEF TypeOK, ApprovedIsGone, Acts, Approve, Load, Confirm, ReadRecord, WriteRecord,
                  SaveSnapshot, Clear, Audit, Answer, Reject, Undo, Restore, Forget, Abort, Begin,
                  Steps, Goto, Return, Lists, Tries, Idle
    <2>4. report' = report \/ pc[w] = "answer"
      BY <1>2 DEF Acts, Approve, Load, Confirm, ReadRecord, WriteRecord, SaveSnapshot, Clear, Audit,
                  Answer, Reject, Undo, Restore, Forget, Abort
    <2> QED BY <1>2, <2>1, <2>2, <2>3, <2>4, OthersStay DEF ApprovedIsGone
  <1> QED BY <1>1, <1>2 DEF Next, Acts

\* What the one request there is does keeps what is known of it.
LEMMA SoloStep ==
  ASSUME TypeOK, ApprovedIsGone, OneByOne, FreshSnapshot,
         NEW w \in Workers, Acts(w), alone'
  PROVE  Solo(w)'
  <1> USE DEF TypeOK, Runs
  <1>0. Solo(w)
    BY OthersIdle DEF OneByOne
  <1>1. CASE Approve(w) \/ Abort(w) \/ Answer(w) \/ Forget(w) \/ Reject(w)
    <2>1. pc'[w] \in {"idle", "load"}
      BY <1>1 DEF Approve, Abort, Answer, Forget, Reject, Begin, Return, Goto, Idle
    <2> QED BY <2>1 DEF Solo, UndoSteps
  <1>2. CASE Load(w) \/ Confirm(w)
    BY <1>2, <1>0 DEF Solo, UndoSteps, Load, Confirm, Steps, Return, Goto, Present
  <1>3. CASE ReadRecord(w) \/ WriteRecord(w)
    <2>1. pc'[w] \in {"read", "write", "save"} /\ pending' = pending /\ Present
      BY <1>0, <1>3 DEF Solo, ReadRecord, WriteRecord, Lists, Steps, Goto
    <2> QED BY <2>1 DEF Solo, UndoSteps, Present
  <1>4. CASE SaveSnapshot(w) \/ Clear(w) \/ Audit(w)
    <2>1. CASE SaveSnapshot(w)
      <3>1. /\ pc'[w] = "clear" /\ run'[w].applied = run[w].applied /\ Present'
            /\ run'[w].saved => snapshot' = run[w].applied \/ run[w].applied = {}
            /\ run[w].applied # {} => undone' = {}
        BY <1>0, <2>1 DEF Solo, SaveSnapshot, Saves, Goto, Reverts, Present
      <3>2. run[w].applied # None
        BY NoneIsNoSet
      <3> QED BY <3>1, <3>2 DEF Solo, UndoSteps, Stored
    <2>2. CASE Clear(w) \/ Audit(w)
      BY <2>2, <1>0 DEF Solo, UndoSteps, Clear, Audit, Steps, Goto, Stored
    <2> QED BY <1>4, <2>1, <2>2
  <1>5. CASE Undo(w)
    <2>1. pc'[w] = "restore" /\ run'[w] = [NoRun EXCEPT !.targets = snapshot] /\ snapshot' = snapshot
      BY <1>5 DEF Undo, Begin
    <2>2. run'[w].targets = snapshot /\ run'[w].applied = {} /\ snapshot # None
      BY <1>5, <2>1 DEF NoRun, Undo
    <2> QED BY <2>1, <2>2 DEF Solo, UndoSteps
  <1>6. CASE Restore(w)
    <2> DEFINE left == run[w].targets \ (run[w].applied \cup run[w].failed)
    <2>0. /\ snapshot' = snapshot /\ snapshot # None /\ run[w].targets = snapshot
          /\ \A r \in run[w].applied : record[r] # "new"
      BY <1>0, <1>6 DEF Solo, UndoSteps, Restore
    <2>1. ASSUME NEW r \in left, Tries(w, Applied(w, r)), PutBack(r) PROVE Solo(w)'
      <3>1. /\ pc'[w] = "restore" /\ run'[w].targets = snapshot
            /\ run'[w].applied = run[w].applied \cup {r}
        <4>1. pc' = pc /\ run' = [run EXCEPT ![w] = Applied(w, r)] /\ pc[w] = "restore"
          BY <1>6, <2>1 DEF Restore, Tries
        <4>2. Applied(w, r).targets = run[w].targets /\ Applied(w, r).applied = run[w].applied \cup {r}
          BY DEF Applied
        <4> QED BY <2>0, <4>1, <4>2
      <3>2. \A s \in run'[w].applied : record'[s] # "new"
        BY <2>0, <2>1, <3>1 DEF PutBack
      <3> QED BY <2>0, <3>1, <3>2 DEF Solo, UndoSteps
    <2>2. ASSUME NEW r \in left, Tries(w, Failed(w, r)), PutBack(r) \/ UNCHANGED record PROVE Solo(w)'
      <3>1. /\ pc'[w] = "restore" /\ run'[w].targets = snapshot
            /\ run'[w].applied = run[w].applied
        BY <1>6, <2>0, <2>2 DEF Restore, Tries, Failed
      <3>2. \A s \in run'[w].applied : record'[s] # "new"
        BY <2>0, <2>2, <3>1 DEF PutBack
      <3> QED BY <2>0, <3>1, <3>2 DEF Solo, UndoSteps
    <2>3. CASE left = {} /\ UNCHANGED record /\ run[w].failed = {} /\ Steps(w, "forget")
      BY <2>0, <2>3 DEF Solo, UndoSteps, Steps, Goto
    <2>4. CASE Return(w)
      BY <2>4 DEF Return, Goto, Solo, UndoSteps
    <2> QED BY <1>6, <2>1, <2>2, <2>3, <2>4 DEF Restore
  <1> QED BY <1>1, <1>2, <1>3, <1>4, <1>5, <1>6 DEF Acts

\* While requests come one by one each finds the store as the last one left it.
LEMMA OneByOneStep ==
  TypeOK /\ ApprovedIsGone /\ FreshSnapshot /\ OneByOne /\ [Next]_vars => OneByOne'
  <1> SUFFICES ASSUME TypeOK, ApprovedIsGone, FreshSnapshot, OneByOne, [Next]_vars
               PROVE  OneByOne'
    OBVIOUS
  <1>1. ASSUME NEW w \in Workers, Acts(w) PROVE OneByOne'
    BY <1>1, SoloStep, SoloIsEnough
  <1>2. CASE Tool
    BY <1>2 DEF Tool, OneByOne, Solo, Present, Stored
  <1>3. ASSUME NEW r \in Matched, Edit(r) PROVE OneByOne'
    <2>1. \A w \in Workers : run'[w].applied = run[w].applied /\ run'[w].targets = run[w].targets
      BY <1>3 DEF Edit, TypeOK, Runs
    <2>2. \A s \in Matched : record'[s] = "new" => record[s] = "new"
      BY <1>3 DEF Edit, TypeOK
    <2>3. \A w \in Workers : Solo(w) => Solo(w)'
      BY <1>3, <2>1, <2>2 DEF Edit, Solo, UndoSteps, Present, Stored, TypeOK, Runs
    <2> QED BY <1>3, <2>3 DEF Edit, OneByOne
  <1>4. CASE UNCHANGED vars
    BY <1>4 DEF vars, OneByOne, Solo, Present, Stored
  <1> QED BY <1>1, <1>2, <1>3, <1>4 DEF Next, Acts

\* The report is made of what is stored; only an undo that put every record
\* back drops it; and the preview being gone, nobody writes the rule again.
LEMMA ReportStep == Inv /\ [Next]_vars => ReportedIsRevertible'
  <1> SUFFICES ASSUME Inv, [Next]_vars, alone', report' # None
               PROVE  /\ report'.saved => report'.applied \subseteq undone' \cup Stored'
                      /\ \A r \in undone' \cap report'.applied : record'[r] # "new"
    BY DEF ReportedIsRevertible, Stored
  <1> USE DEF Inv, TypeOK, Runs
  <1>1. CASE Tool
    BY <1>1 DEF Tool, ReportedIsRevertible, Stored
  <1>2. ASSUME NEW w \in Workers, Acts(w)
        PROVE  /\ report'.saved => report'.applied \subseteq undone' \cup Stored'
               /\ \A r \in undone' \cap report'.applied : record'[r] # "new"
    <2>0. alone /\ Solo(w)
      BY <1>2, OthersIdle DEF OneByOne
    <2>1. CASE Answer(w)
      <3>1. report'.saved => report'.applied \subseteq Stored
        BY <2>0, <2>1 DEF Solo, Answer
      <3>2. report'.applied # {} => undone = {}
        BY <2>0, <2>1 DEF Solo, Answer
      <3>3. UNCHANGED <<snapshot, undone>>
        BY <2>1 DEF Answer
      <3> QED BY <3>1, <3>2, <3>3 DEF Stored
    <2>2. CASE ~Answer(w)
      <3>0. report' = report
        BY <1>2, <2>2 DEF Acts, Approve, Load, Confirm, ReadRecord, WriteRecord, SaveSnapshot, Clear,
                          Audit, Answer, Reject, Undo, Restore, Forget, Abort
      <3>1. ~Present /\ pc[w] \notin {"confirm", "read", "write", "save", "clear"}
        BY <2>0, <3>0 DEF ApprovedIsGone, Solo, Present
      <3>2. CASE Forget(w)
        BY <2>0, <3>0, <3>2 DEF Forget, Solo, UndoSteps, Stored, ReportedIsRevertible, FreshSnapshot
      <3>3. CASE ~Forget(w)
        <4>1. UNCHANGED <<snapshot, undone>>
          BY <1>2, <2>2, <3>1, <3>3 DEF Acts, Approve, Load, Confirm, ReadRecord, WriteRecord,
              SaveSnapshot, Clear, Audit, Reject, Undo, Restore, Abort
        <4>2. \A r \in Matched : record'[r] = "new" => record[r] = "new"
          BY <1>2, <2>2, <3>1, <3>3 DEF Acts, Approve, Load, Confirm, ReadRecord, WriteRecord,
              SaveSnapshot, Clear, Audit, Reject, Undo, Restore, PutBack, Abort
        <4>3. undone \cap report.applied \subseteq Matched
          BY <2>0
        <4> QED BY <2>0, <3>0, <4>1, <4>2 DEF ReportedIsRevertible, Stored
      <3> QED BY <3>2, <3>3
    <2> QED BY <2>1, <2>2
  <1>3. ASSUME NEW r \in Matched, Edit(r)
        PROVE  /\ report'.saved => report'.applied \subseteq undone' \cup Stored'
               /\ \A s \in undone' \cap report'.applied : record'[s] # "new"
    BY <1>3 DEF Edit, ReportedIsRevertible, Stored
  <1>4. CASE UNCHANGED vars
    BY <1>4 DEF vars, ReportedIsRevertible, Stored
  <1> QED BY <1>1, <1>2, <1>3, <1>4 DEF Next, Acts

\* "A single hubspot undo restores exactly what changed": of requests that come
\* one after the other, cut short or not, what an approve reports as written can
\* be undone until it is, unless the save of its snapshot failed, whatever else
\* fails (handlers.py _execute_pattern_write, undo_action).
THEOREM ReportCanBeUndone == Spec => []ReportedIsRevertible
  <1>1. Init => Inv
    BY DEF Init, Inv, TypeOK, NoRun, Runs, ApprovedIsGone, FreshSnapshot, OneByOne, Solo, UndoSteps,
           ReportedIsRevertible
  <1>2. Inv /\ [Next]_vars => Inv'
    BY TypeStep, GoneStep, OneByOneStep, ReportStep DEF Inv
  <1>3. Inv => ReportedIsRevertible
    BY DEF Inv
  <1> QED BY <1>1, <1>2, <1>3, PTL DEF Spec
=============================================================================
