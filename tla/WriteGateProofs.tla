-------------------------- MODULE WriteGateProofs ---------------------------
(***************************************************************************)
(* Theorems about WriteGate for any actions, workers, records, outcomes    *)
(* and bounds.                                                             *)
(***************************************************************************)
EXTENDS WriteGate, TLAPS

\* Besides the types: what is stored or in flight has been previewed, a
\* request that keeps a value keeps a snapshot, and an undo that replays
\* originals has them.
Known ==
  /\ \A a \in Actions :
       pending[a] # "unborn" \/ snapshot[a] # None => preview[a] # None
  /\ \A w \in Workers : pc[w] # "idle" => preview[act[w]] # None
  /\ \A w \in Workers : pc[w] \in {"record", "restore"} => held[w] \in Snapshots
  /\ \A w \in Workers :
       pc[w] = "restore" => \/ preview[act[w]].kind = "create"
                           \/ held[w].original \in Values

TypeInv == TypeOK /\ Known

\* The initial state is well typed.
LEMMA InitType == Init => TypeInv
  BY GateAssumption DEF Init, TypeInv, TypeOK, Known, Values, Steps, Counts

\* Ending a request keeps the per-worker variables well typed.
LEMMA ReturnType ==
  ASSUME TypeOK, NEW w \in Workers, Return(w)
  PROVE  /\ pc' \in [Workers -> Steps]
         /\ act' \in [Workers -> Actions \union {None}]
         /\ \A v \in Workers : pc'[v] # "idle" => act'[v] \in Actions
         /\ count' \in [Workers -> Counts]
         /\ held' \in [Workers -> Snapshots \union {None}]
  BY DEF Return, TypeOK, Steps, Counts

\* So does starting one.
LEMMA BeginType ==
  ASSUME TypeOK, NEW w \in Workers, NEW a \in Actions, NEW c \in Counts,
         NEW h \in Snapshots \union {None}, NEW s \in Steps, Begin(w, a, c, h, s)
  PROVE  /\ pc' \in [Workers -> Steps]
         /\ act' \in [Workers -> Actions \union {None}]
         /\ \A v \in Workers : pc'[v] # "idle" => act'[v] \in Actions
         /\ count' \in [Workers -> Counts]
         /\ held' \in [Workers -> Snapshots \union {None}]
         /\ budget' \in [requests : Nat, aborts : Nat, edits : Nat]
  BY DEF Begin, TypeOK

\* Moving on to the next await keeps a request's program counter well typed.
LEMMA GotoType ==
  ASSUME TypeOK, NEW w \in Workers, pc[w] # "idle", NEW s \in Steps, Goto(w, s),
         UNCHANGED act
  PROVE  /\ pc' \in [Workers -> Steps]
         /\ \A v \in Workers : pc'[v] # "idle" => act'[v] \in Actions
  BY DEF Goto, TypeOK

\* What HubSpot holds stays well typed when it applies a write.
LEMMA EffectType ==
  ASSUME TypeOK, NEW a \in Actions, preview[a] # None, Effect(a)
  PROVE  record' \in [Records -> Values] /\ live' \in [Actions -> SUBSET Nat]
         /\ writes' \in [Actions -> Nat]
  <1>1. preview[a] \in Previews
    BY DEF TypeOK
  <1>2. writes' \in [Actions -> Nat]
    BY DEF TypeOK, Effect
  <1>3. live' \in [Actions -> SUBSET Nat]
    BY DEF TypeOK, Effect
  <1>4. record' \in [Records -> Values]
    BY <1>1 DEF TypeOK, Effect, Previews, Values
  <1> QED BY <1>2, <1>3, <1>4

-----------------------------------------------------------------------------
(* One lemma per group of actions *)

\* handle_tool keeps the types.
LEMMA ToolType ==
  ASSUME TypeInv, NEW w \in Workers,
         (\E a \in Actions : CallTool(w, a)) \/ StorePending(w) \/ Load(w)
  PROVE  TypeInv'
  <1> USE DEF TypeInv, store, hubspot, workers, history
  <1>1. ASSUME NEW a \in Actions, CallTool(w, a) PROVE TypeInv'
    <2>1. PICK kind \in Kinds, tier \in Tiers, r \in Records :
            \E original \in PreviewReads(kind, r) :
              preview' = [preview EXCEPT ![a] =
                [kind |-> kind, tier |-> tier, record |-> r, original |-> original]]
      BY <1>1 DEF CallTool
    <2>2. PICK original \in PreviewReads(kind, r) :
            preview' = [preview EXCEPT ![a] =
              [kind |-> kind, tier |-> tier, record |-> r, original |-> original]]
      BY <2>1
    <2>3. original \in Values \union {None}
      BY <2>2 DEF PreviewReads, TypeOK
    <2>4. /\ preview' \in [Actions -> Previews \union {None}]
          /\ \A b \in Actions : b # a => preview'[b] = preview[b]
          /\ preview'[a] \in Previews
      BY <2>2, <2>3 DEF TypeOK, Previews
    <2>5. preview'[a] # None
      BY <2>4, NoneIsNoRecord
    <2>6. /\ pc' \in [Workers -> Steps]
          /\ act' \in [Workers -> Actions \union {None}]
          /\ \A v \in Workers : pc'[v] # "idle" => act'[v] \in Actions
          /\ count' \in [Workers -> Counts]
          /\ held' \in [Workers -> Snapshots \union {None}]
          /\ budget' \in [requests : Nat, aborts : Nat, edits : Nat]
      BY <1>1, BeginType DEF CallTool, Counts, Steps, ToolSteps
    <2>7. TypeOK'
      BY <1>1, <2>4, <2>6 DEF TypeOK, CallTool
    <2>8. Known'
      BY <1>1, <2>4, <2>5 DEF Known, CallTool, Begin, TypeOK
    <2> QED BY <2>7, <2>8
  <1>2. ASSUME StorePending(w) PROVE TypeInv'
    <2>1. CASE Return(w)
      <3>1. TypeOK'
        BY <1>2, <2>1, ReturnType DEF StorePending, TypeOK
      <3>2. Known'
        BY <1>2, <2>1 DEF StorePending, TypeOK, Known, Return
      <3> QED BY <3>1, <3>2
    <2>2. CASE Goto(w, "load") /\ UNCHANGED <<act, count, held>>
      <3>1. TypeOK'
        BY <1>2, <2>2, GotoType DEF StorePending, TypeOK, Steps, ApproveSteps
      <3>2. Known'
        BY <1>2, <2>2 DEF StorePending, TypeOK, Known, Goto
      <3> QED BY <3>1, <3>2
    <2> QED BY <1>2, <2>1, <2>2 DEF StorePending
  <1>3. ASSUME Load(w) PROVE TypeInv'
    <2>1. CASE Return(w)
      <3>1. TypeOK'
        BY <1>3, <2>1, ReturnType DEF Load, TypeOK
      <3>2. Known'
        BY <1>3, <2>1 DEF Load, TypeOK, Known, Return
      <3> QED BY <3>1, <3>2
    <2>2. CASE Goto(w, Execute(act[w])) /\ UNCHANGED <<act, count, held>>
      <3>1. TypeOK'
        BY <1>3, <2>2, GotoType DEF Load, TypeOK, Execute, Steps, ApproveSteps
      <3>2. Known'
        BY <1>3, <2>2 DEF Load, TypeOK, Known, Goto, Execute
      <3> QED BY <3>1, <3>2
    <2> QED BY <1>3, <2>1, <2>2 DEF Load
  <1> QED BY <1>1, <1>2, <1>3

\* execute_pending_write keeps the types up to the HubSpot call.
LEMMA GateType ==
  ASSUME TypeInv, NEW w \in Workers,
         (\E a \in Actions, c \in Counts : Approve(w, a, c))
           \/ Confirm(w) \/ SaveSnapshot(w)
  PROVE  TypeInv'
  <1> USE DEF TypeInv, store, hubspot, workers, history
  <1>1. ASSUME NEW a \in Actions, NEW c \in Counts, Approve(w, a, c) PROVE TypeInv'
    <2>1. PICK s \in {"confirm", "save", "invoke"} : Begin(w, a, c, None, s)
      BY <1>1 DEF Approve, Execute
    <2>2. s \in Steps
      BY DEF Steps, ApproveSteps
    <2>3. TypeOK'
      BY <1>1, <2>1, <2>2, BeginType DEF TypeOK, Approve
    <2>4. Known'
      BY <1>1, <2>1 DEF Known, Approve, Present, Begin, TypeOK
    <2> QED BY <2>3, <2>4
  <1>2. ASSUME Confirm(w) PROVE TypeInv'
    <2>1. CASE Return(w)
      <3>1. TypeOK'
        BY <1>2, <2>1, ReturnType DEF Confirm, TypeOK
      <3>2. Known'
        BY <1>2, <2>1 DEF Confirm, TypeOK, Known, Return
      <3> QED BY <3>1, <3>2
    <2>2. CASE Goto(w, Execute(act[w])) /\ UNCHANGED <<act, count, held>>
      <3>1. TypeOK'
        BY <1>2, <2>2, GotoType DEF Confirm, TypeOK, Execute, Steps, ApproveSteps
      <3>2. Known'
        BY <1>2, <2>2 DEF Confirm, TypeOK, Known, Goto, Execute
      <3> QED BY <3>1, <3>2
    <2> QED BY <1>2, <2>1, <2>2 DEF Confirm
  <1>3. ASSUME SaveSnapshot(w) PROVE TypeInv'
    <2>1. act[w] \in Actions /\ preview[act[w]] \in Previews
      BY <1>3 DEF SaveSnapshot, TypeOK, Known
    <2>2. snapshot' \in [Actions -> Snapshots \union {None}]
      BY <1>3, <2>1 DEF SaveSnapshot, TypeOK, Snapshots, Previews
    <2>3. TypeOK'
      BY <1>3, <2>2, GotoType DEF SaveSnapshot, TypeOK, Steps, ApproveSteps
    <2>4. Known'
      BY <1>3, <2>1, NoneIsNoRecord DEF SaveSnapshot, TypeOK, Known, Goto
    <2> QED BY <2>3, <2>4
  <1> QED BY <1>1, <1>2, <1>3

\* And from the HubSpot call to its end.
LEMMA ExecuteType ==
  ASSUME TypeInv, NEW w \in Workers,
         Invoke(w) \/ DropSnapshot(w) \/ RecordCreated(w) \/ ClearPending(w) \/ Audit(w)
  PROVE  TypeInv'
  <1> USE DEF TypeInv, store, hubspot, workers, history
  <1>1. ASSUME Invoke(w) PROVE TypeInv'
    <2>1. act[w] \in Actions /\ preview[act[w]] # None /\ writes[act[w]] \in Nat
      BY <1>1 DEF Invoke, TypeOK, Known
    <2>2. UNCHANGED hubspot \/ Effect(act[w])
      BY <1>1 DEF Invoke
    <2>3. /\ record' \in [Records -> Values] /\ live' \in [Actions -> SUBSET Nat]
          /\ writes' \in [Actions -> Nat]
      BY <2>1, <2>2, EffectType DEF TypeOK
    <2>4. /\ held' \in [Workers -> Snapshots \union {None}]
          /\ \A v \in Workers : v # w => held'[v] = held[v]
          /\ pc'[w] = "record" => held'[w] \in Snapshots
      BY <1>1, <2>1 DEF Invoke, TypeOK, Goto, Snapshots
    <2>5. PICK s \in {"drop", "record", "clear"} : Goto(w, s)
      BY <1>1 DEF Invoke
    <2>6. /\ pc' \in [Workers -> Steps]
          /\ \A v \in Workers : pc'[v] # "idle" => act'[v] \in Actions
      BY <1>1, <2>5, GotoType DEF Invoke, Steps, ApproveSteps
    <2>7. TypeOK'
      BY <1>1, <2>3, <2>4, <2>6 DEF Invoke, TypeOK
    <2>8. Known'
      BY <1>1, <2>4, <2>5 DEF Invoke, Known, Goto, TypeOK
    <2> QED BY <2>7, <2>8
  <1>2. ASSUME DropSnapshot(w) PROVE TypeInv'
    BY <1>2, ReturnType DEF DropSnapshot, LeftOnFailure, TypeOK, Known, Return
  <1>3. ASSUME RecordCreated(w) PROVE TypeInv'
    <2>1. act[w] \in Actions /\ held[w] \in Snapshots
      BY <1>3 DEF RecordCreated, TypeOK, Known
    <2>2. /\ snapshot' \in [Actions -> Snapshots \union {None}]
          /\ \A a \in Actions : snapshot'[a] # None => snapshot[a] # None
      <3>1. CASE UNCHANGED snapshot
        BY <3>1 DEF TypeOK
      <3>2. CASE snapshot' = [snapshot EXCEPT ![act[w]] = Merge(@, held[w].ids)]
        <4>1. Merge(snapshot[act[w]], held[w].ids) \in Snapshots \union {None}
          BY <2>1 DEF TypeOK, Merge, Snapshots
        <4> QED BY <3>2, <2>1, <4>1 DEF TypeOK, Merge
      <3> QED BY <1>3, <3>1, <3>2 DEF RecordCreated
    <2>3. TypeOK'
      BY <1>3, <2>2, GotoType DEF RecordCreated, TypeOK, Steps, ApproveSteps
    <2>4. Known'
      BY <1>3, <2>2 DEF RecordCreated, TypeOK, Known, Goto
    <2> QED BY <2>3, <2>4
  <1>4. ASSUME ClearPending(w) PROVE TypeInv'
    BY <1>4, GotoType DEF ClearPending, Clear, TypeOK, Known, Goto, Steps, ApproveSteps
  <1>5. ASSUME Audit(w) PROVE TypeInv'
    <2>1. act[w] \in Actions
      BY <1>5 DEF Audit, TypeOK
    <2>2. audit' \subseteq {"approve", "undo"} \X Actions /\ reported' \subseteq Actions
      BY <1>5, <2>1 DEF Audit, TypeOK
    <2> QED BY <1>5, <2>2, ReturnType DEF Audit, TypeOK, Known, Return
  <1> QED BY <1>1, <1>2, <1>3, <1>4, <1>5

\* Reject and undo keep the types.
LEMMA RejectUndoType ==
  ASSUME TypeInv, NEW w \in Workers,
         \/ \E a \in Actions : Reject(w, a) \/ Undo(w, a)
         \/ Discard(w) \/ Restore(w) \/ ForgetSnapshot(w) \/ UndoAudit(w)
  PROVE  TypeInv'
  <1> USE DEF TypeInv, store, hubspot, workers, history
  <1>1. ASSUME NEW a \in Actions, Reject(w, a) PROVE TypeInv'
    <2>1. TypeOK'
      BY <1>1, BeginType DEF TypeOK, Reject, Counts, Steps, RejectSteps
    <2>2. Known'
      BY <1>1 DEF Known, Reject, Present, Begin, TypeOK
    <2> QED BY <2>1, <2>2
  <1>2. ASSUME NEW a \in Actions, Undo(w, a) PROVE TypeInv'
    <2>1. snapshot[a] \in Snapshots /\ preview[a] # None
      BY <1>2 DEF Undo, TypeOK, Known
    <2>2. TypeOK'
      BY <1>2, <2>1, BeginType DEF TypeOK, Undo, Counts, Steps, UndoSteps
    <2>3. preview[a].kind = "create" \/ snapshot[a].original \in Values
      BY <1>2, <2>1 DEF Undo, IsUndoable, Snapshots
    <2>4. Known'
      BY <1>2, <2>1, <2>3 DEF Known, Undo, Begin, TypeOK
    <2> QED BY <2>2, <2>4
  <1>3. ASSUME Discard(w) PROVE TypeInv'
    <2>1. act[w] \in Actions /\ preview[act[w]] # None
      BY <1>3 DEF Discard, TypeOK, Known
    <2>2. TypeOK'
      BY <1>3, <2>1, ReturnType DEF Discard, Clear, TypeOK
    <2>3. Known'
      BY <1>3, <2>1 DEF Discard, Clear, TypeOK, Known, Return
    <2> QED BY <2>2, <2>3
  <1>4. ASSUME Restore(w) PROVE TypeInv'
    <2>1. act[w] \in Actions /\ preview[act[w]] \in Previews /\ held[w] \in Snapshots
      BY <1>4 DEF Restore, TypeOK, Known
    <2>2. UNCHANGED <<record, live>> \/ Restored(act[w], held[w])
      BY <1>4 DEF Restore
    <2>3. record' \in [Records -> Values] /\ live' \in [Actions -> SUBSET Nat]
      <3>1. CASE Restored(act[w], held[w]) /\ preview[act[w]].kind = "create"
        BY <2>1, <3>1 DEF Restored, TypeOK
      <3>2. CASE Restored(act[w], held[w]) /\ preview[act[w]].kind # "create"
        <4>1. held[w].original \in Values
          BY <1>4, <3>2 DEF Restore, Known
        <4> QED BY <2>1, <3>2, <4>1 DEF Restored, TypeOK, Previews
      <3> QED BY <2>2, <3>1, <3>2 DEF TypeOK
    <2>4. CASE Return(w)
      BY <1>4, <2>3, <2>4, ReturnType DEF Restore, TypeOK, Known, Return
    <2>5. CASE Goto(w, "forget") /\ UNCHANGED <<act, count, held>>
      BY <1>4, <2>3, <2>5, GotoType DEF Restore, TypeOK, Known, Goto, Steps, UndoSteps
    <2> QED BY <1>4, <2>4, <2>5 DEF Restore
  <1>5. ASSUME ForgetSnapshot(w) PROVE TypeInv'
    BY <1>5, GotoType DEF ForgetSnapshot, TypeOK, Known, Goto, Steps, UndoSteps
  <1>6. ASSUME UndoAudit(w) PROVE TypeInv'
    <2>1. act[w] \in Actions
      BY <1>6 DEF UndoAudit, TypeOK
    <2>2. audit' \subseteq {"approve", "undo"} \X Actions
      BY <1>6, <2>1 DEF UndoAudit, TypeOK
    <2> QED BY <1>6, <2>2, ReturnType DEF UndoAudit, TypeOK, Known, Return
  <1> QED BY <1>1, <1>2, <1>3, <1>4, <1>5, <1>6

\* So does everything around the server.
LEMMA EnvironmentType ==
  ASSUME TypeInv,
         \/ \E w \in Workers : Abort(w)
         \/ \E a \in Actions : ExpirePending(a) \/ ExpireSnapshot(a)
         \/ \E r \in Records : Edit(r)
  PROVE  TypeInv'
  <1> USE DEF TypeInv, store, hubspot, workers, history
  <1>1. ASSUME NEW w \in Workers, Abort(w) PROVE TypeInv'
    <2>1. TypeOK'
      BY <1>1, ReturnType DEF Abort, TypeOK
    <2>2. Known'
      BY <1>1 DEF Abort, TypeOK, Known, Return
    <2> QED BY <2>1, <2>2
  <1>2. ASSUME NEW a \in Actions, ExpirePending(a) PROVE TypeInv'
    BY <1>2 DEF ExpirePending, Present, TypeOK, Known
  <1>3. ASSUME NEW a \in Actions, ExpireSnapshot(a) PROVE TypeInv'
    BY <1>3 DEF ExpireSnapshot, TypeOK, Known
  <1>4. ASSUME NEW r \in Records, Edit(r) PROVE TypeInv'
    BY <1>4 DEF Edit, TypeOK, Known, Values
  <1> QED BY <1>1, <1>2, <1>3, <1>4

\* The type invariant, as checked by gate_concurrent, holds of every instance
\* (the records and histories that handlers.py and its stores keep).
THEOREM TypeCorrect == Spec => []TypeOK
  <1>1. TypeInv /\ [Next]_vars => TypeInv'
    <2> SUFFICES ASSUME TypeInv, [Next]_vars PROVE TypeInv'
      OBVIOUS
    <2>1. CASE UNCHANGED vars
      BY <2>1 DEF vars, store, hubspot, workers, history, TypeInv, TypeOK, Known
    <2>2. CASE Next
      BY <2>2, ToolType, GateType, ExecuteType, RejectUndoType, EnvironmentType
         DEF Next, Arrive, Step
    <2> QED BY <2>1, <2>2
  <1>2. TypeInv => TypeOK
    BY DEF TypeInv
  <1> QED BY InitType, <1>1, <1>2, PTL DEF Spec

-----------------------------------------------------------------------------
(* Safety *)

\* A request past the count gate has been granted, and so has one whose exact
\* count is on its way to the store or already in it.
GrantedInFlight ==
  /\ \A a \in Actions : pending[a] = "confirmed" => a \in granted
  /\ \A w \in Workers : pc[w] \in {"load", "save", "invoke"} => act[w] \in granted
  /\ \A w \in Workers : pc[w] = "confirm" /\ count[w] = "exact" => act[w] \in granted

\* Only the request that mints an action handles it before it is stored, and
\* nobody else handles it then.
MintedOnce ==
  /\ \A w \in Workers : pc[w] = "store" => pending[act[w]] = "unborn"
  /\ \A w, v \in Workers :
       pc[w] = "store" /\ pc[v] # "idle" /\ act[v] = act[w] => v = w
  /\ \A w \in Workers : pc[w] \notin {"idle", "store"} => pending[act[w]] # "unborn"
  /\ \A a \in Actions : snapshot[a] # None => pending[a] # "unborn"

\* What a request has done by the time it reaches its last awaits.
DoneInFlight ==
  /\ \A w \in Workers : pc[w] \in {"record", "clear", "audit"} => writes[act[w]] > 0
  /\ \A w \in Workers : pc[w] = "audit" => pending[act[w]] = "gone"

SafetyInv ==
  /\ TypeInv
  /\ GrantedInFlight /\ MintedOnce /\ DoneInFlight
  /\ WritesAreGranted /\ AuditIsTruthful /\ SettledStaysSettled

\* A request that moves on with its action leaves the actions minted once, as
\* long as no stored preview or snapshot appears from nothing.
LEMMA MintedOnceKept ==
  ASSUME MintedOnce, TypeOK,
         \A v \in Workers : pc'[v] # "idle" =>
            /\ pc[v] # "idle" /\ act'[v] = act[v]
            /\ pc'[v] = "store" <=> pc[v] = "store",
         \A a \in Actions : snapshot'[a] # None => pending'[a] # "unborn",
         \A a \in Actions : pending'[a] = "unborn" <=> pending[a] = "unborn"
  PROVE  MintedOnce'
  <1>1. \A v \in Workers : pc'[v] # "idle" => act'[v] \in Actions
    BY DEF TypeOK
  <1>2. \A v \in Workers : pc'[v] = "store" => pending'[act'[v]] = "unborn"
    BY <1>1 DEF MintedOnce, TypeOK
  <1>3. \A v, u \in Workers :
          pc'[v] = "store" /\ pc'[u] # "idle" /\ act'[u] = act'[v] => u = v
    BY DEF MintedOnce
  <1>4. \A v \in Workers : pc'[v] \notin {"idle", "store"} => pending'[act'[v]] # "unborn"
    BY <1>1 DEF MintedOnce, TypeOK
  <1> QED BY <1>2, <1>3, <1>4 DEF MintedOnce

\* Nor does a request that starts on an action that is stored already.
LEMMA MintedOnceBegun ==
  ASSUME MintedOnce, TypeOK, NEW w \in Workers, NEW a \in Actions,
         pending[a] # "unborn", UNCHANGED <<pending, snapshot>>,
         pc'[w] \notin {"idle", "store"}, act'[w] = a,
         \A v \in Workers : v # w => pc'[v] = pc[v] /\ act'[v] = act[v]
  PROVE  MintedOnce'
  <1>1. \A v \in Workers : pc'[v] = "store" =>
          v # w /\ pc[v] = "store" /\ act'[v] = act[v] /\ act[v] # a
    BY DEF MintedOnce
  <1>2. \A v, u \in Workers :
          pc'[v] = "store" /\ pc'[u] # "idle" /\ act'[u] = act'[v] => u = v
    BY <1>1 DEF MintedOnce
  <1>3. \A v \in Workers : pc'[v] \notin {"idle", "store"} => pending'[act'[v]] # "unborn"
    BY DEF MintedOnce
  <1> QED BY <1>1, <1>2, <1>3 DEF MintedOnce

\* The strengthening holds initially.
LEMMA InitSafe == Init => SafetyInv
  BY InitType, GateAssumption
     DEF Init, SafetyInv, GrantedInFlight, MintedOnce, DoneInFlight,
         WritesAreGranted, AuditIsTruthful, SettledStaysSettled

\* Every step keeps the types; restated for the whole of Next.
LEMMA NextType == TypeInv /\ Next => TypeInv'
  BY ToolType, GateType, ExecuteType, RejectUndoType, EnvironmentType
     DEF Next, Arrive, Step

\* handle_tool keeps the safety invariant.
LEMMA ToolSafe ==
  ASSUME SafetyInv, TypeInv', NEW w \in Workers,
         (\E a \in Actions : CallTool(w, a)) \/ StorePending(w) \/ Load(w)
  PROVE  SafetyInv'
  <1> USE DEF SafetyInv, TypeInv, TypeOK, store, hubspot, workers, history
  <1>1. ASSUME NEW a \in Actions, CallTool(w, a) PROVE SafetyInv'
    <2>1. /\ UNCHANGED <<pending, snapshot, audit, writes, granted, reported, rejected>>
          /\ pc' = [pc EXCEPT ![w] = "store"] /\ act' = [act EXCEPT ![w] = a]
          /\ count' = [count EXCEPT ![w] = "none"]
          /\ preview[a] = None
      BY <1>1 DEF CallTool, Begin
    <2>2. pending[a] = "unborn" /\ \A v \in Workers : pc[v] # "idle" => act[v] # a
      BY <2>1 DEF Known
    <2>3. GrantedInFlight'
      BY <2>1 DEF GrantedInFlight
    <2>4. MintedOnce'
      BY <2>1, <2>2 DEF MintedOnce
    <2>5. DoneInFlight'
      BY <2>1 DEF DoneInFlight
    <2>6. (WritesAreGranted /\ AuditIsTruthful /\ SettledStaysSettled)'
      BY <2>1 DEF WritesAreGranted, AuditIsTruthful, SettledStaysSettled
    <2> QED BY <2>3, <2>4, <2>5, <2>6
  <1>2. ASSUME StorePending(w) PROVE SafetyInv'
    <2>1. /\ UNCHANGED <<snapshot, audit, writes, reported, rejected>>
          /\ act[w] \in Actions
          /\ pending' = [pending EXCEPT ![act[w]] = "unconfirmed"]
          /\ pending[act[w]] = "unborn"
          /\ granted \subseteq granted'
      BY <1>2 DEF StorePending, MintedOnce
    <2>2. \/ pc' = [pc EXCEPT ![w] = "load"] /\ act' = act /\ act[w] \in granted'
          \/ Return(w)
      BY <1>2 DEF StorePending, Goto
    <2>3. /\ \A v \in Workers : v # w => pc'[v] = pc[v] /\ act'[v] = act[v] /\ count'[v] = count[v]
          /\ pc'[w] = "idle" \/ (pc'[w] = "load" /\ act'[w] = act[w] /\ act[w] \in granted')
      BY <1>2, <2>2 DEF StorePending, Return
    <2>4. GrantedInFlight'
      BY <2>1, <2>3 DEF GrantedInFlight
    <2>5. MintedOnce'
      <3>1. \A v \in Workers :
              v # w /\ pc[v] # "idle" => act[v] # act[w]
        BY <1>2 DEF MintedOnce, StorePending
      <3>2. \A v \in Workers : v # w /\ pc'[v] # "idle" =>
              pc'[v] = pc[v] /\ act'[v] = act[v] /\ pending'[act'[v]] = pending[act[v]]
        BY <2>1, <2>3, <3>1
      <3>3. \A b \in Actions : snapshot'[b] # None => pending'[b] # "unborn"
        BY <2>1 DEF MintedOnce
      <3>4. pc'[w] = "store" => FALSE
        BY <2>3
      <3>5. \A v \in Workers : pc'[v] = "store" => pending'[act'[v]] = "unborn"
        BY <3>2, <3>4 DEF MintedOnce
      <3>6. \A v, u \in Workers :
              pc'[v] = "store" /\ pc'[u] # "idle" /\ act'[u] = act'[v] => u = v
        BY <2>3, <3>1, <3>2, <3>4 DEF MintedOnce
      <3>7. \A v \in Workers : pc'[v] \notin {"idle", "store"} => pending'[act'[v]] # "unborn"
        BY <2>1, <2>3, <3>2 DEF MintedOnce
      <3> QED BY <3>3, <3>5, <3>6, <3>7 DEF MintedOnce
    <2>6. DoneInFlight'
      BY <1>2, <2>1, <2>3 DEF DoneInFlight, MintedOnce, StorePending
    <2>7. (WritesAreGranted /\ AuditIsTruthful /\ SettledStaysSettled)'
      BY <2>1 DEF WritesAreGranted, AuditIsTruthful, SettledStaysSettled
    <2> QED BY <2>4, <2>5, <2>6, <2>7
  <1>3. ASSUME Load(w) PROVE SafetyInv'
    <2>1. UNCHANGED <<pending, snapshot, audit, writes, granted, reported, rejected>>
      BY <1>3 DEF Load
    <2>2. /\ \A v \in Workers : v # w => pc'[v] = pc[v] /\ act'[v] = act[v] /\ count'[v] = count[v]
          /\ pc'[w] = "idle" \/ (pc'[w] \in {"save", "invoke"} /\ act'[w] = act[w])
      BY <1>3 DEF Load, Return, Goto, Execute
    <2>3. pc[w] = "load"
      BY <1>3 DEF Load
    <2>4. GrantedInFlight'
      BY <2>1, <2>2, <2>3 DEF GrantedInFlight
    <2>5. MintedOnce'
      <3>1. \A v \in Workers :
              pc'[v] # "idle" => /\ pc[v] # "idle" /\ act'[v] = act[v]
                                 /\ pc'[v] = "store" <=> pc[v] = "store"
        BY <2>1, <2>2, <2>3
      <3>2. \A a \in Actions : snapshot'[a] # None => pending'[a] # "unborn"
        BY <2>1 DEF MintedOnce
      <3> QED BY <2>1, <3>1, <3>2, MintedOnceKept
    <2>6. DoneInFlight'
      BY <2>1, <2>2 DEF DoneInFlight
    <2>7. (WritesAreGranted /\ AuditIsTruthful /\ SettledStaysSettled)'
      BY <2>1 DEF WritesAreGranted, AuditIsTruthful, SettledStaysSettled
    <2> QED BY <2>4, <2>5, <2>6, <2>7
  <1> QED BY <1>1, <1>2, <1>3

\* The count gate and the snapshot keep the safety invariant.
LEMMA GateSafe ==
  ASSUME SafetyInv, TypeInv', NEW w \in Workers,
         (\E a \in Actions, c \in Counts : Approve(w, a, c))
           \/ Confirm(w) \/ SaveSnapshot(w)
  PROVE  SafetyInv'
  <1> USE DEF SafetyInv, TypeInv, TypeOK, store, hubspot, workers, history
  <1>1. ASSUME NEW a \in Actions, NEW c \in Counts, Approve(w, a, c) PROVE SafetyInv'
    <2>1. /\ UNCHANGED <<pending, snapshot, audit, writes, reported, rejected>>
          /\ pending[a] # "unborn" /\ pc[w] = "idle" /\ granted \subseteq granted'
      BY <1>1 DEF Approve, Present, Begin
    <2>2. /\ \A v \in Workers : v # w => pc'[v] = pc[v] /\ act'[v] = act[v] /\ count'[v] = count[v]
          /\ pc'[w] \in {"confirm", "save", "invoke"} /\ act'[w] = a /\ count'[w] = c
      BY <1>1 DEF Approve, Begin, Execute
    <2>3. /\ pc'[w] \in {"save", "invoke"} => a \in granted'
          /\ c = "exact" => a \in granted'
      BY <1>1, <2>1, <2>2 DEF Approve, Begin, Execute, Passes, GrantedInFlight
    <2>4. GrantedInFlight'
      BY <2>1, <2>2, <2>3 DEF GrantedInFlight
    <2>5. MintedOnce'
      BY <2>1, <2>2, MintedOnceBegun
    <2>6. DoneInFlight'
      BY <2>1, <2>2 DEF DoneInFlight
    <2>7. (WritesAreGranted /\ AuditIsTruthful /\ SettledStaysSettled)'
      BY <2>1 DEF WritesAreGranted, AuditIsTruthful, SettledStaysSettled
    <2> QED BY <2>4, <2>5, <2>6, <2>7
  <1>2. ASSUME Confirm(w) PROVE SafetyInv'
    <2>1. /\ UNCHANGED <<snapshot, audit, writes, granted, reported, rejected>>
          /\ act[w] \in Actions /\ pc[w] = "confirm"
          /\ \/ UNCHANGED pending
             \/ /\ Present(act[w]) /\ act[w] \in granted
                /\ pending' = [pending EXCEPT ![act[w]] = "confirmed"]
      BY <1>2 DEF Confirm, Accepts, GrantedInFlight
    <2>2. /\ \A v \in Workers : v # w => pc'[v] = pc[v] /\ act'[v] = act[v] /\ count'[v] = count[v]
          /\ \/ pc'[w] = "idle"
             \/ /\ pc'[w] \in {"save", "invoke"} /\ act'[w] = act[w]
                /\ act[w] \in granted
      BY <1>2 DEF Confirm, Return, Goto, Execute, Accepts, GrantedInFlight
    <2>4. GrantedInFlight'
      BY <2>1, <2>2 DEF GrantedInFlight
    <2>5. MintedOnce'
      <3>1. \A v \in Workers :
              pc'[v] # "idle" => /\ pc[v] # "idle" /\ act'[v] = act[v]
                                 /\ pc'[v] = "store" <=> pc[v] = "store"
        BY <2>1, <2>2
      <3>2. \A b \in Actions : pending'[b] = "unborn" <=> pending[b] = "unborn"
        BY <2>1 DEF Present
      <3>3. \A b \in Actions : snapshot'[b] # None => pending'[b] # "unborn"
        BY <2>1, <3>2 DEF MintedOnce
      <3> QED BY <3>1, <3>2, <3>3, MintedOnceKept
    <2>6. DoneInFlight'
      BY <2>1, <2>2 DEF Present, DoneInFlight
    <2>7. (WritesAreGranted /\ AuditIsTruthful /\ SettledStaysSettled)'
      BY <2>1 DEF Present, WritesAreGranted, AuditIsTruthful, SettledStaysSettled
    <2> QED BY <2>4, <2>5, <2>6, <2>7
  <1>3. ASSUME SaveSnapshot(w) PROVE SafetyInv'
    <2>1. /\ UNCHANGED <<pending, audit, writes, granted, reported, rejected>>
          /\ act[w] \in Actions /\ pc[w] = "save"
          /\ \A a \in Actions : a # act[w] => snapshot'[a] = snapshot[a]
      BY <1>3 DEF SaveSnapshot
    <2>2. /\ \A v \in Workers : v # w => pc'[v] = pc[v] /\ act'[v] = act[v] /\ count'[v] = count[v]
          /\ pc'[w] = "invoke" /\ act'[w] = act[w]
      BY <1>3 DEF SaveSnapshot, Goto
    <2>4. GrantedInFlight'
      BY <2>1, <2>2 DEF GrantedInFlight
    <2>5. MintedOnce'
      <3>1. \A v \in Workers :
              pc'[v] # "idle" => /\ pc[v] # "idle" /\ act'[v] = act[v]
                                 /\ pc'[v] = "store" <=> pc[v] = "store"
        BY <2>1, <2>2
      <3>2. \A b \in Actions : snapshot'[b] # None => pending'[b] # "unborn"
        BY <2>1, <2>2 DEF MintedOnce
      <3>3. \A b \in Actions : pending'[b] = "unborn" <=> pending[b] = "unborn"
        BY <2>1, <2>2
      <3> QED BY <3>1, <3>2, <3>3, MintedOnceKept
    <2>6. DoneInFlight'
      BY <2>1, <2>2 DEF DoneInFlight
    <2>7. (WritesAreGranted /\ AuditIsTruthful /\ SettledStaysSettled)'
      BY <2>1 DEF WritesAreGranted, AuditIsTruthful, SettledStaysSettled
    <2> QED BY <2>4, <2>5, <2>6, <2>7
  <1> QED BY <1>1, <1>2, <1>3

\* So do the HubSpot call and what follows it.
LEMMA ExecuteSafe ==
  ASSUME SafetyInv, TypeInv', NEW w \in Workers,
         Invoke(w) \/ DropSnapshot(w) \/ RecordCreated(w) \/ ClearPending(w) \/ Audit(w)
  PROVE  SafetyInv'
  <1> USE DEF SafetyInv, TypeInv, TypeOK, store, hubspot, workers, history
  <1>1. ASSUME Invoke(w) PROVE SafetyInv'
    <2>1. /\ UNCHANGED <<pending, snapshot, audit, granted, reported, rejected>>
          /\ act[w] \in Actions /\ pc[w] = "invoke" /\ act[w] \in granted
      BY <1>1 DEF Invoke, GrantedInFlight
    <2>2. /\ \A v \in Workers : v # w => pc'[v] = pc[v] /\ act'[v] = act[v] /\ count'[v] = count[v]
          /\ pc'[w] \in {"drop", "record", "clear"} /\ act'[w] = act[w]
      BY <1>1 DEF Invoke, Goto
    <2>3. /\ \A a \in Actions : writes'[a] # writes[a] => a = act[w]
          /\ \A a \in Actions : writes[a] > 0 => writes'[a] > 0
          /\ pc'[w] # "drop" => writes'[act[w]] > 0
      BY <1>1, <2>1 DEF Invoke, Effect, Failed, Goto
    <2>4. GrantedInFlight'
      BY <2>1, <2>2 DEF GrantedInFlight
    <2>5. MintedOnce'
      <3>1. \A v \in Workers :
              pc'[v] # "idle" => /\ pc[v] # "idle" /\ act'[v] = act[v]
                                 /\ pc'[v] = "store" <=> pc[v] = "store"
        BY <2>1, <2>2
      <3>2. \A b \in Actions : snapshot'[b] # None => pending'[b] # "unborn"
        BY <2>1, <2>2 DEF MintedOnce
      <3>3. \A b \in Actions : pending'[b] = "unborn" <=> pending[b] = "unborn"
        BY <2>1, <2>2
      <3> QED BY <3>1, <3>2, <3>3, MintedOnceKept
    <2>6. DoneInFlight'
      BY <2>1, <2>2, <2>3 DEF DoneInFlight
    <2>7. (WritesAreGranted /\ AuditIsTruthful /\ SettledStaysSettled)'
      BY <2>1, <2>3 DEF WritesAreGranted, AuditIsTruthful, SettledStaysSettled
    <2> QED BY <2>4, <2>5, <2>6, <2>7
  <1>2. ASSUME DropSnapshot(w) PROVE SafetyInv'
    <2>1. /\ UNCHANGED <<pending, audit, writes, granted, reported, rejected>>
          /\ act[w] \in Actions /\ pc[w] = "drop"
          /\ \A a \in Actions : snapshot'[a] # None => snapshot[a] # None
      BY <1>2 DEF DropSnapshot, LeftOnFailure
    <2>2. /\ \A v \in Workers : v # w => pc'[v] = pc[v] /\ act'[v] = act[v] /\ count'[v] = count[v]
          /\ pc'[w] = "idle"
      BY <1>2 DEF DropSnapshot, Return
    <2>4. GrantedInFlight'
      BY <2>1, <2>2 DEF GrantedInFlight
    <2>5. MintedOnce'
      <3>1. \A v \in Workers :
              pc'[v] # "idle" => /\ pc[v] # "idle" /\ act'[v] = act[v]
                                 /\ pc'[v] = "store" <=> pc[v] = "store"
        BY <2>1, <2>2
      <3>2. \A b \in Actions : snapshot'[b] # None => pending'[b] # "unborn"
        BY <2>1, <2>2 DEF MintedOnce
      <3>3. \A b \in Actions : pending'[b] = "unborn" <=> pending[b] = "unborn"
        BY <2>1, <2>2
      <3> QED BY <3>1, <3>2, <3>3, MintedOnceKept
    <2>6. DoneInFlight'
      BY <2>1, <2>2 DEF DoneInFlight
    <2>7. (WritesAreGranted /\ AuditIsTruthful /\ SettledStaysSettled)'
      BY <2>1 DEF WritesAreGranted, AuditIsTruthful, SettledStaysSettled
    <2> QED BY <2>4, <2>5, <2>6, <2>7
  <1>3. ASSUME RecordCreated(w) PROVE SafetyInv'
    <2>1. /\ UNCHANGED <<pending, audit, writes, granted, reported, rejected>>
          /\ act[w] \in Actions /\ pc[w] = "record"
          /\ \A a \in Actions : snapshot'[a] # None => snapshot[a] # None
      BY <1>3 DEF RecordCreated, Merge
    <2>2. /\ \A v \in Workers : v # w => pc'[v] = pc[v] /\ act'[v] = act[v] /\ count'[v] = count[v]
          /\ pc'[w] = "clear" /\ act'[w] = act[w]
      BY <1>3 DEF RecordCreated, Goto
    <2>4. GrantedInFlight'
      BY <2>1, <2>2 DEF GrantedInFlight
    <2>5. MintedOnce'
      <3>1. \A v \in Workers :
              pc'[v] # "idle" => /\ pc[v] # "idle" /\ act'[v] = act[v]
                                 /\ pc'[v] = "store" <=> pc[v] = "store"
        BY <2>1, <2>2
      <3>2. \A b \in Actions : snapshot'[b] # None => pending'[b] # "unborn"
        BY <2>1, <2>2 DEF MintedOnce
      <3>3. \A b \in Actions : pending'[b] = "unborn" <=> pending[b] = "unborn"
        BY <2>1, <2>2
      <3> QED BY <3>1, <3>2, <3>3, MintedOnceKept
    <2>6. DoneInFlight'
      BY <2>1, <2>2 DEF DoneInFlight
    <2>7. (WritesAreGranted /\ AuditIsTruthful /\ SettledStaysSettled)'
      BY <2>1 DEF WritesAreGranted, AuditIsTruthful, SettledStaysSettled
    <2> QED BY <2>4, <2>5, <2>6, <2>7
  <1>4. ASSUME ClearPending(w) PROVE SafetyInv'
    <2>1. /\ UNCHANGED <<snapshot, audit, writes, granted, reported, rejected>>
          /\ act[w] \in Actions /\ pc[w] = "clear" /\ pending[act[w]] # "unborn"
          /\ pending' = [pending EXCEPT ![act[w]] = "gone"]
      BY <1>4 DEF ClearPending, Clear, MintedOnce
    <2>2. /\ \A v \in Workers : v # w => pc'[v] = pc[v] /\ act'[v] = act[v] /\ count'[v] = count[v]
          /\ pc'[w] = "audit" /\ act'[w] = act[w]
      BY <1>4 DEF ClearPending, Goto
    <2>4. GrantedInFlight'
      BY <2>1, <2>2 DEF GrantedInFlight
    <2>5. MintedOnce'
      <3>1. \A v \in Workers :
              pc'[v] # "idle" => /\ pc[v] # "idle" /\ act'[v] = act[v]
                                 /\ pc'[v] = "store" <=> pc[v] = "store"
        BY <2>1, <2>2
      <3>2. \A b \in Actions : snapshot'[b] # None => pending'[b] # "unborn"
        BY <2>1, <2>2 DEF MintedOnce
      <3>3. \A b \in Actions : pending'[b] = "unborn" <=> pending[b] = "unborn"
        BY <2>1, <2>2
      <3> QED BY <3>1, <3>2, <3>3, MintedOnceKept
    <2>6. DoneInFlight'
      BY <2>1, <2>2 DEF DoneInFlight
    <2>7. (WritesAreGranted /\ AuditIsTruthful /\ SettledStaysSettled)'
      BY <2>1 DEF WritesAreGranted, AuditIsTruthful, SettledStaysSettled
    <2> QED BY <2>4, <2>5, <2>6, <2>7
  <1>5. ASSUME Audit(w) PROVE SafetyInv'
    <2>1. /\ UNCHANGED <<pending, snapshot, writes, granted, rejected>>
          /\ act[w] \in Actions /\ pc[w] = "audit"
          /\ reported' = reported \union {act[w]}
          /\ audit' \subseteq audit \union {<<"approve", act[w]>>}
      BY <1>5 DEF Audit
    <2>2. /\ \A v \in Workers : v # w => pc'[v] = pc[v] /\ act'[v] = act[v] /\ count'[v] = count[v]
          /\ pc'[w] = "idle"
      BY <1>5 DEF Audit, Return
    <2>3. writes[act[w]] > 0 /\ pending[act[w]] = "gone"
      BY <2>1 DEF DoneInFlight
    <2>4. GrantedInFlight'
      BY <2>1, <2>2 DEF GrantedInFlight
    <2>5. MintedOnce'
      <3>1. \A v \in Workers :
              pc'[v] # "idle" => /\ pc[v] # "idle" /\ act'[v] = act[v]
                                 /\ pc'[v] = "store" <=> pc[v] = "store"
        BY <2>1, <2>2
      <3>2. \A b \in Actions : snapshot'[b] # None => pending'[b] # "unborn"
        BY <2>1, <2>2 DEF MintedOnce
      <3>3. \A b \in Actions : pending'[b] = "unborn" <=> pending[b] = "unborn"
        BY <2>1, <2>2
      <3> QED BY <3>1, <3>2, <3>3, MintedOnceKept
    <2>6. DoneInFlight'
      BY <2>1, <2>2 DEF DoneInFlight
    <2>7. (WritesAreGranted /\ AuditIsTruthful /\ SettledStaysSettled)'
      BY <2>1, <2>3 DEF WritesAreGranted, AuditIsTruthful, SettledStaysSettled
    <2> QED BY <2>4, <2>5, <2>6, <2>7
  <1> QED BY <1>1, <1>2, <1>3, <1>4, <1>5

\* And reject and undo.
LEMMA RejectUndoSafe ==
  ASSUME SafetyInv, TypeInv', NEW w \in Workers,
         \/ \E a \in Actions : Reject(w, a) \/ Undo(w, a)
         \/ Discard(w) \/ Restore(w) \/ ForgetSnapshot(w) \/ UndoAudit(w)
  PROVE  SafetyInv'
  <1> USE DEF SafetyInv, TypeInv, TypeOK, store, hubspot, workers, history
  <1>1. ASSUME NEW a \in Actions, Reject(w, a) \/ Undo(w, a) PROVE SafetyInv'
    <2>1. /\ UNCHANGED <<pending, snapshot, audit, writes, granted, reported, rejected>>
          /\ pending[a] # "unborn"
      BY <1>1 DEF Reject, Undo, Present, MintedOnce
    <2>2. /\ \A v \in Workers : v # w => pc'[v] = pc[v] /\ act'[v] = act[v] /\ count'[v] = count[v]
          /\ pc'[w] \in {"discard", "restore"} /\ act'[w] = a
      BY <1>1 DEF Reject, Undo, Begin
    <2>4. GrantedInFlight'
      BY <2>1, <2>2 DEF GrantedInFlight
    <2>5. MintedOnce'
      BY <2>1, <2>2, MintedOnceBegun
    <2>6. DoneInFlight'
      BY <2>1, <2>2 DEF DoneInFlight
    <2>7. (WritesAreGranted /\ AuditIsTruthful /\ SettledStaysSettled)'
      BY <2>1 DEF WritesAreGranted, AuditIsTruthful, SettledStaysSettled
    <2> QED BY <2>4, <2>5, <2>6, <2>7
  <1>2. ASSUME Discard(w) PROVE SafetyInv'
    <2>1. /\ UNCHANGED <<snapshot, audit, writes, granted, reported>>
          /\ act[w] \in Actions /\ pc[w] = "discard" /\ pending[act[w]] # "unborn"
          /\ pending' = [pending EXCEPT ![act[w]] = "gone"]
          /\ rejected' = rejected \union {act[w]}
      BY <1>2 DEF Discard, Clear, MintedOnce
    <2>2. /\ \A v \in Workers : v # w => pc'[v] = pc[v] /\ act'[v] = act[v] /\ count'[v] = count[v]
          /\ pc'[w] = "idle"
      BY <1>2 DEF Discard, Return
    <2>4. GrantedInFlight'
      BY <2>1, <2>2 DEF GrantedInFlight
    <2>5. MintedOnce'
      <3>1. \A v \in Workers :
              pc'[v] # "idle" => /\ pc[v] # "idle" /\ act'[v] = act[v]
                                 /\ pc'[v] = "store" <=> pc[v] = "store"
        BY <2>1, <2>2
      <3>2. \A b \in Actions : snapshot'[b] # None => pending'[b] # "unborn"
        BY <2>1, <2>2 DEF MintedOnce
      <3>3. \A b \in Actions : pending'[b] = "unborn" <=> pending[b] = "unborn"
        BY <2>1, <2>2
      <3> QED BY <3>1, <3>2, <3>3, MintedOnceKept
    <2>6. DoneInFlight'
      BY <2>1, <2>2 DEF DoneInFlight
    <2>7. (WritesAreGranted /\ AuditIsTruthful /\ SettledStaysSettled)'
      BY <2>1 DEF WritesAreGranted, AuditIsTruthful, SettledStaysSettled
    <2> QED BY <2>4, <2>5, <2>6, <2>7
  <1>3. ASSUME Restore(w) \/ ForgetSnapshot(w) \/ UndoAudit(w) PROVE SafetyInv'
    <2>1. /\ UNCHANGED <<pending, writes, granted, reported, rejected>>
          /\ act[w] \in Actions /\ pc[w] \in UndoSteps
          /\ audit' \subseteq audit \union {<<"undo", act[w]>>}
          /\ \A a \in Actions : snapshot'[a] # None => snapshot[a] # None
      BY <1>3 DEF Restore, ForgetSnapshot, UndoAudit, UndoSteps
    <2>2. /\ \A v \in Workers : v # w => pc'[v] = pc[v] /\ act'[v] = act[v] /\ count'[v] = count[v]
          /\ \/ pc'[w] = "idle"
             \/ pc'[w] \in {"forget", "undo_audit"} /\ act'[w] = act[w]
      BY <1>3 DEF Restore, ForgetSnapshot, UndoAudit, Goto, Return
    <2>3. pending[act[w]] # "unborn" /\ pc[w] \notin {"idle", "store"}
      BY <2>1 DEF UndoSteps, MintedOnce
    <2>4. GrantedInFlight'
      BY <2>1, <2>2 DEF GrantedInFlight
    <2>5. MintedOnce'
      <3>1. \A v \in Workers :
              pc'[v] # "idle" => /\ pc[v] # "idle" /\ act'[v] = act[v]
                                 /\ pc'[v] = "store" <=> pc[v] = "store"
        BY <2>1, <2>2, <2>3
      <3>2. \A a \in Actions : snapshot'[a] # None => pending'[a] # "unborn"
        BY <2>1 DEF MintedOnce
      <3> QED BY <2>1, <3>1, <3>2, MintedOnceKept
    <2>6. DoneInFlight'
      BY SMTT(30), <2>1, <2>2 DEF DoneInFlight
    <2>7. (WritesAreGranted /\ AuditIsTruthful /\ SettledStaysSettled)'
      BY <2>1 DEF WritesAreGranted, AuditIsTruthful, SettledStaysSettled
    <2> QED BY <2>4, <2>5, <2>6, <2>7
  <1> QED BY <1>1, <1>2, <1>3

\* And everything around the server.
LEMMA EnvironmentSafe ==
  ASSUME SafetyInv, TypeInv',
         \/ \E w \in Workers : Abort(w)
         \/ \E a \in Actions : ExpirePending(a) \/ ExpireSnapshot(a)
         \/ \E r \in Records : Edit(r)
  PROVE  SafetyInv'
  <1> USE DEF SafetyInv, TypeInv, TypeOK, store, hubspot, workers, history
  <1>1. ASSUME NEW w \in Workers, Abort(w) PROVE SafetyInv'
    <2>1. UNCHANGED <<pending, snapshot, audit, writes, granted, reported, rejected>>
      BY <1>1 DEF Abort
    <2>2. /\ \A v \in Workers : v # w => pc'[v] = pc[v] /\ act'[v] = act[v] /\ count'[v] = count[v]
          /\ pc'[w] = "idle"
      BY <1>1 DEF Abort, Return
    <2>4. GrantedInFlight'
      BY <2>1, <2>2 DEF GrantedInFlight
    <2>5. MintedOnce'
      <3>1. \A v \in Workers :
              pc'[v] # "idle" => /\ pc[v] # "idle" /\ act'[v] = act[v]
                                 /\ pc'[v] = "store" <=> pc[v] = "store"
        BY <2>1, <2>2
      <3>2. \A b \in Actions : snapshot'[b] # None => pending'[b] # "unborn"
        BY <2>1, <2>2 DEF MintedOnce
      <3>3. \A b \in Actions : pending'[b] = "unborn" <=> pending[b] = "unborn"
        BY <2>1, <2>2
      <3> QED BY <3>1, <3>2, <3>3, MintedOnceKept
    <2>6. DoneInFlight'
      BY <2>1, <2>2 DEF DoneInFlight
    <2>7. (WritesAreGranted /\ AuditIsTruthful /\ SettledStaysSettled)'
      BY <2>1 DEF WritesAreGranted, AuditIsTruthful, SettledStaysSettled
    <2> QED BY <2>4, <2>5, <2>6, <2>7
  <1>2. ASSUME NEW a \in Actions, ExpirePending(a) PROVE SafetyInv'
    <2>1. /\ UNCHANGED <<snapshot, audit, writes, granted, reported, rejected, pc, act, count>>
          /\ Present(a) /\ pending' = [pending EXCEPT ![a] = "gone"]
      BY <1>2 DEF ExpirePending
    <2>2. pending[a] # "unborn"
      BY <2>1 DEF Present
    <2>4. GrantedInFlight'
      BY <2>1 DEF GrantedInFlight
    <2>5. MintedOnce'
      <3>1. \A v \in Workers :
              pc'[v] # "idle" => /\ pc[v] # "idle" /\ act'[v] = act[v]
                                 /\ pc'[v] = "store" <=> pc[v] = "store"
        BY <2>1, <2>2
      <3>2. \A b \in Actions : snapshot'[b] # None => pending'[b] # "unborn"
        BY <2>1, <2>2 DEF MintedOnce
      <3>3. \A b \in Actions : pending'[b] = "unborn" <=> pending[b] = "unborn"
        BY <2>1, <2>2
      <3> QED BY <3>1, <3>2, <3>3, MintedOnceKept
    <2>6. DoneInFlight'
      BY <2>1 DEF DoneInFlight
    <2>7. (WritesAreGranted /\ AuditIsTruthful /\ SettledStaysSettled)'
      BY <2>1 DEF WritesAreGranted, AuditIsTruthful, SettledStaysSettled
    <2> QED BY <2>4, <2>5, <2>6, <2>7
  <1>3. ASSUME NEW a \in Actions, ExpireSnapshot(a) PROVE SafetyInv'
    <2>1. /\ UNCHANGED <<pending, audit, writes, granted, reported, rejected, pc, act, count>>
          /\ \A b \in Actions : snapshot'[b] # None => snapshot[b] # None
      BY <1>3 DEF ExpireSnapshot
    <2>4. GrantedInFlight'
      BY <2>1 DEF GrantedInFlight
    <2>5. MintedOnce'
      <3>1. \A v \in Workers :
              pc'[v] # "idle" => /\ pc[v] # "idle" /\ act'[v] = act[v]
                                 /\ pc'[v] = "store" <=> pc[v] = "store"
        BY <2>1
      <3>2. \A b \in Actions : snapshot'[b] # None => pending'[b] # "unborn"
        BY <2>1 DEF MintedOnce
      <3>3. \A b \in Actions : pending'[b] = "unborn" <=> pending[b] = "unborn"
        BY <2>1
      <3> QED BY <3>1, <3>2, <3>3, MintedOnceKept
    <2>6. DoneInFlight'
      BY <2>1 DEF DoneInFlight
    <2>7. (WritesAreGranted /\ AuditIsTruthful /\ SettledStaysSettled)'
      BY <2>1 DEF WritesAreGranted, AuditIsTruthful, SettledStaysSettled
    <2> QED BY <2>4, <2>5, <2>6, <2>7
  <1>4. ASSUME NEW r \in Records, Edit(r) PROVE SafetyInv'
    <2>1. UNCHANGED <<pending, snapshot, audit, writes, granted, reported, rejected, pc, act, count>>
      BY <1>4 DEF Edit
    <2>4. GrantedInFlight'
      BY <2>1 DEF GrantedInFlight
    <2>5. MintedOnce'
      <3>1. \A v \in Workers :
              pc'[v] # "idle" => /\ pc[v] # "idle" /\ act'[v] = act[v]
                                 /\ pc'[v] = "store" <=> pc[v] = "store"
        BY <2>1
      <3>2. \A b \in Actions : snapshot'[b] # None => pending'[b] # "unborn"
        BY <2>1 DEF MintedOnce
      <3>3. \A b \in Actions : pending'[b] = "unborn" <=> pending[b] = "unborn"
        BY <2>1
      <3> QED BY <3>1, <3>2, <3>3, MintedOnceKept
    <2>6. DoneInFlight'
      BY <2>1 DEF DoneInFlight
    <2>7. (WritesAreGranted /\ AuditIsTruthful /\ SettledStaysSettled)'
      BY <2>1 DEF WritesAreGranted, AuditIsTruthful, SettledStaysSettled
    <2> QED BY <2>4, <2>5, <2>6, <2>7
  <1> QED BY <1>1, <1>2, <1>3, <1>4

\* The strengthening is an invariant.
LEMMA Safety == Spec => []SafetyInv
  <1>1. SafetyInv /\ [Next]_vars => SafetyInv'
    <2> SUFFICES ASSUME SafetyInv, [Next]_vars PROVE SafetyInv'
      OBVIOUS
    <2>1. CASE UNCHANGED vars
      <3>1. TypeInv'
        BY <2>1 DEF vars, store, hubspot, workers, history, SafetyInv, TypeInv, TypeOK, Known
      <3> QED BY <2>1, <3>1 DEF vars, store, hubspot, workers, history, SafetyInv,
            GrantedInFlight, MintedOnce, DoneInFlight, WritesAreGranted,
            AuditIsTruthful, SettledStaysSettled
    <2>2. CASE Next
      <3>1. TypeInv'
        BY <2>2, NextType DEF SafetyInv
      <3> QED BY <2>2, <3>1, ToolSafe, GateSafe, ExecuteSafe, RejectUndoSafe, EnvironmentSafe
             DEF Next, Arrive, Step
    <2> QED BY <2>1, <2>2
  <1> QED BY InitSafe, <1>1, PTL DEF Spec

\* No write reaches HubSpot before its tier is satisfied, whatever the number
\* of requests and their failures (the count gate of execute_pending_write).
THEOREM NoUngrantedWrite == Spec => []WritesAreGranted
  <1>1. SafetyInv => WritesAreGranted
    BY DEF SafetyInv
  <1> QED BY Safety, <1>1, PTL

\* The audit log records no approve that HubSpot did not apply.
THEOREM AuditNeverLies == Spec => []AuditIsTruthful
  <1>1. SafetyInv => AuditIsTruthful
    BY DEF SafetyInv
  <1> QED BY Safety, <1>1, PTL

\* No executed or rejected action can be approved again.
THEOREM SettledForGood == Spec => []SettledStaysSettled
  <1>1. SafetyInv => SettledStaysSettled
    BY DEF SafetyInv
  <1> QED BY Safety, <1>1, PTL

-----------------------------------------------------------------------------
(* Refinement of GateContract *)

\* A step of one request on action a leaves the phase of every other action.
LEMMA OtherPhases ==
  ASSUME NEW w \in Workers, NEW a \in Actions,
         \A v \in Workers : v # w => pc'[v] = pc[v] /\ act'[v] = act[v],
         \A b \in Actions : b # a => pending'[b] = pending[b],
         pc[w] # "idle" => act[w] = a,
         pc'[w] # "idle" => act'[w] = a
  PROVE  \A b \in Actions : b # a => Phase'[b] = Phase[b]
  <1> SUFFICES ASSUME NEW b \in Actions, b # a PROVE Phase'[b] = Phase[b]
    OBVIOUS
  <1>1. Executing(b)' <=> Executing(b)
    BY DEF Executing
  <1> QED BY <1>1 DEF Phase, Present

\* If at most one phase moves, and only from open to closed, the contract
\* takes a Close step or none.
LEMMA CloseOrStutter ==
  ASSUME NEW a \in Actions,
         \A b \in Actions : b # a => Phase'[b] = Phase[b],
         Phase'[a] = Phase[a] \/ (Phase[a] = "open" /\ Phase'[a] = "closed"),
         UNCHANGED <<granted, writes>>
  PROVE  [Contract!Next]_Contract!vars
  <1>1. CASE Phase'[a] = Phase[a]
    <2>1. Phase' = Phase
      BY <1>1 DEF Phase
    <2> QED BY <2>1 DEF Contract!vars
  <1>2. CASE Phase[a] = "open" /\ Phase'[a] = "closed"
    <2>1. Phase' = [Phase EXCEPT ![a] = "closed"]
      BY <1>2 DEF Phase
    <2> QED BY <1>2, <2>1 DEF Contract!Next, Contract!Close
  <1> QED BY <1>1, <1>2

\* The steps that change neither the grants nor HubSpot are steps of the
\* contract.
LEMMA QuietRefines ==
  ASSUME SafetyInv, SafetyInv', NEW w \in Workers,
         \/ \E a \in Actions : CallTool(w, a) \/ Reject(w, a) \/ Undo(w, a)
         \/ Load(w) \/ Confirm(w) \/ SaveSnapshot(w) \/ DropSnapshot(w)
         \/ RecordCreated(w) \/ ClearPending(w) \/ Audit(w) \/ Discard(w)
         \/ Restore(w) \/ ForgetSnapshot(w) \/ UndoAudit(w) \/ Abort(w)
  PROVE  [Contract!Next]_Contract!vars
  <1> USE DEF SafetyInv, TypeInv, TypeOK, store, hubspot, workers, history
  <1>1. ASSUME NEW a \in Actions, CallTool(w, a) \/ Reject(w, a) \/ Undo(w, a)
        PROVE  [Contract!Next]_Contract!vars
    <2>1. /\ UNCHANGED <<pending, granted, writes>> /\ pc[w] = "idle"
          /\ \A v \in Workers : v # w => pc'[v] = pc[v] /\ act'[v] = act[v]
          /\ pc'[w] \in {"store", "discard", "restore"} /\ act'[w] = a
      BY <1>1 DEF CallTool, Reject, Undo, Begin
    <2>2. \A b \in Actions : b # a => Phase'[b] = Phase[b]
      BY <2>1, OtherPhases
    <2>3. Executing(a)' <=> Executing(a)
      BY <2>1 DEF Executing
    <2>4. Phase'[a] = Phase[a]
      BY <2>1, <2>3 DEF Phase, Present
    <2> QED BY <2>1, <2>2, <2>4, CloseOrStutter
  <1>2. ASSUME \/ Load(w) \/ Confirm(w) \/ SaveSnapshot(w) \/ DropSnapshot(w)
               \/ RecordCreated(w) \/ ClearPending(w) \/ Audit(w) \/ Discard(w)
               \/ Restore(w) \/ ForgetSnapshot(w) \/ UndoAudit(w) \/ Abort(w)
        PROVE  [Contract!Next]_Contract!vars
    <2> DEFINE Exec == {"save", "invoke", "record", "clear", "audit", "drop"}
    <2>0. PICK a \in Actions : a = act[w]
      BY <1>2 DEF Load, Confirm, SaveSnapshot, DropSnapshot, RecordCreated,
           ClearPending, Audit, Discard, Restore, ForgetSnapshot, UndoAudit, Abort
    <2>1. /\ UNCHANGED <<granted, writes>> /\ pc[w] # "idle"
          /\ \A v \in Workers : v # w => pc'[v] = pc[v] /\ act'[v] = act[v]
          /\ pc'[w] # "idle" => act'[w] = a
      BY <1>2, <2>0 DEF Load, Confirm, SaveSnapshot, DropSnapshot, RecordCreated,
           ClearPending, Audit, Discard, Restore, ForgetSnapshot, UndoAudit,
           Abort, Goto, Return
    <2>2. /\ \A b \in Actions : b # a => pending'[b] = pending[b]
          /\ \/ pending'[a] = pending[a]
             \/ pending'[a] = "gone" /\ pending[a] # "unborn"
             \/ Present(a) /\ Present(a)'
      <3>1. CASE Confirm(w)
        BY <2>0, <3>1 DEF Confirm, Accepts, Present
      <3>2. CASE ClearPending(w) \/ Discard(w)
        BY <2>0, <3>2 DEF ClearPending, Discard, Clear, MintedOnce
      <3>3. CASE UNCHANGED pending
        BY <3>3
      <3> QED BY <1>2, <3>1, <3>2, <3>3 DEF Load, SaveSnapshot, DropSnapshot,
             RecordCreated, Audit, Restore, ForgetSnapshot, UndoAudit, Abort
    <2>3. \A b \in Actions : b # a => Phase'[b] = Phase[b]
      BY <2>0, <2>1, <2>2, OtherPhases
    <2>4. pc'[w] \in Exec => pc[w] \in Exec \/ Present(a)
      <3>1. CASE Load(w) \/ Confirm(w)
        BY <2>0, <3>1 DEF Load, Loaded, Confirm, Accepts, Return
      <3>2. CASE \/ SaveSnapshot(w) \/ DropSnapshot(w) \/ RecordCreated(w)
                 \/ ClearPending(w) \/ Audit(w)
        BY <3>2 DEF SaveSnapshot, DropSnapshot, RecordCreated, ClearPending, Audit
      <3>3. CASE \/ Discard(w) \/ Restore(w) \/ ForgetSnapshot(w)
                 \/ UndoAudit(w) \/ Abort(w)
        BY <3>3 DEF Discard, Restore, ForgetSnapshot, UndoAudit, Abort, Goto, Return
      <3> QED BY <1>2, <3>1, <3>2, <3>3
    <2>5. Executing(a)' => Executing(a) \/ Present(a)
      BY <2>0, <2>1, <2>4 DEF Executing
    <2>6. Executing(a) => pending[a] # "unborn"
      <3> SUFFICES ASSUME Executing(a) PROVE pending[a] # "unborn"
        OBVIOUS
      <3>1. PICK v \in Workers : act[v] = a /\ pc[v] \notin {"idle", "store"}
        BY DEF Executing
      <3> QED BY <3>1 DEF MintedOnce
    <2>7. Phase'[a] = Phase[a] \/ (Phase[a] = "open" /\ Phase'[a] = "closed")
      BY <2>2, <2>5, <2>6 DEF Phase, Present
    <2> QED BY <2>1, <2>3, <2>7, CloseOrStutter
  <1> QED BY <1>1, <1>2

\* The steps that open, grant, apply or expire an action are steps of the
\* contract.
LEMMA LoudRefines ==
  ASSUME SafetyInv, SafetyInv',
         \/ \E w \in Workers : StorePending(w) \/ Invoke(w)
         \/ \E w \in Workers, a \in Actions, c \in Counts : Approve(w, a, c)
         \/ \E a \in Actions : ExpirePending(a) \/ ExpireSnapshot(a)
         \/ \E r \in Records : Edit(r)
  PROVE  [Contract!Next]_Contract!vars
  <1> USE DEF SafetyInv, TypeInv, TypeOK, store, hubspot, workers, history
  <1>1. ASSUME NEW w \in Workers, StorePending(w) PROVE [Contract!Next]_Contract!vars
    <2> DEFINE a == act[w]
    <2>1. /\ a \in Actions /\ pending[a] = "unborn" /\ UNCHANGED writes
          /\ pending' = [pending EXCEPT ![a] = "unconfirmed"]
          /\ granted' \in {granted, granted \union {a}}
      BY <1>1 DEF StorePending, MintedOnce
    <2>2. /\ \A v \in Workers : v # w => pc'[v] = pc[v] /\ act'[v] = act[v]
          /\ pc[w] # "idle" /\ (pc'[w] # "idle" => act'[w] = a)
      BY <1>1 DEF StorePending, Goto, Return
    <2>3. \A b \in Actions : b # a => Phase'[b] = Phase[b]
      BY <2>1, <2>2, OtherPhases
    <2>4. Phase[a] = "new" /\ Phase'[a] = "open"
      BY <2>1 DEF Phase, Present
    <2>5. Phase' = [Phase EXCEPT ![a] = "open"]
      BY <2>3, <2>4 DEF Phase
    <2> QED BY <2>1, <2>4, <2>5 DEF Contract!Next, Contract!Open
  <1>2. ASSUME NEW w \in Workers, NEW a \in Actions, NEW c \in Counts, Approve(w, a, c)
        PROVE  [Contract!Next]_Contract!vars
    <2>1. /\ Present(a) /\ UNCHANGED <<pending, writes>> /\ pc[w] = "idle"
          /\ granted' \in {granted, granted \union {a}}
          /\ \A v \in Workers : v # w => pc'[v] = pc[v] /\ act'[v] = act[v]
          /\ act'[w] = a
      BY <1>2 DEF Approve, Begin
    <2>2. \A b \in Actions : b # a => Phase'[b] = Phase[b]
      BY <2>1, OtherPhases
    <2>3. Phase[a] = "open" /\ Phase'[a] = "open"
      BY <2>1 DEF Phase, Present
    <2>4. Phase' = Phase
      BY <2>2, <2>3 DEF Phase
    <2> QED BY <2>1, <2>3, <2>4 DEF Contract!Next, Contract!Grant, Contract!vars
  <1>3. ASSUME NEW w \in Workers, Invoke(w) PROVE [Contract!Next]_Contract!vars
    <2> DEFINE a == act[w]
    <2>1. /\ a \in Actions /\ pending[a] # "unborn" /\ a \in granted
          /\ pc[w] = "invoke" /\ UNCHANGED <<pending, granted>>
      BY <1>3 DEF Invoke, MintedOnce, GrantedInFlight
    <2>2. /\ \A v \in Workers : v # w => pc'[v] = pc[v] /\ act'[v] = act[v]
          /\ pc'[w] \in {"drop", "record", "clear"} /\ act'[w] = a
      BY <1>3 DEF Invoke, Goto
    <2>3. \A b \in Actions : b # a => Phase'[b] = Phase[b]
      BY <2>1, <2>2, OtherPhases
    <2>4. Phase[a] = "open" /\ Phase'[a] = "open"
      BY <2>1, <2>2 DEF Phase, Executing
    <2>5. Phase' = Phase
      BY <2>3, <2>4 DEF Phase
    <2>6. UNCHANGED writes \/ writes' = [writes EXCEPT ![a] = @ + 1]
      BY <1>3 DEF Invoke, Effect
    <2> QED BY <2>1, <2>4, <2>5, <2>6 DEF Contract!Next, Contract!Apply, Contract!vars
  <1>4. ASSUME NEW a \in Actions, ExpirePending(a) PROVE [Contract!Next]_Contract!vars
    <2>1. /\ Present(a) /\ pending' = [pending EXCEPT ![a] = "gone"]
          /\ UNCHANGED <<pc, act, granted, writes>>
      BY <1>4 DEF ExpirePending
    <2>2. \A b \in Actions : Executing(b)' <=> Executing(b)
      BY <2>1 DEF Executing
    <2>3. \A b \in Actions : b # a => Phase'[b] = Phase[b]
      BY <2>1, <2>2 DEF Phase, Present
    <2>4. Phase[a] = "open" /\ Phase'[a] \in {"open", "closed"}
      BY <2>1 DEF Phase, Present
    <2> QED BY <2>1, <2>3, <2>4, CloseOrStutter
  <1>5. ASSUME \/ \E a \in Actions : ExpireSnapshot(a)
               \/ \E r \in Records : Edit(r)
        PROVE  [Contract!Next]_Contract!vars
    <2>1. UNCHANGED <<pending, pc, act, granted, writes>>
      BY <1>5 DEF ExpireSnapshot, Edit
    <2>2. Phase' = Phase
      BY <2>1 DEF Phase, Present, Executing
    <2> QED BY <2>1, <2>2 DEF Contract!vars
  <1> QED BY <1>1, <1>2, <1>3, <1>4, <1>5

\* The gate implements its contract: an action is written only while it is
\* open and granted, and once closed is never written or opened again.
THEOREM GateImplementsContract == Spec => ImplementsContract
  <1>1. Init => Contract!Init
    BY DEF Init, Contract!Init, Phase
  <1>2. SafetyInv /\ SafetyInv' /\ [Next]_vars => [Contract!Next]_Contract!vars
    <2> SUFFICES ASSUME SafetyInv, SafetyInv', [Next]_vars
                 PROVE  [Contract!Next]_Contract!vars
      OBVIOUS
    <2>1. CASE UNCHANGED vars
      <3>1. UNCHANGED <<pending, pc, act, granted, writes>>
        BY <2>1 DEF vars, store, hubspot, workers, history
      <3>2. Phase' = Phase
        BY <3>1 DEF Phase, Present, Executing
      <3> QED BY <3>1, <3>2 DEF Contract!vars
    <2>2. CASE Next
      BY <2>2, QuietRefines, LoudRefines DEF Next, Arrive, Step
    <2> QED BY <2>1, <2>2
  <1> QED BY <1>1, <1>2, Safety, PTL DEF Spec, ImplementsContract, Contract!Spec

-----------------------------------------------------------------------------
(* Requests that come one at a time *)

\* Requests come one at a time, none is cut short, and HubSpot answers every write.
OneAtATime == /\ \A v, w \in Workers : v = w
              /\ MaxAborts = 0 /\ "lost" \notin InvokeOutcomes

\* Before the write of an action, and after it.
Early == {"store", "load", "confirm", "save", "invoke", "drop", "discard"}
Late == {"record", "clear", "audit", "restore", "forget", "undo_audit"}

\* HubSpot has applied an action once its request is past the call, and then its
\* preview is cleared before another request can load it.
Once ==
  /\ budget.aborts = 0
  /\ \A a \in Actions :
       /\ writes[a] \in {0, 1} /\ (preview[a] = None => writes[a] = 0)
       /\ writes[a] = 1 =>
            pending[a] = "gone" \/ \E w \in Workers : act[w] = a /\ pc[w] \in {"record", "clear"}
  /\ \A w \in Workers : /\ pc[w] \in Early => writes[act[w]] = 0
                        /\ pc[w] \in Late => writes[act[w]] = 1
  /\ reported \union undone \subseteq {a \in Actions : writes[a] = 1}

\* A snapshot, stored or taken by an undo, holds the original of its preview and the
\* one object its create made, and outlives its request only if the write was applied.
SnapshotsKnown ==
  /\ \A a \in Actions : snapshot[a] # None =>
       /\ Snapshotted(a) /\ snapshot[a].original = preview[a].original
       /\ snapshot[a].ids \subseteq {1}
       /\ writes[a] = 1 \/ \E w \in Workers : act[w] = a /\ pc[w] \in {"invoke", "drop"}
  /\ \A w \in Workers :
       /\ pc[w] = "save" => Snapshotted(act[w])
       /\ pc[w] = "record" => held[w].ids = {1}
       /\ pc[w] = "restore" => /\ held[w].original = preview[act[w]].original
                               /\ preview[act[w]].kind = "create" => held[w].ids = {1}

\* The objects a create made are there until its undo; no other write makes any.
LiveKnown ==
  /\ \A a \in Actions : /\ live[a] \subseteq {1} /\ (writes[a] = 0 => live[a] = {})
                        /\ preview[a] # None /\ preview[a].kind # "create" => live[a] = {}
                        /\ a \in undone => live[a] = {}
  /\ \A w \in Workers : pc[w] = "forget" => live[act[w]] = {}

\* A value that names an action was written by it, and not read by its own preview.
NamesKnown ==
  /\ \A r \in Records : record[r] \in Actions => writes[record[r]] = 1
  /\ \A a \in Actions : preview[a] # None /\ preview[a].original \in Actions =>
       preview[a].original # a /\ writes[preview[a].original] = 1

\* The value of an undone update comes back only with the undo of a later one.
Left(a) == preview[a].kind = "update" /\ record[preview[a].record] = a =>
  \E b \in Actions \ {a} : preview[b] # None /\ preview[b].original = a /\ writes[b] > 0
TracesKnown == /\ \A a \in undone : Left(a)
               /\ \A w \in Workers : pc[w] = "forget" => Left(act[w])

SeqInv == TypeInv /\ Once /\ SnapshotsKnown /\ LiveKnown /\ NamesKnown /\ TracesKnown

\* No other request runs meanwhile.
LEMMA OnlyWorker ==
  ASSUME OneAtATime, NEW w \in Workers
  PROVE  \A v \in Workers : v = w
  BY DEF OneAtATime

\* One lemma per action: what is known of requests that come one at a time stays known.
LEMMA CallToolSeq ==
  ASSUME OneAtATime, SeqInv, NEW w \in Workers, NEW a \in Actions, CallTool(w, a), TypeInv'
  PROVE  SeqInv'
  <1>0. PICK kind \in Kinds, tier \in Tiers, r \in Records, original \in Values \union {None} :
         /\ original \in {None, record[r]}
         /\ preview' = [preview EXCEPT ![a] =
             [kind |-> kind, tier |-> tier, record |-> r, original |-> original]]
    <2>1. PICK kind \in Kinds, tier \in Tiers, r \in Records :
           \E original \in PreviewReads(kind, r) :
             preview' = [preview EXCEPT ![a] =
               [kind |-> kind, tier |-> tier, record |-> r, original |-> original]]
      BY DEF CallTool
    <2>2. PICK original \in PreviewReads(kind, r) :
             preview' = [preview EXCEPT ![a] =
               [kind |-> kind, tier |-> tier, record |-> r, original |-> original]]
      BY <2>1
    <2>3. original \in {None, record[r]} /\ record[r] \in Values
      BY DEF PreviewReads, SeqInv, TypeInv, TypeOK
    <2> QED BY <2>2, <2>3
  <1>1. PICK p : /\ preview' = [preview EXCEPT ![a] = p] /\ preview'[a] = p
                 /\ p.kind = kind /\ p.original \in {None, record[r]}
    <2>1. PICK p : p = [kind |-> kind, tier |-> tier, record |-> r, original |-> original]
      OBVIOUS
    <2>2. preview' = [preview EXCEPT ![a] = p]
      BY <1>0, <2>1, Zenon
    <2>3. p.kind = kind /\ p.original = original
      BY <2>1
    <2>4. preview \in [Actions -> Previews \union {None}]
      BY DEF SeqInv, TypeInv, TypeOK
    <2> QED BY <1>0, <2>2, <2>3, <2>4
  <1>2. /\ \A b \in Actions : b # a => preview'[b] = preview[b]
        /\ preview[a] = None /\ writes[a] = 0 /\ live[a] = {} /\ a \notin undone
        /\ pc[w] = "idle" /\ pc'[w] = "store" /\ act'[w] = a
        /\ UNCHANGED <<pending, snapshot, record, live, writes, reported, undone>>
    BY <1>1 DEF CallTool, Begin, SeqInv, Once, LiveKnown, TypeInv, TypeOK, hubspot, history
  <1>3. budget'.aborts = budget.aborts
    BY DEF CallTool, Begin, SeqInv, TypeInv, TypeOK
  <1>4. Once'
    BY <1>2, <1>3, OnlyWorker DEF SeqInv, Once, Early, Late
  <1>5. SnapshotsKnown'
    BY <1>1, <1>2, OnlyWorker DEF SeqInv, SnapshotsKnown, Snapshotted, TypeInv, Known
  <1>6. LiveKnown'
    BY <1>2, OnlyWorker DEF SeqInv, LiveKnown
  <1>7. NamesKnown'
    <2>1. p.original \in Actions => p.original # a /\ writes[p.original] = 1
      BY <1>1, <1>2, GateAssumption DEF SeqInv, NamesKnown
    <2> QED BY <1>1, <1>2, <2>1 DEF SeqInv, NamesKnown
  <1>8. TracesKnown'
    <2>1. ASSUME NEW b \in undone PROVE Left(b)'
      <3>1. b \in Actions /\ b # a
        BY <1>2, <2>1 DEF SeqInv, Once
      <3>2. preview'[b] = preview[b] /\ Left(b)
        BY <1>2, <2>1, <3>1 DEF SeqInv, TracesKnown
      <3>3. CASE \E c \in Actions \ {b} : preview[c] # None /\ preview[c].original = b /\ writes[c] > 0
        BY <1>2, <3>3 DEF Left
      <3>4. CASE ~(preview[b].kind = "update" /\ record[preview[b].record] = b)
        BY <1>2, <3>2, <3>4 DEF Left
      <3> QED BY <3>2, <3>3, <3>4 DEF Left
    <2> QED BY <1>2, <2>1, OnlyWorker DEF TracesKnown
  <1> QED BY <1>4, <1>5, <1>6, <1>7, <1>8 DEF SeqInv

LEMMA StorePendingSeq ==
  ASSUME OneAtATime, SeqInv, NEW w \in Workers, StorePending(w), TypeInv'
  PROVE  SeqInv'
  <1>1. Once'
    BY DEF SeqInv, TypeInv, TypeOK, hubspot, StorePending, Goto, Return, Once, Early, Late
  <1>2. SnapshotsKnown'
    BY GateAssumption, OnlyWorker
       DEF SeqInv, TypeInv, TypeOK, hubspot, StorePending, Goto, Return, SnapshotsKnown, Snapshotted
  <1>3. LiveKnown'
    BY OnlyWorker DEF SeqInv, TypeInv, TypeOK, hubspot, StorePending, Goto, Return, LiveKnown
  <1>4. NamesKnown'
    BY DEF SeqInv, hubspot, StorePending, NamesKnown
  <1>5. TracesKnown'
    BY DEF SeqInv, TypeInv, TypeOK, hubspot, StorePending, Goto, Return, TracesKnown, Left
  <1> QED BY <1>1, <1>2, <1>3, <1>4, <1>5 DEF SeqInv

LEMMA LoadSeq ==
  ASSUME OneAtATime, SeqInv, NEW w \in Workers, Load(w), TypeInv'
  PROVE  SeqInv'
  <1>1. Once'
    BY DEF SeqInv, TypeInv, TypeOK, store, hubspot, history, Goto, Return, Once, Early, Late, Load, Execute
  <1>2. SnapshotsKnown'
    BY OnlyWorker
       DEF SeqInv, TypeInv, TypeOK, store, hubspot, Goto, Return, SnapshotsKnown, Snapshotted, Load,
           Execute
  <1>3. LiveKnown'
    BY OnlyWorker
       DEF SeqInv, TypeInv, TypeOK, store, hubspot, history, Goto, Return, LiveKnown, Load, Execute
  <1>4. NamesKnown'
    BY DEF SeqInv, store, hubspot, NamesKnown, Load
  <1>5. TracesKnown'
    BY DEF SeqInv, TypeInv, TypeOK, store, hubspot, history, Goto, Return, TracesKnown, Left, Load, Execute
  <1> QED BY <1>1, <1>2, <1>3, <1>4, <1>5 DEF SeqInv

LEMMA ApproveSeq ==
  ASSUME OneAtATime, SeqInv, NEW w \in Workers, NEW a \in Actions, NEW c \in Counts, Approve(w, a, c), TypeInv'
  PROVE  SeqInv'
  <1>0. /\ pc[w] = "idle" /\ pc'[w] \in {"confirm", "save", "invoke"} /\ act'[w] = a
        /\ UNCHANGED <<preview, snapshot, writes>>
    BY DEF Approve, Begin, Execute, SeqInv, TypeInv, TypeOK, store, hubspot
  <1>9. pc'[w] = "save" => Snapshotted(a)
    BY DEF Approve, Begin, Execute, SeqInv, TypeInv, TypeOK
  <1>1. Once'
    BY OnlyWorker DEF SeqInv, TypeInv, TypeOK, store, hubspot, Once, Late, Execute, Approve, Begin, Present
  <1>2. SnapshotsKnown'
    BY <1>0, <1>9, OnlyWorker DEF SeqInv, SnapshotsKnown, Snapshotted
  <1>3. LiveKnown'
    BY DEF SeqInv, TypeInv, TypeOK, store, hubspot, LiveKnown, Execute, Approve, Begin
  <1>4. NamesKnown'
    BY DEF SeqInv, store, hubspot, NamesKnown, Approve
  <1>5. TracesKnown'
    BY DEF SeqInv, TypeInv, TypeOK, store, hubspot, Previews, TracesKnown, Left, Execute, Approve, Begin
  <1> QED BY <1>1, <1>2, <1>3, <1>4, <1>5 DEF SeqInv

LEMMA ConfirmSeq ==
  ASSUME OneAtATime, SeqInv, NEW w \in Workers, Confirm(w), TypeInv'
  PROVE  SeqInv'
  <1>1. Once'
    BY DEF SeqInv, TypeInv, TypeOK, hubspot, history, Goto, Return, Once, Early, Late, Execute, Confirm
  <1>2. SnapshotsKnown'
    BY OnlyWorker
       DEF SeqInv, TypeInv, TypeOK, hubspot, Goto, Return, SnapshotsKnown, Snapshotted, Execute,
           Confirm
  <1>3. LiveKnown'
    BY OnlyWorker DEF SeqInv, TypeInv, TypeOK, hubspot, history, Goto, Return, LiveKnown, Execute, Confirm
  <1>4. NamesKnown'
    BY DEF SeqInv, hubspot, NamesKnown, Confirm
  <1>5. TracesKnown'
    BY DEF SeqInv, TypeInv, TypeOK, hubspot, history, Goto, Return, TracesKnown, Left, Execute, Confirm
  <1> QED BY <1>1, <1>2, <1>3, <1>4, <1>5 DEF SeqInv

LEMMA SaveSnapshotSeq ==
  ASSUME OneAtATime, SeqInv, NEW w \in Workers, SaveSnapshot(w), TypeInv'
  PROVE  SeqInv'
  <1>1. Once'
    BY DEF SeqInv, hubspot, history, Goto, Once, Early, Late, SaveSnapshot
  <1>2. SnapshotsKnown'
    BY DEF SeqInv, TypeInv, TypeOK, hubspot, Goto, SnapshotsKnown, Snapshotted, SaveSnapshot
  <1>3. LiveKnown'
    BY DEF SeqInv, hubspot, history, Goto, LiveKnown, SaveSnapshot
  <1>4. NamesKnown'
    BY DEF SeqInv, hubspot, NamesKnown, SaveSnapshot
  <1>5. TracesKnown'
    BY DEF SeqInv, hubspot, history, Goto, TracesKnown, Left, SaveSnapshot
  <1> QED BY <1>1, <1>2, <1>3, <1>4, <1>5 DEF SeqInv

\* The write: the action had none before, and the next step of its request clears it.
LEMMA InvokeSeq ==
  ASSUME OneAtATime, SeqInv, NEW w \in Workers, Invoke(w), TypeInv'
  PROVE  SeqInv'
  <1>0. PICK a \in Actions : /\ a = act[w] /\ pc[w] = "invoke" /\ preview[a] \in Previews
                             /\ preview[a] # None /\ writes[a] = 0 /\ live[a] = {} /\ a \notin undone
    BY DEF Invoke, SeqInv, TypeInv, TypeOK, Known, Once, Early, LiveKnown
  <1>9. /\ UNCHANGED <<preview, pending, snapshot, act, undone, reported>>
        /\ \/ pc'[w] = "drop" /\ UNCHANGED <<record, live, writes, held>>
           \/ /\ Effect(a)
              /\ \/ pc'[w] = "clear" /\ UNCHANGED held
                 \/ /\ pc'[w] = "record" /\ preview[a].kind = "create"
                    /\ held'[w] = [original |-> None, ids |-> {1}]
    <2>1. UNCHANGED <<preview, pending, snapshot, act, undone, reported>>
      BY DEF Invoke, store, history
    <2>2. PICK outcome \in {"ok", "noid", "rejected"} :
            /\ IF outcome = "rejected" THEN UNCHANGED hubspot ELSE Effect(a)
            /\ IF Failed(outcome) THEN Goto(w, "drop") /\ UNCHANGED held
               ELSE IF preview[a].kind = "create" /\ outcome # "noid"
               THEN /\ Goto(w, "record")
                    /\ held' = [held EXCEPT ![w] = [original |-> None, ids |-> {writes[a] + 1}]]
               ELSE Goto(w, "clear") /\ UNCHANGED held
      BY <1>0, GateAssumption DEF Invoke, OneAtATime
    <2>3. pc \in [Workers -> Steps] /\ held \in [Workers -> Snapshots \union {None}]
      BY DEF SeqInv, TypeInv, TypeOK
    <2>4. CASE outcome = "rejected"
      BY <2>1, <2>2, <2>3, <2>4 DEF Failed, Goto, hubspot
    <2>5. CASE outcome # "rejected"
      <3>1. writes[a] + 1 = 1
        BY <1>0
      <3> QED BY <2>1, <2>2, <2>3, <2>5, <3>1 DEF Failed, Goto
    <2> QED BY <2>4, <2>5
  <1>10. ASSUME Effect(a)
        PROVE  /\ writes' = [writes EXCEPT ![a] = 1] /\ writes'[a] = 1
               /\ \A b \in Actions : b # a => live'[b] = live[b]
               /\ live'[a] \subseteq {1} /\ (preview[a].kind # "create" => live'[a] = {})
               /\ \A r \in Records : record'[r] \in {record[r], "gone", a}
    <2>1. writes \in [Actions -> Nat] /\ live \in [Actions -> SUBSET Nat] /\ record \in [Records -> Values]
      BY DEF SeqInv, TypeInv, TypeOK
    <2>2. writes' = [writes EXCEPT ![a] = 1]
      BY <1>0, <1>10, <2>1 DEF Effect
    <2>3. \A b \in Actions : b # a => live'[b] = live[b]
      BY <1>10, <2>1 DEF Effect
    <2>4. live'[a] \subseteq {1} /\ (preview[a].kind # "create" => live'[a] = {})
      BY <1>0, <1>10, <2>1 DEF Effect
    <2>5. \A r \in Records : record'[r] \in {record[r], "gone", a}
      BY <1>0, <1>10, <2>1 DEF Effect, Previews
    <2> QED BY <2>1, <2>2, <2>3, <2>4, <2>5
  <1>1. Once'
    <2>1. budget' = budget
      BY DEF Invoke
    <2>2. CASE pc'[w] = "drop" /\ UNCHANGED <<record, live, writes, held>>
      BY <1>0, <1>9, <2>1, <2>2, OnlyWorker DEF SeqInv, Once, Early, Late
    <2>3. CASE Effect(a) /\ pc'[w] \in {"record", "clear"}
      <3>1. /\ writes'[a] = 1 /\ act'[w] = a
            /\ \A b \in Actions : b # a => writes'[b] = writes[b]
        BY <1>0, <1>9, <1>10, <2>3 DEF SeqInv, TypeInv, TypeOK
      <3> QED BY <1>0, <1>9, <2>1, <2>3, <3>1, OnlyWorker DEF SeqInv, Once, Early, Late
    <2> QED BY <1>9, <2>2, <2>3
  <1>2. SnapshotsKnown'
    <2>1. \A b \in Actions : writes[b] = 1 => writes'[b] = 1
      BY <1>0, <1>9, <1>10 DEF SeqInv, TypeInv, TypeOK
    <2>2. snapshot[a] # None => writes'[a] = 1 \/ pc'[w] = "drop"
      BY <1>9, <1>10
    <2>3. \A b \in Actions \ {a} : snapshot[b] # None => writes[b] = 1
      BY <1>0, OnlyWorker DEF SeqInv, SnapshotsKnown
    <2> QED BY <1>0, <1>9, <2>1, <2>2, <2>3, OnlyWorker DEF SeqInv, SnapshotsKnown, Snapshotted
  <1>3. LiveKnown'
    <2>1. CASE UNCHANGED <<live, writes>>
      BY <1>9, <2>1, OnlyWorker DEF SeqInv, LiveKnown
    <2>2. CASE Effect(a)
      BY <1>0, <1>9, <1>10, <2>2, OnlyWorker DEF SeqInv, LiveKnown, TypeInv, TypeOK
    <2> QED BY <1>9, <2>1, <2>2
  <1>4. NamesKnown'
    <2>1. CASE UNCHANGED <<record, writes>>
      BY <1>9, <2>1 DEF SeqInv, NamesKnown
    <2>2. CASE Effect(a)
      BY <1>0, <1>9, <1>10, <2>2, GateAssumption DEF SeqInv, NamesKnown, TypeInv, TypeOK
    <2> QED BY <1>9, <2>1, <2>2
  <1>5. TracesKnown'
    <2>1. CASE UNCHANGED <<record, writes>>
      BY <1>9, <2>1, OnlyWorker DEF SeqInv, TracesKnown, Left
    <2>2. CASE Effect(a)
      <3>1. ASSUME NEW b \in undone PROVE Left(b)'
        <4>1. b \in Actions /\ b # a /\ Left(b) /\ b # "gone" /\ (preview[b] # None => preview[b] \in Previews)
              /\ preview[b] # None
          BY <1>0, <3>1, GateAssumption DEF SeqInv, TracesKnown, Once, TypeInv, TypeOK
        <4>2. record'[preview[b].record] = b => record[preview[b].record] = b
          BY <1>10, <2>2, <4>1 DEF Previews
        <4>3. \A c \in Actions : writes[c] > 0 => writes'[c] > 0
          BY <1>0, <1>10, <2>2 DEF SeqInv, TypeInv, TypeOK
        <4> QED BY <1>9, <4>1, <4>2, <4>3 DEF Left
      <3> QED BY <1>9, <3>1, OnlyWorker DEF TracesKnown
    <2> QED BY <1>9, <2>1, <2>2
  <1> QED BY <1>1, <1>2, <1>3, <1>4, <1>5 DEF SeqInv

LEMMA DropSnapshotSeq ==
  ASSUME OneAtATime, SeqInv, NEW w \in Workers, DropSnapshot(w), TypeInv'
  PROVE  SeqInv'
  <1>1. Once'
    BY DEF SeqInv, TypeInv, TypeOK, hubspot, history, Return, Once, Early, Late, DropSnapshot
  <1>2. SnapshotsKnown'
    BY
       DEF SeqInv, TypeInv, TypeOK, hubspot, Return, SnapshotsKnown, Snapshotted, DropSnapshot,
           LeftOnFailure
  <1>3. LiveKnown'
    BY DEF SeqInv, hubspot, history, Return, LiveKnown, DropSnapshot
  <1>4. NamesKnown'
    BY DEF SeqInv, hubspot, NamesKnown, DropSnapshot
  <1>5. TracesKnown'
    BY DEF SeqInv, hubspot, history, Return, TracesKnown, Left, DropSnapshot
  <1> QED BY <1>1, <1>2, <1>3, <1>4, <1>5 DEF SeqInv

LEMMA RecordCreatedSeq ==
  ASSUME OneAtATime, SeqInv, NEW w \in Workers, RecordCreated(w), TypeInv'
  PROVE  SeqInv'
  <1>0. PICK a \in Actions : a = act[w] /\ pc[w] = "record" /\ pc'[w] = "clear" /\ act'[w] = a
    BY DEF RecordCreated, Goto, SeqInv, TypeInv, TypeOK
  <1>9. /\ \A b \in Actions : b # a => snapshot'[b] = snapshot[b]
        /\ snapshot'[a] # None => /\ snapshot[a] # None /\ snapshot'[a].original = snapshot[a].original
                                 /\ snapshot'[a].ids \in {snapshot[a].ids, {1}}
    <2>1. CASE UNCHANGED snapshot
      BY <2>1
    <2>2. CASE snapshot' = [snapshot EXCEPT ![a] = Merge(@, held[w].ids)]
      <3>1. snapshot \in [Actions -> Snapshots \union {None}] /\ held[w].ids = {1}
        BY <1>0 DEF SeqInv, TypeInv, TypeOK, SnapshotsKnown
      <3>2. PICK m : m = Merge(snapshot[a], held[w].ids)
        OBVIOUS
      <3>3. snapshot' = [snapshot EXCEPT ![a] = m]
        BY <2>2, <3>2
      <3>4. snapshot'[a] = m /\ \A b \in Actions : b # a => snapshot'[b] = snapshot[b]
        BY <3>1, <3>3
      <3>5. m # None => snapshot[a] # None /\ m = [snapshot[a] EXCEPT !.ids = {1}]
        BY <3>1, <3>2 DEF Merge
      <3> QED BY <3>1, <3>4, <3>5 DEF Snapshots
    <2> QED BY <1>0, <2>1, <2>2 DEF RecordCreated
  <1>1. Once'
    BY DEF SeqInv, hubspot, history, Goto, Once, Early, Late, RecordCreated
  <1>2. SnapshotsKnown'
    <2>1. UNCHANGED <<preview, writes>>
      BY DEF RecordCreated, hubspot
    <2>2. \A b \in Actions : snapshot[b] # None => writes[b] = 1
      BY <1>0, OnlyWorker DEF SeqInv, SnapshotsKnown
    <2> QED BY <1>0, <1>9, <2>1, <2>2, OnlyWorker DEF SeqInv, SnapshotsKnown, Snapshotted
  <1>3. LiveKnown'
    BY DEF SeqInv, hubspot, history, Goto, LiveKnown, RecordCreated
  <1>4. NamesKnown'
    BY DEF SeqInv, hubspot, NamesKnown, RecordCreated
  <1>5. TracesKnown'
    BY DEF SeqInv, hubspot, history, Goto, TracesKnown, Left, RecordCreated
  <1> QED BY <1>1, <1>2, <1>3, <1>4, <1>5 DEF SeqInv

LEMMA ClearPendingSeq ==
  ASSUME OneAtATime, SeqInv, NEW w \in Workers, ClearPending(w), TypeInv'
  PROVE  SeqInv'
  <1>1. Once'
    BY DEF SeqInv, TypeInv, TypeOK, hubspot, history, Goto, Once, Early, Late, ClearPending, Clear
  <1>2. SnapshotsKnown'
    BY DEF SeqInv, hubspot, Goto, SnapshotsKnown, Snapshotted, ClearPending
  <1>3. LiveKnown'
    BY DEF SeqInv, hubspot, history, Goto, LiveKnown, ClearPending
  <1>4. NamesKnown'
    BY DEF SeqInv, hubspot, NamesKnown, ClearPending
  <1>5. TracesKnown'
    BY DEF SeqInv, hubspot, history, Goto, TracesKnown, Left, ClearPending
  <1> QED BY <1>1, <1>2, <1>3, <1>4, <1>5 DEF SeqInv

LEMMA AuditSeq ==
  ASSUME OneAtATime, SeqInv, NEW w \in Workers, Audit(w), TypeInv'
  PROVE  SeqInv'
  <1>1. Once'
    BY DEF SeqInv, TypeInv, TypeOK, hubspot, Return, Once, Early, Late, Audit
  <1>2. SnapshotsKnown'
    BY DEF SeqInv, hubspot, Return, SnapshotsKnown, Snapshotted, Audit
  <1>3. LiveKnown'
    BY DEF SeqInv, hubspot, Return, LiveKnown, Audit
  <1>4. NamesKnown'
    BY DEF SeqInv, hubspot, NamesKnown, Audit
  <1>5. TracesKnown'
    BY DEF SeqInv, hubspot, Return, TracesKnown, Left, Audit
  <1> QED BY <1>1, <1>2, <1>3, <1>4, <1>5 DEF SeqInv

LEMMA RejectSeq ==
  ASSUME OneAtATime, SeqInv, NEW w \in Workers, NEW a \in Actions, Reject(w, a), TypeInv'
  PROVE  SeqInv'
  <1>0. /\ pc[w] = "idle" /\ pc'[w] \in {"discard"} /\ act'[w] = a
        /\ UNCHANGED <<preview, snapshot, writes>>
    BY DEF Reject, Begin, SeqInv, TypeInv, TypeOK, store, hubspot
  <1>1. Once'
    BY OnlyWorker DEF SeqInv, TypeInv, TypeOK, store, hubspot, history, Once, Late, Begin, Present, Reject
  <1>2. SnapshotsKnown'
    BY <1>0, OnlyWorker DEF SeqInv, SnapshotsKnown, Snapshotted
  <1>3. LiveKnown'
    BY DEF SeqInv, store, hubspot, history, LiveKnown, Begin, Reject
  <1>4. NamesKnown'
    BY DEF SeqInv, store, hubspot, NamesKnown, Reject
  <1>5. TracesKnown'
    BY DEF SeqInv, store, hubspot, history, TracesKnown, Left, Begin, Reject
  <1> QED BY <1>1, <1>2, <1>3, <1>4, <1>5 DEF SeqInv

LEMMA DiscardSeq ==
  ASSUME OneAtATime, SeqInv, NEW w \in Workers, Discard(w), TypeInv'
  PROVE  SeqInv'
  <1>1. Once'
    BY DEF SeqInv, TypeInv, TypeOK, hubspot, Return, Once, Early, Late, Clear, Discard
  <1>2. SnapshotsKnown'
    BY DEF SeqInv, hubspot, Return, SnapshotsKnown, Snapshotted, Discard
  <1>3. LiveKnown'
    BY DEF SeqInv, hubspot, Return, LiveKnown, Discard
  <1>4. NamesKnown'
    BY DEF SeqInv, hubspot, NamesKnown, Discard
  <1>5. TracesKnown'
    BY DEF SeqInv, hubspot, Return, TracesKnown, Left, Discard
  <1> QED BY <1>1, <1>2, <1>3, <1>4, <1>5 DEF SeqInv

LEMMA UndoSeq ==
  ASSUME OneAtATime, SeqInv, NEW w \in Workers, NEW a \in Actions, Undo(w, a), TypeInv'
  PROVE  SeqInv'
  <1>0. /\ pc[w] = "idle" /\ pc'[w] = "restore" /\ act'[w] = a /\ held'[w] = snapshot[a]
        /\ snapshot[a] # None /\ (preview[a].kind = "create" => snapshot[a].ids # {})
        /\ UNCHANGED <<preview, pending, snapshot, writes, reported, undone>>
        /\ budget'.aborts = budget.aborts
    BY DEF Undo, Begin, SeqInv, TypeInv, TypeOK, store, hubspot, history
  <1>9. writes[a] = 1
    BY <1>0, OnlyWorker DEF SeqInv, SnapshotsKnown
  <1>1. Once'
    BY <1>0, <1>9, OnlyWorker DEF SeqInv, Once, Early, Late
  <1>2. SnapshotsKnown'
    <2>1. snapshot[a].original = preview[a].original /\ snapshot[a].ids \subseteq {1}
      BY <1>0 DEF SeqInv, SnapshotsKnown
    <2> QED BY <1>0, <2>1, OnlyWorker DEF SeqInv, SnapshotsKnown, Snapshotted
  <1>3. LiveKnown'
    BY DEF SeqInv, store, hubspot, history, LiveKnown, Begin, Undo, IsUndoable
  <1>4. NamesKnown'
    BY DEF SeqInv, store, hubspot, NamesKnown, Undo
  <1>5. TracesKnown'
    BY DEF SeqInv, store, hubspot, history, TracesKnown, Left, Begin, Undo
  <1> QED BY <1>1, <1>2, <1>3, <1>4, <1>5 DEF SeqInv

\* An undo takes away the one object it knows of, or puts back the value it read.
LEMMA RestoreSeq ==
  ASSUME OneAtATime, SeqInv, NEW w \in Workers, Restore(w), TypeInv'
  PROVE  SeqInv'
  <1>0. PICK a \in Actions : /\ a = act[w] /\ pc[w] = "restore" /\ preview[a] \in Previews
                             /\ preview[a] # None /\ writes[a] = 1
                             /\ held[w].original = preview[a].original
                             /\ (preview[a].kind = "create" => held[w].ids = {1})
    BY DEF Restore, SeqInv, TypeInv, TypeOK, Known, Once, Late, SnapshotsKnown
  <1>9. /\ UNCHANGED <<preview, pending, snapshot, writes, undone, reported>>
        /\ \/ pc'[w] = "idle" /\ UNCHANGED <<record, live>>
           \/ pc'[w] \in {"idle", "forget"} /\ (pc'[w] = "forget" => act'[w] = a) /\ Restored(a, held[w])
    BY <1>0 DEF Restore, Goto, Return, SeqInv, TypeInv, TypeOK, store, history
  <1>10. ASSUME Restored(a, held[w])
        PROVE  /\ \A b \in Actions : live'[b] \subseteq live[b]
               /\ live'[a] = {}
               /\ \/ UNCHANGED record /\ preview[a].kind = "create"
                  \/ record' = [record EXCEPT ![preview[a].record] = preview[a].original]
    <2>1. live \in [Actions -> SUBSET Nat] /\ live[a] \subseteq {1}
          /\ (preview[a].kind # "create" => live[a] = {})
      BY <1>0 DEF SeqInv, TypeInv, TypeOK, LiveKnown
    <2> QED BY <1>0, <1>10, <2>1 DEF Restored
  <1>1. Once'
    BY DEF SeqInv, TypeInv, TypeOK, store, history, Goto, Return, Once, Early, Late, Restore
  <1>2. SnapshotsKnown'
    BY <1>0, <1>9, OnlyWorker DEF SeqInv, SnapshotsKnown, Snapshotted
  <1>3. LiveKnown'
    BY <1>0, <1>9, <1>10, OnlyWorker DEF SeqInv, LiveKnown
  <1>4. NamesKnown'
    <2>1. CASE UNCHANGED record
      BY <1>9, <2>1 DEF SeqInv, NamesKnown
    <2>2. CASE record' = [record EXCEPT ![preview[a].record] = preview[a].original]
      BY <1>0, <1>9, <2>2 DEF SeqInv, NamesKnown, TypeInv, TypeOK
    <2> QED BY <1>9, <1>10, <2>1, <2>2
  <1>5. TracesKnown'
    <2>1. ASSUME NEW b \in Actions, preview[b] # None, Left(b) \/ (b = a /\ pc'[w] = "forget")
          PROVE  Left(b)'
      <3>1. CASE UNCHANGED record /\ Left(b)
        BY <1>9, <3>1 DEF Left
      <3>2. CASE UNCHANGED record /\ b = a /\ pc'[w] = "forget" /\ preview[a].kind = "create"
        BY <1>9, <3>2 DEF Left
      <3>3. CASE record' = [record EXCEPT ![preview[a].record] = preview[a].original]
        <4>1. /\ record \in [Records -> Values] /\ preview[a].record \in Records
              /\ preview[b] \in Previews /\ preview[b].record \in Records
          BY <1>0, <2>1 DEF SeqInv, TypeInv, TypeOK, Previews
        <4>2. CASE preview[b].record = preview[a].record
          <5>1. record'[preview[b].record] = preview[a].original
            BY <3>3, <4>1, <4>2
          <5>2. preview[a].original = b => b # a
            BY <1>0 DEF SeqInv, NamesKnown
          <5> QED BY <1>0, <1>9, <5>1, <5>2 DEF Left
        <4>3. CASE preview[b].record # preview[a].record
          <5>1. record'[preview[b].record] = record[preview[b].record] /\ b # a
            BY <3>3, <4>1, <4>3
          <5> QED BY <1>9, <2>1, <5>1 DEF Left
        <4> QED BY <4>2, <4>3
      <3>4. pc'[w] = "forget" => Restored(a, held[w])
        BY <1>9
      <3> QED BY <1>9, <1>10, <2>1, <3>1, <3>2, <3>3, <3>4
    <2>2. \A b \in undone : b \in Actions /\ preview[b] # None /\ Left(b)
      BY DEF SeqInv, Once, TracesKnown
    <2> QED BY <1>0, <1>9, <2>1, <2>2, OnlyWorker DEF TracesKnown
  <1> QED BY <1>1, <1>2, <1>3, <1>4, <1>5 DEF SeqInv

LEMMA ForgetSnapshotSeq ==
  ASSUME OneAtATime, SeqInv, NEW w \in Workers, ForgetSnapshot(w), TypeInv'
  PROVE  SeqInv'
  <1>1. Once'
    BY DEF SeqInv, TypeInv, TypeOK, hubspot, Goto, Once, Early, Late, ForgetSnapshot
  <1>2. SnapshotsKnown'
    BY DEF SeqInv, hubspot, Goto, SnapshotsKnown, Snapshotted, ForgetSnapshot
  <1>3. LiveKnown'
    BY DEF SeqInv, hubspot, Goto, LiveKnown, ForgetSnapshot
  <1>4. NamesKnown'
    BY DEF SeqInv, hubspot, NamesKnown, ForgetSnapshot
  <1>5. TracesKnown'
    BY DEF SeqInv, hubspot, Goto, TracesKnown, Left, ForgetSnapshot
  <1> QED BY <1>1, <1>2, <1>3, <1>4, <1>5 DEF SeqInv

LEMMA UndoAuditSeq ==
  ASSUME OneAtATime, SeqInv, NEW w \in Workers, UndoAudit(w), TypeInv'
  PROVE  SeqInv'
  <1>1. Once'
    BY DEF SeqInv, TypeInv, TypeOK, hubspot, history, Return, Once, Early, Late, UndoAudit
  <1>2. SnapshotsKnown'
    BY DEF SeqInv, hubspot, Return, SnapshotsKnown, Snapshotted, UndoAudit
  <1>3. LiveKnown'
    BY DEF SeqInv, hubspot, history, Return, LiveKnown, UndoAudit
  <1>4. NamesKnown'
    BY DEF SeqInv, hubspot, NamesKnown, UndoAudit
  <1>5. TracesKnown'
    BY DEF SeqInv, hubspot, history, Return, TracesKnown, Left, UndoAudit
  <1> QED BY <1>1, <1>2, <1>3, <1>4, <1>5 DEF SeqInv

\* Nothing cuts a request short, and no expiry or edit of another user disturbs what
\* is known: an edit leaves a value that names no action.
LEMMA EnvironmentSeq ==
  ASSUME OneAtATime, SeqInv, TypeInv',
         \/ \E w \in Workers : Abort(w)
         \/ \E a \in Actions : ExpirePending(a) \/ ExpireSnapshot(a)
         \/ \E r \in Records : Edit(r)
         \/ UNCHANGED vars
  PROVE  SeqInv'
  <1>1. ~ \E w \in Workers : Abort(w)
    BY DEF Abort, SeqInv, Once
  <1>2. ASSUME NEW a \in Actions, ExpirePending(a)
        PROVE  SeqInv'
    <2>1. /\ UNCHANGED <<preview, snapshot, record, live, writes, pc, act, held, reported, undone, budget>>
          /\ \A b \in Actions : pending'[b] \in {pending[b], "gone"}
      BY <1>2 DEF ExpirePending, hubspot, workers, history, SeqInv, TypeInv, TypeOK
    <2>2. Once' /\ SnapshotsKnown' /\ LiveKnown' /\ NamesKnown' /\ TracesKnown'
      BY <2>1 DEF SeqInv, Once, SnapshotsKnown, Snapshotted, LiveKnown, NamesKnown, TracesKnown, Left
    <2> QED BY <2>2 DEF SeqInv
  <1>3. ASSUME NEW a \in Actions, ExpireSnapshot(a)
        PROVE  SeqInv'
    <2>1. /\ UNCHANGED <<preview, pending, record, live, writes, pc, act, held, reported, undone, budget>>
          /\ \A b \in Actions : snapshot'[b] \in {snapshot[b], None}
      BY <1>3 DEF ExpireSnapshot, hubspot, workers, history, SeqInv, TypeInv, TypeOK
    <2>2. Once' /\ LiveKnown' /\ NamesKnown' /\ TracesKnown'
      BY <2>1 DEF SeqInv, Once, LiveKnown, NamesKnown, TracesKnown, Left
    <2>3. SnapshotsKnown'
      BY <2>1 DEF SeqInv, SnapshotsKnown, Snapshotted
    <2> QED BY <2>2, <2>3 DEF SeqInv
  <1>4. ASSUME NEW r \in Records, Edit(r)
        PROVE  SeqInv'
    <2>1. /\ UNCHANGED <<preview, pending, snapshot, live, writes, pc, act, held, reported, undone>>
          /\ \A q \in Records : record'[q] \in {record[q], "edited", "gone"}
          /\ budget'.aborts = budget.aborts
      BY <1>4 DEF Edit, store, workers, history, SeqInv, TypeInv, TypeOK
    <2>2. Once' /\ SnapshotsKnown' /\ LiveKnown'
      BY <2>1 DEF SeqInv, Once, SnapshotsKnown, Snapshotted, LiveKnown
    <2>3. NamesKnown'
      <3>1. /\ \A q \in Records : record'[q] \in Actions => record'[q] = record[q]
            /\ UNCHANGED <<preview, writes>>
        BY <2>1, GateAssumption
      <3> QED BY <3>1 DEF SeqInv, NamesKnown
    <2>4. ASSUME NEW a \in Actions, preview[a] # None, Left(a)
          PROVE  Left(a)'
      <3>1. preview[a].record \in Records
        BY <2>4 DEF SeqInv, TypeInv, TypeOK, Previews
      <3> QED BY <2>1, <2>4, <3>1, GateAssumption DEF Left
    <2>5. /\ \A a \in undone : a \in Actions /\ preview[a] # None
          /\ \A w \in Workers : pc[w] = "forget" => act[w] \in Actions /\ preview[act[w]] # None
      BY DEF SeqInv, Once, TypeInv, TypeOK, Known
    <2>6. TracesKnown'
      BY <2>1, <2>4, <2>5 DEF SeqInv, TracesKnown
    <2> QED BY <2>2, <2>3, <2>6 DEF SeqInv
  <1>5. CASE UNCHANGED vars
    <2>1. Once' /\ SnapshotsKnown' /\ LiveKnown' /\ NamesKnown' /\ TracesKnown'
      BY <1>5 DEF vars, store, hubspot, workers, history, SeqInv, Once, SnapshotsKnown, Snapshotted,
                  LiveKnown, NamesKnown, TracesKnown, Left
    <2> QED BY <2>1 DEF SeqInv
  <1> QED BY <1>1, <1>2, <1>3, <1>4, <1>5

\* What is known of requests that come one at a time is known after every step.
LEMMA NextSeq == ASSUME OneAtATime PROVE SeqInv /\ [Next]_vars => SeqInv'
  <1> SUFFICES ASSUME SeqInv, [Next]_vars PROVE SeqInv'
    OBVIOUS
  <1>1. TypeInv'
    <2>1. CASE Next
      BY <2>1, NextType DEF SeqInv
    <2>2. CASE UNCHANGED vars
      <3> USE DEF TypeInv, TypeOK, Known
      <3> QED BY <2>2 DEF SeqInv, vars, store, hubspot, workers, history
    <2> QED BY <2>1, <2>2
  <1>2. ASSUME NEW w \in Workers, Arrive(w)
        PROVE  SeqInv'
    BY <1>1, <1>2, CallToolSeq, ApproveSeq, RejectSeq, UndoSeq DEF Arrive
  <1>3. ASSUME NEW w \in Workers, Step(w)
        PROVE  SeqInv'
    BY <1>1, <1>3, StorePendingSeq, LoadSeq, ConfirmSeq, SaveSnapshotSeq, InvokeSeq,
       DropSnapshotSeq, RecordCreatedSeq, ClearPendingSeq, AuditSeq, DiscardSeq,
       RestoreSeq, ForgetSnapshotSeq, UndoAuditSeq DEF Step
  <1>4. CASE \/ \E w \in Workers : Abort(w)
             \/ \E a \in Actions : ExpirePending(a) \/ ExpireSnapshot(a)
             \/ \E r \in Records : Edit(r)
             \/ UNCHANGED vars
    BY <1>1, <1>4, EnvironmentSeq
  <1> QED BY <1>2, <1>3, <1>4 DEF Next

\* Nothing is written or snapshotted at first.
LEMMA InitSeq == ASSUME OneAtATime PROVE Init => SeqInv
  <1> SUFFICES ASSUME Init PROVE SeqInv
    OBVIOUS
  <1>1. TypeInv
    BY InitType
  <1>2. Once
    BY GateAssumption DEF Init, Once, OneAtATime, Early, Late
  <1>3. SnapshotsKnown /\ LiveKnown /\ NamesKnown /\ TracesKnown
    BY GateAssumption DEF Init, SnapshotsKnown, LiveKnown, NamesKnown, TracesKnown
  <1> QED BY <1>1, <1>2, <1>3 DEF SeqInv

\* HubSpot applies an action at most once when requests come one at a time
\* (execute_pending_write clears the preview after the write, and leaves it only
\* when nothing was applied).
THEOREM AppliedOnce == ASSUME OneAtATime PROVE Spec => []AtMostOnce
  <1>1. SeqInv => AtMostOnce
    <2>1. \A n \in {0, 1} : n <= 1
      OBVIOUS
    <2> QED BY <2>1 DEF SeqInv, Once, AtMostOnce
  <1> QED BY InitSeq, NextSeq, <1>1, PTL DEF Spec

\* Nor does an undone action leave anything behind (undo_action), whatever edits of
\* other users or undos of later writes came between.
THEOREM UndoneIsGone == ASSUME OneAtATime PROVE Spec => []UndoneLeavesNoTrace
  <1>1. SeqInv => UndoneLeavesNoTrace
    BY DEF SeqInv, Once, LiveKnown, TracesKnown, Left, UndoneLeavesNoTrace
  <1> QED BY InitSeq, NextSeq, <1>1, PTL DEF Spec

-----------------------------------------------------------------------------
\* While the store keeps its keys, what was applied keeps its snapshot until the undo.
SnapshotsKept ==
  /\ \A w \in Workers : pc[w] = "invoke" /\ Snapshotted(act[w]) => snapshot[act[w]] # None
  /\ \A a \in Actions \ undone : writes[a] = 1 /\ Snapshotted(a) => snapshot[a] # None

KeptInv == SeqInv /\ SnapshotsKept

\* And nothing needs a snapshot yet.
LEMMA KeptInit == ASSUME OneAtATime PROVE Init => KeptInv
  <1> SUFFICES ASSUME Init PROVE KeptInv
    OBVIOUS
  <1> QED BY InitSeq, GateAssumption DEF KeptInv, SnapshotsKept, Init

\* The snapshot of an applied write goes only with its undo.
LEMMA KeptNext == ASSUME OneAtATime, CanExpire = FALSE PROVE KeptInv /\ [Next]_vars => KeptInv'
  <1> SUFFICES ASSUME KeptInv, [Next]_vars PROVE SnapshotsKept'
    BY NextSeq DEF KeptInv
  <1>0. SeqInv /\ SeqInv' /\ SnapshotsKept
    BY NextSeq DEF KeptInv
  <1> USE <1>0
  <1>1. ASSUME UNCHANGED <<preview, snapshot, writes, undone>>,
               \A w \in Workers : pc'[w] = "invoke" => \/ pc[w] = "invoke" /\ act'[w] = act[w]
                                                       \/ ~Snapshotted(act'[w])
        PROVE  SnapshotsKept'
    BY <1>1 DEF SnapshotsKept, Snapshotted
  <1>2. ASSUME NEW w \in Workers, NEW a \in Actions, CallTool(w, a)
        PROVE  SnapshotsKept'
    <2>1. /\ preview[a] = None /\ writes[a] = 0 /\ UNCHANGED <<snapshot, writes, undone>>
          /\ pc'[w] = "store" /\ \A b \in Actions : b # a => preview'[b] = preview[b]
      BY <1>2 DEF CallTool, Begin, SeqInv, Once, TypeInv, TypeOK, hubspot, history
    <2> QED BY <2>1, OnlyWorker DEF SnapshotsKept, Snapshotted
  <1>3. ASSUME NEW w \in Workers, NEW a \in Actions, NEW c \in Counts, Approve(w, a, c)
        PROVE  SnapshotsKept'
    <2>1. pc'[w] = "invoke" => act'[w] = a /\ ~Snapshotted(a)
      BY <1>3 DEF Approve, Begin, Execute, SeqInv, TypeInv, TypeOK
    <2> QED BY <1>1, <1>3, <2>1, OnlyWorker DEF Approve, store, hubspot
  <1>4. ASSUME NEW w \in Workers, Load(w) \/ Confirm(w)
        PROVE  SnapshotsKept'
    <2>1. pc'[w] = "invoke" => act'[w] = act[w] /\ ~Snapshotted(act[w])
      BY <1>4 DEF Load, Confirm, Goto, Return, Execute, SeqInv, TypeInv, TypeOK
    <2> QED BY <1>1, <1>4, <2>1, OnlyWorker DEF Load, Confirm, store, hubspot, history
  <1>5. ASSUME NEW w \in Workers,
               \/ StorePending(w) \/ ClearPending(w) \/ Audit(w) \/ Discard(w) \/ UndoAudit(w)
               \/ Restore(w) \/ \E a \in Actions : Reject(w, a) \/ Undo(w, a)
        PROVE  SnapshotsKept'
    <2>1. pc'[w] # "invoke"
      BY <1>5 DEF StorePending, ClearPending, Audit, Discard, UndoAudit, Restore, Reject, Undo,
                  Goto, Return, Begin, SeqInv, TypeInv, TypeOK
    <2>2. UNCHANGED <<preview, snapshot, writes, undone>>
      BY <1>5 DEF StorePending, ClearPending, Audit, Discard, UndoAudit, Restore, Reject, Undo,
                  store, hubspot, history
    <2> QED BY <1>1, <2>1, <2>2, OnlyWorker
  <1>6. ASSUME NEW w \in Workers, SaveSnapshot(w)
        PROVE  SnapshotsKept'
    <2>1. PICK a \in Actions : a = act[w] /\ act'[w] = a /\ UNCHANGED <<preview, writes, undone>>
      BY <1>6 DEF SaveSnapshot, hubspot, history, SeqInv, TypeInv, TypeOK
    <2>2. PICK s : s = [original |-> preview[a].original, ids |-> {}]
      OBVIOUS
    <2>3. s # None
      <3>1. preview[a] \in Previews
        BY <1>6, <2>1 DEF SaveSnapshot, SeqInv, TypeInv, TypeOK, Known
      <3>2. s \in Snapshots
        BY <2>2, <3>1 DEF Previews, Snapshots
      <3> QED BY <3>2, NoneIsNoRecord
    <2>4. snapshot' = [snapshot EXCEPT ![a] = s]
      BY <1>6, <2>1, <2>2 DEF SaveSnapshot
    <2>5. snapshot'[a] # None /\ \A b \in Actions : b # a => snapshot'[b] = snapshot[b]
      BY <2>3, <2>4 DEF SeqInv, TypeInv, TypeOK
    <2> QED BY <2>1, <2>5, OnlyWorker DEF SnapshotsKept, Snapshotted
  <1>7. ASSUME NEW w \in Workers, Invoke(w)
        PROVE  SnapshotsKept'
    <2>1. PICK a \in Actions : /\ a = act[w] /\ pc'[w] # "invoke" /\ pc[w] = "invoke"
                               /\ UNCHANGED <<preview, snapshot, undone>>
      BY <1>7 DEF Invoke, Goto, store, history, SeqInv, TypeInv, TypeOK
    <2>2. \A b \in Actions : b # a => writes'[b] = writes[b]
      BY <1>7, <2>1 DEF Invoke, Effect, hubspot, SeqInv, TypeInv, TypeOK
    <2>3. Snapshotted(a) => snapshot'[a] # None
      BY <2>1 DEF SnapshotsKept
    <2> QED BY <2>1, <2>2, <2>3, OnlyWorker DEF SnapshotsKept, Snapshotted
  <1>8. ASSUME NEW w \in Workers, DropSnapshot(w)
        PROVE  SnapshotsKept'
    <2>1. PICK a \in Actions : /\ a = act[w] /\ writes[a] = 0 /\ pc'[w] = "idle"
                               /\ UNCHANGED <<preview, writes, undone>>
                               /\ \A b \in Actions : b # a => snapshot'[b] = snapshot[b]
      BY <1>8 DEF DropSnapshot, Return, hubspot, history, SeqInv, Once, Early, TypeInv, TypeOK
    <2> QED BY <2>1, OnlyWorker DEF SnapshotsKept, Snapshotted
  <1>9. ASSUME NEW w \in Workers, RecordCreated(w)
        PROVE  SnapshotsKept'
    <2>1. PICK a \in Actions : /\ a = act[w] /\ pc'[w] = "clear" /\ UNCHANGED <<preview, writes, undone>>
      BY <1>9 DEF RecordCreated, Goto, hubspot, history, SeqInv, TypeInv, TypeOK
    <2>2. \A b \in Actions : snapshot[b] # None => snapshot'[b] # None
      <3>1. CASE UNCHANGED snapshot
        BY <3>1
      <3>2. CASE snapshot' = [snapshot EXCEPT ![a] = Merge(@, held[w].ids)]
        <4>1. PICK m : m = Merge(snapshot[a], held[w].ids)
          OBVIOUS
        <4>2. /\ snapshot' = [snapshot EXCEPT ![a] = m]
              /\ snapshot \in [Actions -> Snapshots \union {None}] /\ held[w].ids = {1}
          BY <1>9, <3>2, <4>1 DEF RecordCreated, SeqInv, SnapshotsKnown, TypeInv, TypeOK
        <4>3. snapshot[a] # None => m \in Snapshots
          BY <4>1, <4>2 DEF Merge, Snapshots
        <4> QED BY <4>2, <4>3, NoneIsNoRecord
      <3> QED BY <1>9, <2>1, <3>1, <3>2 DEF RecordCreated
    <2> QED BY <2>1, <2>2, OnlyWorker DEF SnapshotsKept, Snapshotted
  <1>10. ASSUME NEW w \in Workers, ForgetSnapshot(w)
        PROVE  SnapshotsKept'
    <2>1. PICK a \in Actions : /\ a = act[w] /\ pc'[w] = "undo_audit" /\ UNCHANGED <<preview, writes>>
                               /\ undone' = undone \union {a}
                               /\ \A b \in Actions : b # a => snapshot'[b] = snapshot[b]
      BY <1>10 DEF ForgetSnapshot, Goto, hubspot, SeqInv, TypeInv, TypeOK
    <2> QED BY <2>1, OnlyWorker DEF SnapshotsKept, Snapshotted
  <1>11. ASSUME NEW w \in Workers, Abort(w)
        PROVE  SnapshotsKept'
    BY <1>11 DEF Abort, SeqInv, Once
  <1>12. CASE \/ \E a \in Actions : ExpirePending(a) \/ ExpireSnapshot(a)
              \/ \E r \in Records : Edit(r)
              \/ UNCHANGED vars
    <2>1. UNCHANGED <<preview, snapshot, writes, undone, pc, act>>
      BY <1>12 DEF ExpirePending, ExpireSnapshot, Edit, vars, store, hubspot, workers, history
    <2> QED BY <2>1 DEF SnapshotsKept, Snapshotted
  <1> QED BY <1>2, <1>3, <1>4, <1>5, <1>6, <1>7, <1>8, <1>9, <1>10, <1>11, <1>12
          DEF Next, Arrive, Step

\* An update that HubSpot holds keeps its snapshot until its undo, when requests come
\* one at a time and the store keeps its keys (execute_pending_write saves it first).
THEOREM UpdateKeepsSnapshot ==
  ASSUME OneAtATime, CanExpire = FALSE
  PROVE  Spec => []AppliedUpdateHasSnapshot
  <1>1. KeptInv => AppliedUpdateHasSnapshot
    <2> SUFFICES ASSUME KeptInv, NEW a \in Actions \ undone, preview[a] # None,
                        preview[a].kind = "update", record[preview[a].record] = a
                 PROVE  snapshot[a] # None
      BY DEF AppliedUpdateHasSnapshot
    <2>1. preview[a].record \in Records
      BY DEF KeptInv, SeqInv, TypeInv, TypeOK, Previews
    <2>2. writes[a] = 1
      BY <2>1 DEF KeptInv, SeqInv, NamesKnown
    <2> QED BY <2>2 DEF KeptInv, SnapshotsKept, Snapshotted
  <1> QED BY KeptInit, KeptNext, <1>1, PTL DEF Spec

\* ... and it names the object, if every answer does and the store takes it.
IdsKept ==
  \A a \in Actions : snapshot[a] # None /\ writes[a] = 1 /\ preview[a].kind = "create" =>
    \/ snapshot[a].ids = {1}
    \/ a \notin reported /\ \E w \in Workers : act[w] = a /\ pc[w] = "record"

ReportInv == KeptInv /\ IdsKept

\* Nor an id.
LEMMA ReportInit == ASSUME OneAtATime PROVE Init => ReportInv
  <1> SUFFICES ASSUME Init PROVE ReportInv
    OBVIOUS
  <1> QED BY KeptInit, GateAssumption DEF ReportInv, IdsKept, Init

\* The id of a created object is merged into the snapshot before the write is reported.
LEMMA ReportNext ==
  ASSUME OneAtATime, CanExpire = FALSE, "noid" \notin InvokeOutcomes, "record" \notin Swallowed
  PROVE  ReportInv /\ [Next]_vars => ReportInv'
  <1> SUFFICES ASSUME ReportInv, [Next]_vars PROVE IdsKept'
    BY KeptNext DEF ReportInv
  <1>0. SeqInv /\ SeqInv' /\ IdsKept
    BY NextSeq DEF ReportInv, KeptInv
  <1> USE <1>0
  <1>1. ASSUME UNCHANGED <<preview, snapshot, writes>>,
               \A w \in Workers : pc[w] = "record" => pc'[w] = "record" /\ act'[w] = act[w],
               \A a \in Actions : a \in reported' => a \in reported \/ snapshot[a] = None
                                                     \/ \E w \in Workers : act[w] = a /\ pc[w] = "audit"
        PROVE  IdsKept'
    <2>1. \A w \in Workers : pc[w] = "record" => ~ \E v \in Workers : pc[v] = "audit"
      BY OnlyWorker
    <2> QED BY <1>1, <2>1 DEF IdsKept
  <1>2. ASSUME NEW w \in Workers, NEW a \in Actions, CallTool(w, a)
        PROVE  IdsKept'
    <2>1. /\ preview[a] = None /\ writes[a] = 0 /\ UNCHANGED <<snapshot, writes, reported>>
          /\ pc[w] = "idle" /\ \A b \in Actions : b # a => preview'[b] = preview[b]
      BY <1>2 DEF CallTool, Begin, SeqInv, Once, TypeInv, TypeOK, hubspot, history
    <2> QED BY <2>1, OnlyWorker DEF IdsKept
  <1>3. ASSUME NEW w \in Workers,
               \/ StorePending(w) \/ Load(w) \/ Confirm(w) \/ ClearPending(w) \/ Audit(w) \/ Discard(w)
               \/ UndoAudit(w) \/ Restore(w)
               \/ \E a \in Actions : Reject(w, a) \/ Undo(w, a) \/ \E c \in Counts : Approve(w, a, c)
        PROVE  IdsKept'
    <2>1. pc[w] # "record" /\ UNCHANGED <<preview, snapshot, writes>>
      BY <1>3 DEF StorePending, Load, Confirm, ClearPending, Audit, Discard, UndoAudit, Restore, Reject,
                  Undo, Approve, Begin, store, hubspot
    <2>2. UNCHANGED reported \/ (pc[w] = "audit" /\ reported' = reported \union {act[w]})
      BY <1>3 DEF StorePending, Load, Confirm, ClearPending, Audit, Discard, UndoAudit, Restore, Reject,
                  Undo, Approve, history
    <2> QED BY <1>1, <2>1, <2>2, OnlyWorker
  <1>4. ASSUME NEW w \in Workers, SaveSnapshot(w)
        PROVE  IdsKept'
    <2>1. PICK a \in Actions : /\ a = act[w] /\ writes[a] = 0 /\ pc[w] = "save"
                               /\ UNCHANGED <<preview, writes, reported>>
                               /\ \A b \in Actions : b # a => snapshot'[b] = snapshot[b]
      BY <1>4 DEF SaveSnapshot, hubspot, history, SeqInv, Once, Early, TypeInv, TypeOK
    <2> QED BY <2>1, OnlyWorker DEF IdsKept
  <1>5. ASSUME NEW w \in Workers, Invoke(w)
        PROVE  IdsKept'
    <2>1. PICK a \in Actions : /\ a = act[w] /\ a = act'[w] /\ pc[w] = "invoke" /\ a \notin reported
                               /\ writes[a] = 0 /\ UNCHANGED <<preview, snapshot, reported>>
      BY <1>5 DEF Invoke, store, history, SeqInv, Once, Early, TypeInv, TypeOK
    <2>2. \A b \in Actions : b # a => writes'[b] = writes[b]
      BY <1>5, <2>1 DEF Invoke, Effect, hubspot, SeqInv, TypeInv, TypeOK
    <2>3. preview[a].kind = "create" => UNCHANGED writes \/ pc'[w] = "record"
      <3>1. PICK outcome \in {"ok", "rejected"} :
              /\ IF outcome = "rejected" THEN UNCHANGED hubspot ELSE Effect(a)
              /\ IF Failed(outcome) THEN Goto(w, "drop") /\ UNCHANGED held
                 ELSE IF preview[a].kind = "create" /\ outcome # "noid"
                 THEN /\ Goto(w, "record")
                      /\ held' = [held EXCEPT ![w] = [original |-> None, ids |-> {writes[a] + 1}]]
                 ELSE Goto(w, "clear") /\ UNCHANGED held
        BY <1>5, <2>1, GateAssumption DEF Invoke, OneAtATime
      <3> QED BY <3>1 DEF Failed, Goto, hubspot, SeqInv, TypeInv, TypeOK
    <2> QED BY <2>1, <2>2, <2>3, OnlyWorker DEF IdsKept
  <1>6. ASSUME NEW w \in Workers, DropSnapshot(w) \/ ForgetSnapshot(w)
        PROVE  IdsKept'
    <2>1. /\ pc[w] # "record" /\ UNCHANGED <<preview, writes, reported>>
          /\ \A b \in Actions : snapshot'[b] \in {snapshot[b], None}
      BY <1>6 DEF DropSnapshot, LeftOnFailure, ForgetSnapshot, hubspot, history, SeqInv, TypeInv, TypeOK
    <2> QED BY <2>1, OnlyWorker DEF IdsKept
  <1>7. ASSUME NEW w \in Workers, RecordCreated(w)
        PROVE  IdsKept'
    <2>1. PICK a \in Actions : /\ a = act[w] /\ pc[w] = "record" /\ UNCHANGED <<preview, writes, reported>>
                               /\ snapshot' = [snapshot EXCEPT ![a] = Merge(@, held[w].ids)]
      BY <1>7 DEF RecordCreated, hubspot, history, SeqInv, TypeInv, TypeOK
    <2>2. PICK m : m = Merge(snapshot[a], held[w].ids)
      OBVIOUS
    <2>3. /\ snapshot' = [snapshot EXCEPT ![a] = m]
          /\ snapshot \in [Actions -> Snapshots \union {None}] /\ held[w].ids = {1}
      BY <2>1, <2>2 DEF SeqInv, SnapshotsKnown, TypeInv, TypeOK
    <2>4. m # None => m.ids = {1}
      BY <2>2, <2>3 DEF Merge, Snapshots
    <2>5. snapshot'[a] = m /\ \A b \in Actions : b # a => snapshot'[b] = snapshot[b]
      BY <2>3
    <2> QED BY <2>1, <2>4, <2>5, OnlyWorker DEF IdsKept
  <1>8. ASSUME NEW w \in Workers, Abort(w)
        PROVE  IdsKept'
    BY <1>8 DEF Abort, SeqInv, Once
  <1>9. CASE \/ \E a \in Actions : ExpirePending(a) \/ ExpireSnapshot(a)
             \/ \E r \in Records : Edit(r)
             \/ UNCHANGED vars
    <2>1. UNCHANGED <<preview, snapshot, writes, reported, pc, act>>
      BY <1>9 DEF ExpirePending, ExpireSnapshot, Edit, vars, store, hubspot, workers, history
    <2> QED BY <2>1 DEF IdsKept
  <1> QED BY <1>2, <1>3, <1>4, <1>5, <1>6, <1>7, <1>8, <1>9 DEF Next, Arrive, Step

\* What was reported as executed can be undone until it is, when requests come one at
\* a time, the store keeps its keys and takes the merge of the new id, and HubSpot
\* names what it creates (execute_pending_write, update_undo_snapshot).
THEOREM ReportKeepsUndo ==
  ASSUME OneAtATime, CanExpire = FALSE, "noid" \notin InvokeOutcomes, "record" \notin Swallowed
  PROVE  Spec => []ReportedKeepsUndo
  <1>1. ReportInv => ReportedKeepsUndo
    <2> SUFFICES ASSUME ReportInv, NEW a \in reported \ undone,
                        IsUndoable(preview[a].kind, preview[a].original)
                 PROVE  snapshot[a] # None /\ (preview[a].kind = "create" => snapshot[a].ids # {})
      BY DEF ReportedKeepsUndo
    <2>1. a \in Actions /\ writes[a] = 1 /\ Snapshotted(a)
      BY DEF ReportInv, KeptInv, SeqInv, Once, IsUndoable, Snapshotted
    <2>2. snapshot[a] # None
      BY <2>1 DEF ReportInv, KeptInv, SnapshotsKept
    <2> QED BY <2>1, <2>2 DEF ReportInv, IdsKept
  <1> QED BY ReportInit, ReportNext, <1>1, PTL DEF Spec
=============================================================================
