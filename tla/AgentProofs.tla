----------------------------- MODULE AgentProofs -----------------------------
(***************************************************************************)
(* Theorems about AgentPipeline for any things, contents, payloads, limits   *)
(* and edits.                                                               *)
(***************************************************************************)
EXTENDS AgentPipeline, FiniteSetTheorems, TLAPS

Things == {Absent} \cup [match : BOOLEAN, val : Vals]
Calls == [op : {"none", "create", "update", "put", "delete", "merge", "link"}, id : Ids \cup {NoId},
          val : Vals \cup {NoVal}, other : Ids \cup {NoId}, seen : Things]
Outcomes == [status : {"success", "error", "raised"}, call : Calls]

-----------------------------------------------------------------------------
(* The handlers *)

\* The files of the record agents repeat the same three handlers.
LEMMA RecordHandlers ==
  ASSUME NEW i, i.agent \in RecordAgents, NEW p, NEW ans
  PROVE  /\ PreviewBuilder(i, ans) = RecordPreview(i, ans)
         /\ ExecuteDispatch(i, p, ans) = RecordExecute(i, p, ans)
         /\ ReconcileDispatch(i, p, ans) = RecordReconcile(i, p, ans)
  <1>1. RecordAgentPreview(i, ans) = RecordPreview(i, ans)
    BY DEF RecordAgents, RecordAgentPreview, AppointmentsPreview, CartsPreview, CommunicationsPreview,
           CoursesPreview, CustomObjectsPreview, DiscountsPreview, FeesPreview, GoalsPreview,
           InvoicesPreview, LeadsPreview, ListingsPreview, ObjectsPreview, OrdersPreview,
           ProjectsPreview, QuotesPreview, ServicesPreview, SubscriptionsPreview, TaxesPreview,
           TimelineEventsPreview
  <1>2. RecordAgentExecute(i, p, ans) = RecordExecute(i, p, ans)
    BY DEF RecordAgents, RecordAgentExecute, AppointmentsExecute, CartsExecute, CommunicationsExecute,
           CoursesExecute, CustomObjectsExecute, DiscountsExecute, FeesExecute, GoalsExecute,
           InvoicesExecute, LeadsExecute, ListingsExecute, ObjectsExecute, OrdersExecute,
           ProjectsExecute, QuotesExecute, ServicesExecute, SubscriptionsExecute, TaxesExecute,
           TimelineEventsExecute
  <1>3. RecordAgentReconcile(i, p, ans) = RecordReconcile(i, p, ans)
    BY DEF RecordAgents, RecordAgentReconcile, AppointmentsReconcile, CartsReconcile,
           CommunicationsReconcile, CoursesReconcile, CustomObjectsReconcile, DiscountsReconcile,
           FeesReconcile, GoalsReconcile, InvoicesReconcile, LeadsReconcile, ListingsReconcile,
           ObjectsReconcile, OrdersReconcile, ProjectsReconcile, QuotesReconcile, ServicesReconcile,
           SubscriptionsReconcile, TaxesReconcile, TimelineEventsReconcile
  <1> QED BY <1>1, <1>2, <1>3 DEF PreviewBuilder, ExecuteDispatch, ReconcileDispatch

LEMMA SpecialistHandlers ==
  ASSUME NEW i, i.agent \in SpecialistAgents, NEW p, NEW ans
  PROVE  /\ i.agent \notin RecordAgents
         /\ ExecuteDispatch(i, p, ans) = SpecialistExecute(i, p, ans)
         /\ ReconcileDispatch(i, p, ans) = SpecialistReconcile(i, p, ans)
  BY DEF RecordAgents, SpecialistAgents, ExecuteDispatch, ReconcileDispatch

\* Every preview proposes an empty payload or what the text asks for.
Proposes(i, pre) == pre.payload \in {Empty, [Empty EXCEPT !.val = i.wants]}

LEMMA PreviewProposes ==
  ASSUME NEW i, NEW n, NEW S, NEW p \in {Empty, [Empty EXCEPT !.val = i.wants]}
  PROVE  Proposes(i, Preview(n, S, p)) /\ Proposes(i, PreviewFailed) /\ Proposes(i, PreviewRaised)
         /\ Proposes(i, Message(i))
  BY DEF Proposes, Preview, PreviewFailed, PreviewRaised, Message

LEMMA PreviewPayload ==
  ASSUME NEW i, i.agent \in Agents, NEW ans, ans.ok \in {"ok", "error", "raise"}
  PROVE  Proposes(i, PreviewBuilder(i, ans))
  <1>1. CASE i.agent \in RecordAgents
    BY <1>1, RecordHandlers, PreviewProposes DEF RecordPreview
  <1>2. ASSUME NEW p \in {Empty, [Empty EXCEPT !.val = i.wants]}
        PROVE  Proposes(i, ListingPreview(i, ans, p))
    BY PreviewProposes DEF ListingPreview
  <1>3. CASE i.agent \notin RecordAgents
    <2>1. PreviewBuilder(i, ans) = SpecialistPreview(i, ans)
      BY <1>3 DEF PreviewBuilder
    <2>2. CASE i.agent \in {"commerce", "forms", "lists", "users", "engagements", "pipelines",
                            "properties", "service"}
      BY <1>2, <2>1, <2>2, PreviewProposes DEF SpecialistPreview, CommercePreview, FormsPreview,
         ListsPreview, UsersPreview, EngagementsPreview, PipelinesPreview, PropertiesPreview, ServicePreview
    <2>3. CASE i.agent \in {"associations", "data", "hygiene", "raw_api", "sequences", "workflows",
                            "analytics"}
      BY <2>1, <2>3, PreviewProposes DEF SpecialistPreview, AssociationsPreview, DataPreview,
         HygienePreview, RawApiPreview, SequencesPreview, WorkflowsPreview,
         WorkflowsPreviewCreate, AnalyticsPreview
    <2>4. CASE i.agent \in PreviewOnlyAgents \ {"analytics"}
      <3>1. PreviewBuilder(i, ans) = Preview(0, {}, Empty)
        BY <2>1, <2>4 DEF SpecialistPreview, PreviewOnlyAgents, AccountInfoPreview, AuditLogsPreview,
           EmailEventsPreview, ForecastsPreview, ObjectLibraryPreview, SchedulerPreview,
           SecurityHistoryPreview
      <3> QED BY <3>1, PreviewProposes
    <2>5. CASE i.agent = "deal_splits"
      <3>1. PreviewBuilder(i, ans) = DealSplitsPreview(i, ans)
        BY <2>1, <2>5 DEF SpecialistPreview
      <3>2. DealSplitsPreview(i, ans) \in {Message(i), Preview(0, {}, Empty), PreviewFailed, PreviewRaised}
        BY DEF DealSplitsPreview
      <3> QED BY <3>1, <3>2, PreviewProposes
    <2> QED BY <1>3, <2>2, <2>3, <2>4, <2>5 DEF Agents, SpecialistAgents, PreviewOnlyAgents
  <1> QED BY <1>1, <1>3

\* An execution calls for a creation only if one was asked for.
Fits(i, out) == out \in Outcomes /\ (out.call.op = "create" => i.kind = "create")

LEMMA CallType ==
  ASSUME NEW op \in {"none", "create", "update", "put", "delete", "merge", "link"},
         NEW id \in Ids \cup {NoId}, NEW val \in Vals \cup {NoVal}
  PROVE  /\ Call(op, id, val) \in Calls /\ NoCall \in Calls
         /\ Call(op, id, val).op = op /\ Call(op, id, val).id = id /\ Call(op, id, val).val = val
  BY DEF Call, NoCall, Calls, Things

LEMMA NoCallFits ==
  ASSUME NEW i
  PROVE  Fits(i, Executed) /\ Fits(i, ExecuteError) /\ Fits(i, Raised)
  <1>1. NoCall \in Calls /\ NoCall.op = "none"
    BY DEF NoCall, Calls, Things
  <1> QED BY <1>1 DEF Fits, Executed, Executes, ExecuteError, Raised, Outcomes

LEMMA CallFits ==
  ASSUME NEW i, NEW call \in Calls, call.op = "create" => i.kind = "create"
  PROVE  Fits(i, Executes(call))
  BY DEF Fits, Executes, Outcomes

LEMMA SpecialistFits ==
  ASSUME NEW i \in Intents(Agents), i.agent \in SpecialistAgents, NEW p \in Payloads, NEW ans,
         ans.item \in Things
  PROVE  Fits(i, SpecialistExecute(i, p, ans))
  <1>1. p.id \in Ids \cup {NoId} /\ p.val \in Vals \cup {NoVal} /\ p.other \in Ids \cup {NoId}
    BY DEF Payloads
  <1>2. Fits(i, ExecuteRead(ans))
    BY NoCallFits DEF ExecuteRead
  <1>3. ASSUME NEW op \in {"update", "delete"}
        PROVE  Fits(i, ById(op, p)) /\ Fits(i, Executes(Call(op, p.id, p.val)))
    <2>1. Fits(i, Executes(Call(op, p.id, p.val)))
      BY <1>1, CallFits, CallType
    <2> QED BY <2>1, NoCallFits DEF ById
  <1>4. Fits(i, Executes(Call("link", p.id, p.val)))
    BY <1>1, CallFits, CallType
  <1>5. i.kind = "create" => Fits(i, Executes(Call("create", NoId, p.val)))
    BY <1>1, CallFits, CallType
  <1>6. Fits(i, Executes([NoCall EXCEPT !.op = "merge", !.id = p.id, !.other = p.other]))
    <2>1. PICK c : c = [NoCall EXCEPT !.op = "merge", !.id = p.id, !.other = p.other]
      OBVIOUS
    <2>2. c \in Calls /\ c.op = "merge"
      BY <1>1, <2>1 DEF NoCall, Calls, Things
    <2> QED BY <2>1, <2>2, CallFits
  <1>7. Fits(i, Executes([Call("put", p.id, p.val) EXCEPT !.seen = ans.item]))
    <2>1. PICK c : c = [Call("put", p.id, p.val) EXCEPT !.seen = ans.item]
      OBVIOUS
    <2>2. c \in Calls /\ c.op = "put"
      BY <1>1, <2>1, CallType DEF Calls
    <2> QED BY <2>1, <2>2, CallFits
  <1>8. CASE i.agent \in {"properties", "pipelines", "users", "lists", "engagements"}
    BY <1>1, <1>2, <1>3, <1>5, <1>8, NoCallFits DEF SpecialistExecute, PropertiesExecute, PipelinesExecute,
       UsersExecute, ListsExecute, EngagementsExecute
  <1>9. CASE i.agent \in {"forms", "hygiene", "service", "deal_splits", "data"}
    BY <1>1, <1>2, <1>3, <1>5, <1>6, <1>9, NoCallFits DEF SpecialistExecute, FormsExecute, HygieneExecute,
       ServiceExecute, DealSplitsExecute, DataExecute
  <1>10. CASE i.agent \in {"commerce", "sequences", "associations", "raw_api", "workflows"}
    BY <1>1, <1>2, <1>3, <1>4, <1>5, <1>7, <1>10, NoCallFits DEF SpecialistExecute, CommerceExecute,
       SequencesExecute, AssociationsExecute, RawApiExecute, WorkflowsExecute
  <1> QED BY <1>8, <1>9, <1>10 DEF SpecialistAgents

\* A search returns things the text finds, all of them if they are few.
LEMMA RankedHits ==
  ASSUME NEW S \in SUBSET Ids, NEW q \in Rankings(S)
  PROVE  /\ Len(q) \in Nat /\ \A k \in 1..Len(q) : q[k] \in S
         /\ q = <<>> <=> S = {}
         /\ q = <<>> <=> Len(q) = 0
         /\ Cardinality(S) <= SearchLimit => \A x \in S : \E k \in 1..Len(q) : q[k] = x
         /\ Cardinality(S) <= SearchLimit => Len(q) = Cardinality(S)
  <1>1. IsFiniteSet(S) /\ Cardinality(S) \in Nat
    BY HandlerAssumption, FS_Subset, FS_CardinalityType
  <1>2. PICK n \in Nat : /\ n = IF Cardinality(S) < SearchLimit THEN Cardinality(S) ELSE SearchLimit
                         /\ q \in [1..n -> S]
                         /\ \A i, j \in 1..n : q[i] = q[j] => i = j
    BY <1>1, HandlerAssumption DEF Rankings
  <1>3. Len(q) = n /\ DOMAIN q = 1..n
    BY <1>2
  <1>4. q = <<>> <=> n = 0
    BY <1>2, <1>3
  <1>5. n = 0 <=> S = {}
    BY <1>1, <1>2, HandlerAssumption, FS_EmptySet
  <1>6. ASSUME Cardinality(S) <= SearchLimit PROVE \A x \in S : \E k \in 1..n : q[k] = x
    <2>1. q \in Injection(1..n, S)
      BY <1>2 DEF Injection, IsInjective
    <2>2. Cardinality(1..n) = n
      BY FS_Interval
    <2>3. Cardinality(1..n) = Cardinality(S)
      BY <1>1, <1>2, <1>6, <2>2, HandlerAssumption
    <2>4. q \in Surjection(1..n, S)
      BY <1>1, <2>1, <2>3, FS_Injection
    <2> QED BY <2>4 DEF Surjection
  <1>7. Cardinality(S) <= SearchLimit => n = Cardinality(S)
    BY <1>1, <1>2, HandlerAssumption
  <1> QED BY <1>2, <1>3, <1>4, <1>5, <1>6, <1>7

\* If what is compared is in H, all the hits are, or as many as a comparison takes.
LEMMA ComparedHits ==
  ASSUME NEW S \in SUBSET Ids, NEW q \in Rankings(S), NEW H \in SUBSET S, Compared(q) \subseteq H
  PROVE  /\ q # <<>> => H # {}
         /\ Cardinality(H) >= CompareLimit \/ H = S
  <1>1. IsFiniteSet(S) /\ Cardinality(S) \in Nat /\ IsFiniteSet(H) /\ Cardinality(H) \in Nat
    BY HandlerAssumption, FS_Subset, FS_CardinalityType
  <1>2. PICK n \in Nat : /\ n = IF Cardinality(S) < SearchLimit THEN Cardinality(S) ELSE SearchLimit
                         /\ q \in [1..n -> S]
                         /\ \A i, j \in 1..n : q[i] = q[j] => i = j
    BY <1>1, HandlerAssumption DEF Rankings
  <1>3. Len(q) = n
    BY <1>2
  <1>4. PICK m \in Nat : m = IF n < CompareLimit THEN n ELSE CompareLimit
    BY HandlerAssumption
  <1>5. Compared(q) = {q[k] : k \in 1..m}
    BY <1>3, <1>4 DEF Compared
  <1>6. \A k \in 1..m : q[k] \in H
    BY <1>5
  <1>7. m <= Cardinality(H)
    <2>1. [k \in 1..m |-> q[k]] \in Injection(1..m, H)
      BY <1>2, <1>4, <1>6, HandlerAssumption DEF Injection, IsInjective
    <2>2. Cardinality(1..m) <= Cardinality(H)
      BY <1>1, <2>1, FS_Injection
    <2>3. Cardinality(1..m) = m
      BY FS_Interval
    <2> QED BY <2>2, <2>3
  <1>8. q # <<>> => H # {}
    <2>1. q # <<>> => 1 \in 1..m
      BY <1>2, <1>4, HandlerAssumption
    <2> QED BY <1>6, <2>1
  <1>9. CASE n < CompareLimit
    <2>1. Cardinality(S) <= Cardinality(H)
      BY <1>1, <1>2, <1>4, <1>7, <1>9, HandlerAssumption
    <2>2. Cardinality(H) <= Cardinality(S) /\ (Cardinality(S) = Cardinality(H) => S = H)
      BY <1>1, FS_Subset
    <2>3. H = S
      BY <1>1, <2>1, <2>2
    <2> QED BY <1>8, <2>3
  <1>10. CASE ~(n < CompareLimit)
    BY <1>4, <1>7, <1>8, <1>10
  <1> QED BY <1>9, <1>10

\* A record agent updates and deletes the first thing its own search finds.
LEMMA RecordFits ==
  ASSUME NEW i \in Intents(Agents), i.agent \in RecordAgents, NEW p \in Payloads,
         NEW S \in SUBSET Ids, NEW ans, ans.hits \in Rankings(S), NEW out, out = RecordExecute(i, p, ans)
  PROVE  /\ Fits(i, out)
         /\ i.kind = "update" /\ out.status = "success" =>
              \/ out.call = NoCall /\ ~i.named
              \/ out.call.op = "update" /\ out.call.id \in S /\ out.call.val = p.val
  <1>1. p.val \in Vals \cup {NoVal}
    BY DEF Payloads
  <1>2. Hits(ans) # <<>> => Hits(ans)[1] \in S
    <2>1. ans.hits # <<>> => ans.hits[1] \in S
      <3>1. /\ Len(ans.hits) \in Nat /\ \A k \in 1..Len(ans.hits) : ans.hits[k] \in S
            /\ ans.hits = <<>> <=> S = {}
        BY RankedHits
      <3>2. ans.hits # <<>> => Len(ans.hits) # 0
        BY RankedHits
      <3> QED BY <3>1, <3>2
    <2> QED BY <2>1 DEF Hits
  <1>3. ASSUME i.kind \in {"update", "delete"}, Hits(ans) # <<>>
        PROVE  LET c == Call(i.kind, Hits(ans)[1], p.val) IN
               c \in Calls /\ c.op = i.kind /\ c.id \in S /\ c.val = p.val
    BY <1>1, <1>2, <1>3, CallType
  <1>4. Fits(i, out)
    <2>1. Fits(i, ExecuteRead(ans))
      BY NoCallFits DEF ExecuteRead
    <2>2. i.kind = "create" => Fits(i, Executes(Call("create", NoId, p.val)))
      BY <1>1, CallFits, CallType
    <2>3. ASSUME i.kind \in {"update", "delete"}, Hits(ans) # <<>>
          PROVE  Fits(i, Executes(Call(i.kind, Hits(ans)[1], p.val)))
      BY <1>3, <2>3, CallFits
    <2> QED BY <2>1, <2>2, <2>3, NoCallFits DEF RecordExecute
  <1>5. ASSUME i.kind = "update", out.status = "success"
        PROVE  \/ out.call = NoCall /\ ~i.named
               \/ out.call.op = "update" /\ out.call.id \in S /\ out.call.val = p.val
    <2>1. CASE ~i.named
      BY <2>1 DEF RecordExecute, Executed, Executes
    <2>2. CASE i.named
      <3>1. Hits(ans) # <<>> /\ out = Executes(Call(i.kind, Hits(ans)[1], p.val))
        BY <1>5, <2>2 DEF RecordExecute, Raised, ExecuteError
      <3> QED BY <1>3, <1>5, <3>1 DEF Executes
    <2> QED BY <2>1, <2>2
  <1> QED BY <1>4, <1>5

-----------------------------------------------------------------------------
(* The portal *)

LEMMA Answer ==
  ASSUME NEW q \in Portals, NEW id \in Ids \cup {NoId}, NEW ans \in AnswersOf(q, id)
  PROVE  /\ ans.ok \in {"ok", "error", "raise"} /\ ans.hits \in Rankings(Matching(q))
         /\ ans.item = (IF id = NoId THEN Absent ELSE q[id]) /\ ans.item \in Things
         /\ ans.now = q
  BY DEF AnswersOf, Portals, Things

LEMMA MatchingIds == \A q : Matching(q) \in SUBSET Ids
  BY DEF Matching, Present

\* An update leaves what the text finds.
LEMMA Updated ==
  ASSUME portal \in Portals, NEW x \in Present(portal), NEW v \in Vals,
         portal' = [portal EXCEPT ![x].val = v]
  PROVE  portal' \in Portals /\ Matching(portal') = Matching(portal)
  <1>1. portal[x] \in [match : BOOLEAN, val : Vals] /\ x \in Ids
    BY DEF Portals, Present
  <1>2. PICK r : r = [portal[x] EXCEPT !.val = v]
    OBVIOUS
  <1>3. r \in [match : BOOLEAN, val : Vals] /\ r.match = portal[x].match /\ r # Absent
    BY <1>1, <1>2, HandlerAssumption
  <1>4. portal' = [portal EXCEPT ![x] = r]
    BY <1>2
  <1>5. /\ portal' \in Portals /\ portal'[x] = r
        /\ \A y \in Ids : y # x => portal'[y] = portal[y]
    BY <1>1, <1>3, <1>4 DEF Portals
  <1>6. \A y \in Ids : y \in Matching(portal') <=> y \in Matching(portal)
    BY <1>1, <1>3, <1>5, HandlerAssumption DEF Matching, Present
  <1> QED BY <1>5, <1>6, MatchingIds

\* What HubSpot makes of an accepted call: an update keeps what the text finds, and
\* only a creation makes a thing.
LEMMA Applied ==
  ASSUME portal \in Portals, NEW call \in Calls, Accepts(call), Apply(call)
  PROVE  /\ portal' \in Portals /\ made' \in Ids \cup {NoId}
         /\ made' # NoId => call.op = "create"
         /\ call.op = "update" => Matching(portal') = Matching(portal)
  <1>0. /\ call.op \in {"none", "create", "update", "put", "delete", "merge", "link"}
        /\ call.val \in Vals \cup {NoVal}
    BY DEF Calls
  <1>1. CASE call.op \in {"update", "put"}
    <2>1. call.id \in Present(portal) /\ call.id \in Ids /\ portal[call.id].val \in Vals
      BY <1>1 DEF Accepts, Present, Portals
    <2>2. PICK v : v = IF call.val = NoVal THEN portal[call.id].val ELSE call.val
      OBVIOUS
    <2>3. v \in Vals
      BY <1>0, <2>1, <2>2
    <2>4. portal' = [portal EXCEPT ![call.id].val = v] /\ made' = NoId
      BY <1>1, <2>2 DEF Apply
    <2> QED BY <2>1, <2>3, <2>4, Updated
  <1>2. CASE call.op = "delete"
    <2>1. portal' = [portal EXCEPT ![call.id] = Absent] /\ made' = NoId
      BY <1>2 DEF Apply
    <2> QED BY <1>2, <2>1 DEF Portals
  <1>3. CASE call.op = "merge"
    <2>1. portal' = [portal EXCEPT ![call.other] = Absent] /\ made' = NoId
      BY <1>3 DEF Apply
    <2> QED BY <1>3, <2>1 DEF Portals
  <1>4. CASE call.op = "create"
    <2>1. PICK x \in Ids \ Present(portal), m \in BOOLEAN, v \in Vals :
             portal' = [portal EXCEPT ![x] = [match |-> m, val |-> v]] /\ made' = x
      BY <1>4 DEF Apply
    <2>2. PICK r : r = [match |-> m, val |-> v]
      OBVIOUS
    <2>3. r \in [match : BOOLEAN, val : Vals] /\ portal' = [portal EXCEPT ![x] = r]
      BY <2>1, <2>2
    <2> QED BY <1>4, <2>1, <2>3 DEF Portals
  <1>5. CASE call.op \in {"none", "link"}
    BY <1>5 DEF Apply
  <1> QED BY <1>0, <1>1, <1>2, <1>3, <1>4, <1>5

-----------------------------------------------------------------------------
(* What is known of a request *)

Known ==
  /\ portal \in Portals /\ intent \in Intents(Agents)
  /\ preview.payload \in Payloads /\ payload \in Payloads /\ outcome \in Outcomes
  /\ step \in {"preview", "execute", "write", "reconcile", "done"}
  /\ made \in Ids \cup {NoId} /\ edits \in Nat
  /\ step \in {"execute", "write", "reconcile"} => intent.agent \notin PreviewOnlyAgents
  /\ outcome.call.op = "create" \/ made # NoId => intent.kind = "create"
  /\ step # "done" => verdict = "none"

\* Until somebody else edits the portal, an update of a record agent is of a thing
\* the text finds.
Aimed ==
  /\ intent.agent \in RecordAgents /\ intent.kind = "update" /\ edits = 0
  /\ step \in {"write", "reconcile"}
  => \/ outcome.call = NoCall /\ ~intent.named
     \/ outcome.call.op = "update" /\ outcome.call.id \in Matching(portal)

\* An update of a workflow is sent under the revision that was read.
Conditional ==
  step = "write" /\ intent.agent = "workflows" /\ intent.kind = "update" => outcome.call.op = "put"

Inv == Known /\ Aimed /\ Conditional

LEMMA InitInv == Init => Inv
  <1> SUFFICES ASSUME Init PROVE Inv
    OBVIOUS
  <1>1. Empty \in Payloads /\ preview.payload = Empty
    BY DEF Init, Preview, Empty, Payloads
  <1>2. outcome \in Outcomes /\ outcome.call.op = "none"
    BY DEF Init, Executed, Executes, NoCall, Outcomes, Calls, Things
  <1> QED BY <1>1, <1>2, PipelineAssumption DEF Init, Inv, Known, Aimed, Conditional

LEMMA BuildPreviewInv == Inv /\ BuildPreview => Inv'
  <1> SUFFICES ASSUME Inv, BuildPreview PROVE Inv'
    OBVIOUS
  <1>1. PICK ans \in AnswersOf(portal, NoId) : preview' = PreviewBuilder(intent, ans)
    BY DEF BuildPreview
  <1>2. intent \in Intents(Agents) /\ intent.agent \in Agents /\ intent.wants \in Vals
    BY DEF Inv, Known, Intents
  <1>3. Proposes(intent, preview')
    BY <1>1, <1>2, Answer, PreviewPayload DEF Inv, Known
  <1>4. preview'.payload \in Payloads
    BY <1>2, <1>3 DEF Proposes, Empty, Payloads
  <1>5. step' \in {"execute", "done"} /\ (step' = "execute" => intent.agent \notin PreviewOnlyAgents)
    BY DEF BuildPreview
  <1> QED BY <1>4, <1>5 DEF BuildPreview, Inv, Known, Aimed, Conditional

LEMMA ExecuteInv == Inv /\ Execute => Inv'
  <1> SUFFICES ASSUME Inv, Execute PROVE Inv'
    OBVIOUS
  <1>1. payload' \in Payloads /\ payload'.id \in Ids \cup {NoId}
    BY PipelineAssumption DEF Execute, Inv, Known, Payloads
  <1>2. PICK ans \in AnswersOf(portal, payload'.id) : outcome' = ExecuteDispatch(intent, payload', ans)
    BY DEF Execute
  <1>3. /\ ans.ok \in {"ok", "error", "raise"} /\ ans.hits \in Rankings(Matching(portal))
        /\ ans.item \in Things
    BY <1>1, <1>2, Answer DEF Inv, Known
  <1>4. /\ intent \in Intents(Agents) /\ intent.agent \notin PreviewOnlyAgents
        /\ intent.agent \in RecordAgents \cup SpecialistAgents
    BY DEF Inv, Known, Execute, Intents, Agents
  <1>5. /\ step' \in {"done", "reconcile", "write"}
        /\ step' # "done" => outcome'.status = "success"
        /\ step' = "write" => outcome'.call # NoCall
    BY DEF Execute
  <1>6. Fits(intent, outcome')
    <2>1. CASE intent.agent \in RecordAgents
      BY <1>1, <1>2, <1>3, <1>4, <2>1, RecordHandlers, RecordFits, MatchingIds
    <2>2. CASE intent.agent \in SpecialistAgents
      BY <1>1, <1>2, <1>3, <1>4, <2>2, SpecialistHandlers, SpecialistFits
    <2> QED BY <1>4, <2>1, <2>2
  <1>7. Known'
    BY <1>1, <1>4, <1>5, <1>6 DEF Execute, Inv, Known, Fits
  <1>8. Aimed'
    <2>1. ASSUME intent.agent \in RecordAgents, intent.kind = "update", outcome'.status = "success"
          PROVE  \/ outcome'.call = NoCall /\ ~intent.named
                 \/ outcome'.call.op = "update" /\ outcome'.call.id \in Matching(portal)
      BY <1>1, <1>2, <1>3, <1>4, <2>1, RecordHandlers, RecordFits, MatchingIds
    <2> QED BY <1>5, <2>1 DEF Execute, Aimed
  <1>9. Conditional'
    <2>1. ASSUME intent.agent = "workflows", intent.kind = "update", outcome'.call # NoCall
          PROVE  outcome'.call.op = "put"
      <3>1. outcome' = WorkflowsExecute(intent, payload', ans)
        BY <1>2, <2>1, SpecialistHandlers DEF SpecialistAgents, SpecialistExecute
      <3>2. outcome' = Executes([Call("put", payload'.id, payload'.val) EXCEPT !.seen = ans.item])
        BY <2>1, <3>1 DEF WorkflowsExecute, Reads, ExecuteError, Raised
      <3> QED BY <3>2 DEF Executes, Call, NoCall
    <2> QED BY <1>5, <2>1 DEF Execute, Conditional
  <1> QED BY <1>7, <1>8, <1>9 DEF Inv

LEMMA WritingInv == Inv /\ (WriteApplied \/ WriteRefused \/ WriteRejected) => Inv'
  <1> SUFFICES ASSUME Inv, WriteApplied \/ WriteRefused \/ WriteRejected PROVE Inv'
    OBVIOUS
  <1>1. PICK apply \in BOOLEAN, status \in {"success", "raised"}, next \in {"reconcile", "done"} :
           Writing(apply, status, next)
    BY DEF WriteApplied, WriteRefused, WriteRejected
  <1>2. /\ outcome' \in Outcomes /\ outcome'.call = outcome.call /\ outcome.call \in Calls
        /\ step = "write" /\ step' = next
        /\ UNCHANGED <<intent, preview, payload, verdict, missed, edits>>
    BY <1>1 DEF Writing, Inv, Known, Outcomes
  <1>3. /\ portal' \in Portals /\ made' \in Ids \cup {NoId}
        /\ made' # NoId => made # NoId \/ outcome.call.op = "create"
        /\ outcome.call.op = "update" => Matching(portal') = Matching(portal)
        /\ outcome.call.op = "none" => Matching(portal') = Matching(portal)
    <2>1. CASE apply
      <3>1. Accepts(outcome.call) /\ Apply(outcome.call)
        BY <1>1, <2>1 DEF Writing
      <3>2. outcome.call.op = "none" => portal' = portal
        BY <3>1 DEF Apply
      <3> QED BY <1>2, <3>1, <3>2, Applied DEF Inv, Known
    <2>2. CASE ~apply
      BY <1>1, <2>2 DEF Writing, Inv, Known
    <2> QED BY <2>1, <2>2
  <1>4. Known'
    BY <1>2, <1>3 DEF Inv, Known
  <1>5. Aimed' /\ Conditional'
    BY <1>2, <1>3 DEF Inv, Aimed, Conditional
  <1> QED BY <1>4, <1>5 DEF Inv

LEMMA ReconcileInv == Inv /\ Reconcile => Inv'
  BY DEF Reconcile, Inv, Known, Aimed, Conditional

LEMMA EditInv == Inv /\ Edit => Inv'
  <1> SUFFICES ASSUME Inv, Edit PROVE Inv'
    OBVIOUS
  <1>1. PICK x \in Ids, r \in Things : portal' = [portal EXCEPT ![x] = r]
    BY DEF Edit, Things
  <1>2. portal' \in Portals
    BY <1>1 DEF Inv, Known, Portals, Things
  <1>3. edits' # 0
    BY DEF Edit, Inv, Known
  <1> QED BY <1>2, <1>3 DEF Edit, Inv, Known, Aimed, Conditional

LEMMA NextInv == Inv /\ [Next]_vars => Inv'
  <1>1. Inv /\ UNCHANGED vars => Inv'
    BY DEF vars, Inv, Known, Aimed, Conditional
  <1> QED BY <1>1, BuildPreviewInv, ExecuteInv, WritingInv, ReconcileInv, EditInv DEF Next

-----------------------------------------------------------------------------
(* What a verdict says *)

\* A property of the verdict holds if it holds when the reconciliation gives it.
LEMMA AfterVerdict == Inv /\ [Next]_vars /\ ~Reconcile => verdict' = "none" \/ UNCHANGED vars
  BY DEF Next, Inv, Known, BuildPreview, Execute, WriteApplied, WriteRefused, WriteRejected, Writing, Edit

\* Only a creation knows the id of what it made.
LEMMA Expected ==
  ASSUME Inv, Reconcile
  PROVE  \E e \in Payloads : \E ans \in AnswersOf(portal, e.id) :
           /\ verdict' = ReconcileDispatch(intent, e, ans) /\ missed' = (ans.ok # "ok")
           /\ e.val = payload.val /\ (intent.kind # "create" => e = payload)
  <1>1. PICK e \in {payload} \cup {[payload EXCEPT !.id = x] : x \in {made} \ {NoId}} :
           \E ans \in AnswersOf(portal, e.id) :
             /\ verdict' = ReconcileDispatch(intent, e, ans) /\ missed' = (ans.ok # "ok")
    BY DEF Reconcile
  <1>2. e = payload \/ (intent.kind = "create" /\ e = [payload EXCEPT !.id = made])
    BY <1>1 DEF Inv, Known
  <1>3. e \in Payloads /\ e.val = payload.val
    BY <1>2 DEF Inv, Known, Payloads
  <1> QED BY <1>1, <1>2, <1>3

LEMMA VerdictOfDelete ==
  ASSUME Inv, Reconcile
  PROVE  VerifiedDeleteIsGone'
  <1> SUFFICES ASSUME Answered("delete")'
               PROVE  IF intent.agent \in RecordAgents THEN Matching(portal) = {}
                      ELSE payload.id = NoId \/ portal[payload.id] = Absent
    BY DEF VerifiedDeleteIsGone, Reconcile
  <1>1. verdict' = "verified" /\ intent.kind = "delete" /\ ~missed'
    BY DEF Answered, Reconcile
  <1>2. PICK ans \in AnswersOf(portal, payload.id) :
           verdict' = ReconcileDispatch(intent, payload, ans) /\ missed' = (ans.ok # "ok")
    BY <1>1, Expected
  <1>3. /\ ans.ok = "ok" /\ ans.hits \in Rankings(Matching(portal))
        /\ ans.item = (IF payload.id = NoId THEN Absent ELSE portal[payload.id])
    <2>1. portal \in Portals /\ payload.id \in Ids \cup {NoId}
      BY DEF Inv, Known, Payloads
    <2>2. /\ ans.hits \in Rankings(Matching(portal))
          /\ ans.item = (IF payload.id = NoId THEN Absent ELSE portal[payload.id])
      BY <1>2, <2>1, Answer
    <2>3. ans.ok \in {"ok", "error", "raise"}
      BY <1>2, <2>1, Answer
    <2> QED BY <1>1, <1>2, <2>2, <2>3
  <1>4. CASE intent.agent \in RecordAgents
    <2>1. RecordReconcile(intent, payload, ans) = "verified"
      BY <1>1, <1>2, <1>4, RecordHandlers
    <2>2. Hits(ans) = <<>>
      BY <1>1, <1>3, <2>1 DEF RecordReconcile, Verdict
    <2>3. ans.hits = <<>>
      BY <1>3, <2>2 DEF Hits
    <2> QED BY <1>3, <1>4, <2>3, RankedHits, MatchingIds
  <1>5. CASE intent.agent \notin RecordAgents
    <2>1. intent.agent \in SpecialistAgents
      BY <1>5 DEF Inv, Known, Reconcile, Intents, Agents
    <2>2. SpecialistReconcile(intent, payload, ans) = "verified"
      BY <1>1, <1>2, <2>1, SpecialistHandlers
    <2>3. ASSUME NEW kinds, PresenceReconcile(intent, payload, ans, kinds) = "verified"
          PROVE  ~Found(ans)
      BY <1>1, <1>3, <2>3 DEF PresenceReconcile, Verdict
    <2>4. ~Found(ans)
      BY <1>1, <2>1, <2>2, <2>3 DEF SpecialistAgents, SpecialistReconcile, AssociationsReconcile,
         CommerceReconcile, DataReconcile, DealSplitsReconcile, EngagementsReconcile, FormsReconcile,
         HygieneReconcile, ListsReconcile, PipelinesReconcile, PropertiesReconcile, RawApiReconcile,
         SequencesReconcile, ServiceReconcile, UsersReconcile, WorkflowsReconcile
    <2> QED BY <1>3, <1>5, <2>4 DEF Found
  <1> QED BY <1>4, <1>5

LEMMA VerdictOfUpdate ==
  ASSUME Inv, Reconcile
  PROVE  VerifiedUpdateTook'
  <1> DEFINE S == Matching(portal)
             H == {x \in S : portal[x].val = payload.val}
  <1> SUFFICES ASSUME Answered("update")', intent.agent \in RecordAgents, Telling(payload.val)
               PROVE  H # {} /\ (H = S \/ Cardinality(H) >= CompareLimit)
    BY DEF VerifiedUpdateTook, Reconcile
  <1>1. verdict' = "verified" /\ intent.kind = "update" /\ ~missed'
    BY DEF Answered, Reconcile
  <1>2. PICK ans \in AnswersOf(portal, payload.id) :
           verdict' = ReconcileDispatch(intent, payload, ans) /\ missed' = (ans.ok # "ok")
    BY <1>1, Expected
  <1>3. ans.ok = "ok" /\ ans.hits \in Rankings(S) /\ ans.now = portal
    <2>1. portal \in Portals /\ payload.id \in Ids \cup {NoId}
      BY DEF Inv, Known, Payloads
    <2>2. ans.ok \in {"ok", "error", "raise"} /\ ans.hits \in Rankings(S) /\ ans.now = portal
      BY <1>2, <2>1, Answer
    <2> QED BY <1>1, <1>2, <2>2
  <1>4. RecordReconcile(intent, payload, ans) = "verified"
    BY <1>1, <1>2, RecordHandlers
  <1>5. payload.val # NoVal /\ \A w \in Vals : Returned(w) = payload.val => w = payload.val
    BY DEF Telling
  <1>6. /\ ans.hits # <<>>
        /\ \A y \in Compared(ans.hits) : Returned(portal[y].val) = payload.val
    <2>1. Hits(ans) = ans.hits
      BY <1>3 DEF Hits
    <2>2. RecordReconcile(intent, payload, ans)
            = Verdict(/\ ans.hits # <<>>
                      /\ \A y \in Compared(ans.hits) : Returned(portal[y].val) = payload.val)
      BY <1>1, <1>3, <1>4, <1>5, <2>1 DEF RecordReconcile
    <2> QED BY <1>4, <2>2 DEF Verdict
  <1>7. Compared(ans.hits) \subseteq S
    <2>1. Len(ans.hits) \in Nat /\ \A k \in 1..Len(ans.hits) : ans.hits[k] \in S
      BY <1>3, RankedHits, MatchingIds
    <2>2. \A k \in 1..(IF Len(ans.hits) < CompareLimit THEN Len(ans.hits) ELSE CompareLimit) :
            ans.hits[k] \in S
      BY <2>1, HandlerAssumption
    <2> QED BY <2>2 DEF Compared
  <1>8. \A y \in S : portal[y].val \in Vals
    BY HandlerAssumption DEF Inv, Known, Portals, Matching, Present
  <1>9. Compared(ans.hits) \subseteq H
    BY <1>5, <1>6, <1>7, <1>8
  <1> QED BY <1>3, <1>6, <1>9, ComparedHits, MatchingIds

\* For any portal, any other users and any lost answers, a delete that is called verified
\* on an answer has nothing left (the *_reconcile_* handlers of agents/).
THEOREM VerifiedDeletesAreGone == Spec => []VerifiedDeleteIsGone
  <1>1. Init => VerifiedDeleteIsGone
    BY DEF Init, VerifiedDeleteIsGone, Answered
  <1>2. Inv /\ VerifiedDeleteIsGone /\ [Next]_vars => VerifiedDeleteIsGone'
    BY AfterVerdict, VerdictOfDelete DEF VerifiedDeleteIsGone, Answered, vars
  <1> QED BY <1>1, <1>2, InitInv, NextInv, PTL DEF Spec

\* And an update of records that is called verified on an answer is in a record the text
\* finds, and in the one it wrote unless as many others hold it as are compared, if the
\* value comes back from nothing else (the *_reconcile_* handlers of agents/).
THEOREM VerifiedUpdatesTook == Spec => []VerifiedUpdateTook
  <1>1. Init => VerifiedUpdateTook
    BY DEF Init, VerifiedUpdateTook, Answered
  <1>2. Inv /\ VerifiedUpdateTook /\ [Next]_vars => VerifiedUpdateTook'
    BY AfterVerdict, VerdictOfUpdate DEF VerifiedUpdateTook, Answered, vars
  <1> QED BY <1>1, <1>2, InitInv, NextInv, PTL DEF Spec

\* Undisturbed, with an answer and a single hit, the reconciliation of an update that was
\* applied raises an alarm exactly for the values its search does not return as they were
\* sent (courses.py:254-281 and its copies).
THEOREM FalseAlarmsAreHidden == Spec => FalseAlarmIffHidden
  <1>1. ASSUME Inv, Reconcile, edits = 0, ~missed', intent.kind = "update", intent.named,
               intent.agent \in RecordAgents, Cardinality(Matching(portal)) = 1,
               payload.val # NoVal => portal[outcome.call.id].val = payload.val
        PROVE  verdict' = "discrepancy" <=> Hidden(payload.val)
    <2>1. PICK ans \in AnswersOf(portal, payload.id) :
             verdict' = ReconcileDispatch(intent, payload, ans) /\ missed' = (ans.ok # "ok")
      BY <1>1, Expected
    <2>2. ans.ok = "ok" /\ ans.hits \in Rankings(Matching(portal)) /\ ans.now = portal
      <3>1. portal \in Portals /\ payload.id \in Ids \cup {NoId}
        BY <1>1 DEF Inv, Known, Payloads
      <3>2. ans.ok \in {"ok", "error", "raise"} /\ ans.hits \in Rankings(Matching(portal))
            /\ ans.now = portal
        BY <2>1, <3>1, Answer
      <3> QED BY <1>1, <2>1, <3>2
    <2>3. verdict' = RecordReconcile(intent, payload, ans)
      BY <1>1, <2>1, RecordHandlers
    <2>4. outcome.call.id \in Matching(portal)
      BY <1>1 DEF Inv, Aimed, Reconcile
    <2>5. Matching(portal) = {outcome.call.id}
      <3>1. IsFiniteSet(Matching(portal))
        BY HandlerAssumption, MatchingIds, FS_Subset
      <3>2. \E x : Matching(portal) = {x}
        BY <1>1, <3>1, FS_Singleton
      <3> QED BY <2>4, <3>2
    <2>6. ans.hits # <<>> /\ Compared(ans.hits) = {outcome.call.id}
      <3>1. PICK S \in SUBSET Ids : S = Matching(portal)
        BY MatchingIds
      <3>2. /\ Len(ans.hits) \in Nat /\ \A k \in 1..Len(ans.hits) : ans.hits[k] \in S
            /\ ans.hits # <<>> /\ Len(ans.hits) # 0
        <4>1. PICK q \in Rankings(S) : q = ans.hits
          BY <2>2, <3>1
        <4>2. S # {}
          BY <2>5, <3>1
        <4>3. /\ Len(q) \in Nat /\ \A k \in 1..Len(q) : q[k] \in S
              /\ q # <<>> /\ Len(q) # 0
          BY <4>2, RankedHits
        <4> QED BY <4>1, <4>3
      <3>3. \A k \in 1..Len(ans.hits) : ans.hits[k] = outcome.call.id
        BY <2>5, <3>1, <3>2
      <3>4. /\ 1 \in 1..(IF Len(ans.hits) < CompareLimit THEN Len(ans.hits) ELSE CompareLimit)
            /\ 1..(IF Len(ans.hits) < CompareLimit THEN Len(ans.hits) ELSE CompareLimit)
                 \subseteq 1..Len(ans.hits)
        BY <3>2, HandlerAssumption
      <3> QED BY <3>2, <3>3, <3>4 DEF Compared
    <2>7. Hits(ans) = ans.hits
      BY <2>2 DEF Hits
    <2>8. verdict' = Verdict(\/ payload.val = NoVal
                             \/ Returned(portal[outcome.call.id].val) = payload.val)
      <3>1. verdict' = Verdict(/\ ans.hits # <<>>
                               /\ \/ payload.val = NoVal
                                  \/ \A y \in Compared(ans.hits) :
                                       Returned(portal[y].val) = payload.val)
        BY <1>1, <2>2, <2>3, <2>7 DEF RecordReconcile
      <3> QED BY <2>6, <3>1 DEF Verdict
    <2>9. CASE payload.val = NoVal
      BY <2>8, <2>9 DEF Verdict, Hidden
    <2>10. CASE payload.val # NoVal
      BY <1>1, <2>8, <2>10 DEF Verdict, Hidden
    <2> QED BY <2>9, <2>10
  <1> QED BY <1>1, InitInv, NextInv, PTL DEF Spec, FalseAlarmIffHidden

\* The update of a workflow overwrites nothing it has not read, whoever edits between
\* the fetch and the PUT (workflows.py:217).
THEOREM WorkflowEditsStay == Spec => WorkflowEditsKept
  <1>1. ASSUME Inv, Next, step = "write", intent.agent = "workflows", intent.kind = "update",
               portal' # portal, edits' = edits
        PROVE  portal[outcome.call.id] = outcome.call.seen
    <2>1. ~Edit
      BY <1>1 DEF Edit, Inv, Known
    <2>2. WriteApplied
      BY <1>1, <2>1 DEF Next, BuildPreview, Execute, WriteRefused, WriteRejected, Writing, Reconcile
    <2>3. Accepts(outcome.call)
      BY <2>2 DEF WriteApplied, Writing
    <2> QED BY <1>1, <2>3 DEF Accepts, Inv, Conditional
  <1> QED BY <1>1, InitInv, NextInv, PTL DEF Spec, WorkflowEditsKept
=============================================================================
