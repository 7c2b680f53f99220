-------------------------- MODULE SpecialistAgents --------------------------
(***************************************************************************)
(* The agents of agents/ with handlers of their own: configuration things    *)
(* read and written by id, engagements, forms, deal splits, bulk hygiene,     *)
(* imports, refunds, associations, workflows and the raw API.                 *)
(***************************************************************************)
EXTENDS AgentHandlers

\* The preview most of them share: a listing, a proposed creation, or a message.
ListingPreview(i, ans, proposed) ==
  IF i.kind \in Reads
    THEN IF ans.ok # "ok" THEN PreviewFailed
         ELSE Preview(Cardinality(ans.all), ans.all, Empty)
  ELSE IF i.kind = "create" THEN Preview(1, {}, proposed)
  ELSE Message(i)

\* A write that names its thing by id, and an error when the payload has no id.
ById(op, p) == IF p.id = NoId THEN ExecuteError ELSE Executes(Call(op, p.id, p.val))

\* The reconciliation most of them share: it asks whether the thing is there, so that an
\* update is verified whatever it wrote and a failed read verifies a delete.
PresenceReconcile(i, e, ans, kinds) ==
  IF e.id = NoId \/ i.kind \notin kinds THEN "unknown"
  ELSE IF ans.ok = "raise" THEN "raised"
  ELSE Verdict(IF i.kind = "delete" THEN ~Found(ans) ELSE Found(ans))

\* properties.py: an update compares the property with the expected values.
PropertiesPreview(i, ans) == IF i.named THEN ListingPreview(i, ans, Empty) ELSE Message(i)
PropertiesExecute(i, p, ans) ==
  IF ~i.named THEN Executed
  ELSE CASE i.kind \in Reads -> ExecuteRead(ans)
         [] i.kind = "create" -> Executes(Call("create", NoId, p.val))
         [] i.kind \in {"update", "delete"} -> ById(i.kind, p)
         [] OTHER -> Executed
PropertiesReconcile(i, e, ans) ==
  IF ~i.named THEN "unknown"
  ELSE IF i.kind = "update" /\ e.id # NoId /\ ans.ok # "raise"
    THEN Verdict(Found(ans) /\ e.val \in {NoVal, ans.item.val})
  ELSE PresenceReconcile(i, e, ans, {"create", "update", "delete"})

\* pipelines.py: a delete is not written and reports success.
PipelinesPreview(i, ans) == ListingPreview(i, ans, Empty)
PipelinesExecute(i, p, ans) ==
  CASE i.kind \in Reads -> ExecuteRead(ans)
    [] i.kind = "create" -> Executes(Call("create", NoId, p.val))
    [] i.kind = "update" -> ById("update", p)
    [] OTHER -> Executed
PipelinesReconcile(i, e, ans) == PresenceReconcile(i, e, ans, {"create", "update", "delete"})

\* users.py: the email of a new user is the text of the request.
UsersPreview(i, ans) == ListingPreview(i, ans, [Empty EXCEPT !.val = i.wants])
UsersExecute(i, p, ans) ==
  CASE i.kind \in Reads -> ExecuteRead(ans)
    [] i.kind = "create" -> Executes(Call("create", NoId, p.val))
    [] i.kind \in {"update", "delete"} -> ById(i.kind, p)
    [] OTHER -> Executed
UsersReconcile(i, e, ans) == PresenceReconcile(i, e, ans, {"create", "update", "delete"})

\* lists.py: as pipelines, the name of a new list being the text of the request.
ListsPreview(i, ans) == ListingPreview(i, ans, [Empty EXCEPT !.val = i.wants])
ListsExecute(i, p, ans) ==
  CASE i.kind \in Reads -> ExecuteRead(ans)
    [] i.kind = "create" -> Executes(Call("create", NoId, p.val))
    [] i.kind = "update" -> ById("update", p)
    [] OTHER -> Executed
ListsReconcile(i, e, ans) == PresenceReconcile(i, e, ans, {"create", "update", "delete"})

\* engagements.py: one creation per engagement type, a note when the payload names none;
\* nothing else is written.
EngagementsPreview(i, ans) == ListingPreview(i, ans, Empty)
EngagementsExecute(i, p, ans) ==
  CASE i.kind \in Reads -> ExecuteRead(ans)
    [] i.kind = "create" /\ p.val \in KnownTypes \cup {NoVal} ->
         Executes(Call("create", NoId, p.val))
    [] i.kind = "create" /\ p.val \notin KnownTypes \cup {NoVal} -> ExecuteError
    [] OTHER -> Executed
EngagementsReconcile(i, e, ans) == PresenceReconcile(i, e, ans, {"create"})

\* forms.py: a creation is looked for by name in a listing; updates are refused, deletes
\* report success unwritten.
FormsPreview(i, ans) == ListingPreview(i, ans, [Empty EXCEPT !.val = i.wants])
FormsExecute(i, p, ans) ==
  CASE i.kind \in Reads -> ExecuteRead(ans)
    [] i.kind = "create" -> Executes(Call("create", NoId, p.val))
    [] i.kind = "update" -> ExecuteError
    [] OTHER -> Executed
FormsReconcile(i, e, ans) ==
  IF i.kind # "create" THEN PresenceReconcile(i, e, ans, {"delete"})
  ELSE IF e.val = NoVal THEN "unknown"
  ELSE IF ans.ok = "raise" THEN "raised"
  ELSE Verdict(ans.ok = "ok" /\ e.val \in ans.vals)

\* hygiene.py: a read previews the duplicates, an update the segment it names none of;
\* an update writes the records of the payload, a merge needs both records.
Duplicates(portal) ==
  {x \in Present(portal) : \E y \in Present(portal) \ {x} : portal[y].val = portal[x].val}
HygienePreview(i, ans) ==
  IF i.kind \notin Reads \cup {"update"} THEN Message(i)
  ELSE IF ans.ok # "ok" THEN PreviewFailed
  ELSE LET shown == IF i.kind = "update" THEN ans.all ELSE Duplicates(ans.now)
       IN  Preview(Cardinality(shown), shown, Empty)
HygieneExecute(i, p, ans) ==
  CASE i.kind \in Reads -> ExecuteRead(ans)
    [] i.kind = "update" /\ p.id # NoId -> Executes(Call("update", p.id, p.val))
    [] i.kind = "merge" /\ NoId \in {p.id, p.other} -> ExecuteError
    [] i.kind = "merge" /\ NoId \notin {p.id, p.other} ->
         Executes([NoCall EXCEPT !.op = "merge", !.id = p.id, !.other = p.other])
    [] OTHER -> Executed
HygieneReconcile(i, e, ans) == "unknown"

\* service.py: only a ticket pipeline is created.
ServicePreview(i, ans) == ListingPreview(i, ans, Empty)
ServiceExecute(i, p, ans) ==
  CASE i.kind \in Reads -> ExecuteRead(ans)
    [] i.kind = "create" /\ p.val \in KnownTypes \cup {NoVal} ->
         Executes(Call("create", NoId, p.val))
    [] OTHER -> Executed
ServiceReconcile(i, e, ans) == PresenceReconcile(i, e, ans, {"create", "delete"})

\* deal_splits.py: the only preview that does not catch what its tool raises; it
\* reads the splits of no deal.  Creates and updates are one upsert, sent even when the
\* payload has no inputs.
DealSplitsPreview(i, ans) ==
  IF i.kind \notin Reads THEN Message(i)
  ELSE CASE ans.ok = "ok" -> Preview(0, {}, Empty)
         [] ans.ok = "error" -> PreviewFailed
         [] ans.ok = "raise" -> PreviewRaised
DealSplitsExecute(i, p, ans) ==
  CASE i.kind \in Reads -> ExecuteRead(ans)
    [] i.kind \in {"create", "update"} -> Executes(Call("update", p.id, p.val))
    [] OTHER -> Executed
DealSplitsReconcile(i, e, ans) ==
  IF i.kind \notin {"create", "update"} \/ e.id = NoId THEN "unknown"
  ELSE IF ans.ok = "raise" THEN "raised"
  ELSE Verdict(Found(ans) /\ e.val = ans.item.val)

\* data.py: a read needs an import named in the text.
DataPreview(i, ans) ==
  IF i.kind \in Reads
    THEN IF ~i.named THEN Preview(0, {}, Empty)
         ELSE IF ans.ok # "ok" THEN PreviewFailed ELSE Preview(1, {}, Empty)
  ELSE IF i.kind = "create" THEN Preview(1, {}, [Empty EXCEPT !.val = i.wants])
  ELSE Message(i)
DataExecute(i, p, ans) ==
  CASE i.kind \in Reads /\ ~i.named -> ExecuteError
    [] i.kind \in Reads /\ i.named -> ExecuteRead(ans)
    [] i.kind = "create" -> Executes(Call("create", NoId, p.val))
    [] OTHER -> Executed
DataReconcile(i, e, ans) == PresenceReconcile(i, e, ans, {"create"})

\* commerce.py: payments are listed, refunds created.
CommercePreview(i, ans) == ListingPreview(i, ans, [Empty EXCEPT !.val = i.wants])
CommerceExecute(i, p, ans) ==
  CASE i.kind \in Reads -> ExecuteRead(ans)
    [] i.kind = "create" -> Executes(Call("create", NoId, p.val))
    [] OTHER -> Executed
CommerceReconcile(i, e, ans) == PresenceReconcile(i, e, ans, {"create"})

\* sequences.py: no handler calls HubSpot.
SequencesPreview(i, ans) == IF i.kind \in Reads THEN Preview(1, {}, Empty) ELSE Message(i)
SequencesExecute(i, p, ans) == Executed
SequencesReconcile(i, e, ans) == "unknown"

\* associations.py: a search reads a sample record and its associations, and is the one
\* execution that reports an error of its reads; links are written as the payload says.
AssociationsPreview(i, ans) == Message(i)
AssociationsExecute(i, p, ans) ==
  CASE i.kind \in {"create", "delete"} -> Executes(Call("link", p.id, p.val))
    [] i.kind = "search" /\ i.named /\ ans.ok # "ok" -> ExecuteError
    [] OTHER -> Executed
AssociationsReconcile(i, e, ans) == "unknown"

\* analytics.py has a preview only.
AnalyticsPreview(i, ans) ==
  IF i.kind \in Reads
    THEN IF ans.ok # "ok" THEN PreviewFailed ELSE Preview(1, {}, Empty)
  ELSE Message(i)

\* raw_api.py: whatever the payload says, if it names a path.
RawApiPreview(i, ans) == Message(i)
RawApiExecute(i, p, ans) == ById("update", p)
RawApiReconcile(i, e, ans) == "unknown"

(* workflows.py: an update fetches the workflow, lays the caller's edits over it and    *)
(* PUTs the whole under the revision it read.  A create proposes what the text asks for, *)
(* through a blueprint it names or by hand; a delete reports success unwritten.          *)
WorkflowsPreviewCreate(i) == Preview(1, {}, [Empty EXCEPT !.val = i.wants])
WorkflowsPreview(i, ans) ==
  IF i.kind \in Reads
    THEN IF ans.ok # "ok" THEN PreviewFailed
         ELSE Preview(Cardinality(ans.all), ans.all, Empty)
  ELSE IF i.kind = "create" THEN WorkflowsPreviewCreate(i)
  ELSE Message(i)
\* Mutant: the update is sent without the revision.
WorkflowsExecuteBlind(i, p, ans) ==
  IF i.kind = "update" THEN ById("update", p) ELSE Executed
WorkflowsExecute(i, p, ans) ==
  CASE i.kind \in Reads -> ExecuteRead(ans)
    [] i.kind = "create" -> Executes(Call("create", NoId, p.val))
    [] i.kind = "update" ->
         IF p.id = NoId THEN ExecuteError
         ELSE IF ans.ok = "raise" THEN Raised
         ELSE IF ~Found(ans) THEN ExecuteError
         ELSE Executes([Call("put", p.id, p.val) EXCEPT !.seen = ans.item])
    [] OTHER -> Executed
WorkflowsReconcile(i, e, ans) == PresenceReconcile(i, e, ans, {"create", "update", "delete"})

\* Seven agents only preview, with an impact of zero and no read.
AccountInfoPreview(i, ans) == Preview(0, {}, Empty)
AuditLogsPreview(i, ans) == Preview(0, {}, Empty)
EmailEventsPreview(i, ans) == Preview(0, {}, Empty)
ForecastsPreview(i, ans) == Preview(0, {}, Empty)
ObjectLibraryPreview(i, ans) == Preview(0, {}, Empty)
SchedulerPreview(i, ans) == Preview(0, {}, Empty)
SecurityHistoryPreview(i, ans) == Preview(0, {}, Empty)

SpecialistPreview(i, ans) ==
  CASE i.agent = "associations" -> AssociationsPreview(i, ans)
    [] i.agent = "commerce" -> CommercePreview(i, ans)
    [] i.agent = "data" -> DataPreview(i, ans)
    [] i.agent = "deal_splits" -> DealSplitsPreview(i, ans)
    [] i.agent = "engagements" -> EngagementsPreview(i, ans)
    [] i.agent = "forms" -> FormsPreview(i, ans)
    [] i.agent = "hygiene" -> HygienePreview(i, ans)
    [] i.agent = "lists" -> ListsPreview(i, ans)
    [] i.agent = "pipelines" -> PipelinesPreview(i, ans)
    [] i.agent = "properties" -> PropertiesPreview(i, ans)
    [] i.agent = "raw_api" -> RawApiPreview(i, ans)
    [] i.agent = "sequences" -> SequencesPreview(i, ans)
    [] i.agent = "service" -> ServicePreview(i, ans)
    [] i.agent = "users" -> UsersPreview(i, ans)
    [] i.agent = "workflows" -> WorkflowsPreview(i, ans)
    [] i.agent = "account_info" -> AccountInfoPreview(i, ans)
    [] i.agent = "analytics" -> AnalyticsPreview(i, ans)
    [] i.agent = "audit_logs" -> AuditLogsPreview(i, ans)
    [] i.agent = "email_events" -> EmailEventsPreview(i, ans)
    [] i.agent = "forecasts" -> ForecastsPreview(i, ans)
    [] i.agent = "object_library" -> ObjectLibraryPreview(i, ans)
    [] i.agent = "scheduler" -> SchedulerPreview(i, ans)
    [] i.agent = "security_history" -> SecurityHistoryPreview(i, ans)

SpecialistExecute(i, p, ans) ==
  CASE i.agent = "associations" -> AssociationsExecute(i, p, ans)
    [] i.agent = "commerce" -> CommerceExecute(i, p, ans)
    [] i.agent = "data" -> DataExecute(i, p, ans)
    [] i.agent = "deal_splits" -> DealSplitsExecute(i, p, ans)
    [] i.agent = "engagements" -> EngagementsExecute(i, p, ans)
    [] i.agent = "forms" -> FormsExecute(i, p, ans)
    [] i.agent = "hygiene" -> HygieneExecute(i, p, ans)
    [] i.agent = "lists" -> ListsExecute(i, p, ans)
    [] i.agent = "pipelines" -> PipelinesExecute(i, p, ans)
    [] i.agent = "properties" -> PropertiesExecute(i, p, ans)
    [] i.agent = "raw_api" -> RawApiExecute(i, p, ans)
    [] i.agent = "sequences" -> SequencesExecute(i, p, ans)
    [] i.agent = "service" -> ServiceExecute(i, p, ans)
    [] i.agent = "users" -> UsersExecute(i, p, ans)
    [] i.agent = "workflows" -> WorkflowsExecute(i, p, ans)

SpecialistReconcile(i, e, ans) ==
  CASE i.agent = "associations" -> AssociationsReconcile(i, e, ans)
    [] i.agent = "commerce" -> CommerceReconcile(i, e, ans)
    [] i.agent = "data" -> DataReconcile(i, e, ans)
    [] i.agent = "deal_splits" -> DealSplitsReconcile(i, e, ans)
    [] i.agent = "engagements" -> EngagementsReconcile(i, e, ans)
    [] i.agent = "forms" -> FormsReconcile(i, e, ans)
    [] i.agent = "hygiene" -> HygieneReconcile(i, e, ans)
    [] i.agent = "lists" -> ListsReconcile(i, e, ans)
    [] i.agent = "pipelines" -> PipelinesReconcile(i, e, ans)
    [] i.agent = "properties" -> PropertiesReconcile(i, e, ans)
    [] i.agent = "raw_api" -> RawApiReconcile(i, e, ans)
    [] i.agent = "sequences" -> SequencesReconcile(i, e, ans)
    [] i.agent = "service" -> ServiceReconcile(i, e, ans)
    [] i.agent = "users" -> UsersReconcile(i, e, ans)
    [] i.agent = "workflows" -> WorkflowsReconcile(i, e, ans)

SpecialistAgents ==
  {"associations", "commerce", "data", "deal_splits", "engagements", "forms", "hygiene", "lists", "pipelines", "properties", "raw_api", "sequences", "service", "users", "workflows"}
PreviewOnlyAgents ==
  {"account_info", "analytics", "audit_logs", "email_events", "forecasts", "object_library", "scheduler", "security_history"}
=============================================================================
