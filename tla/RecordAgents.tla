---------------------------- MODULE RecordAgents ----------------------------
(***************************************************************************)
(* The agents of agents/ that manage one record type through the five       *)
(* object tools.  Their files repeat the same three handlers; the first      *)
(* three operators are those handlers, and the rest of the module says, file *)
(* by file, which of the variants it holds.  Below the guard on the target    *)
(* the default object type of a file is never used.                          *)
(***************************************************************************)
EXTENDS AgentHandlers

\* Mutant: the comparison starts after the first hit.
ComparedButFirst(hits) ==
  {hits[k] : k \in 2..(IF Len(hits) < CompareLimit THEN Len(hits) ELSE CompareLimit)}

Compared(hits) == {hits[k] : k \in 1..(IF Len(hits) < CompareLimit THEN Len(hits) ELSE CompareLimit)}
Hits(ans) == IF ans.ok = "error" THEN <<>> ELSE ans.hits

(* A search, an update and a delete show the records the text finds; a create shows *)
(* a message and an empty record to fill in.                                          *)
RecordPreview(i, ans) ==
  IF ~i.named THEN Message(i)
  ELSE IF i.kind \in {"search", "update", "delete"}
    THEN IF ans.ok # "ok" THEN PreviewFailed
         ELSE Preview(Len(ans.hits), {ans.hits[k] : k \in DOMAIN ans.hits}, Empty)
  ELSE IF i.kind = "create" THEN Preview(1, {}, Empty)
  ELSE Message(i)

(* An update and a delete search again and act on the first hit, whatever the         *)
(* preview showed; an error of that search is an empty result.  Without a target, and *)
(* for any other kind, nothing is done and success is reported.                        *)
RecordExecute(i, p, ans) ==
  IF ~i.named \/ i.kind \notin {"search", "create", "update", "delete"} THEN Executed
  ELSE IF i.kind = "create" THEN Executes(Call("create", NoId, p.val))
  ELSE IF i.kind = "search" THEN ExecuteRead(ans)
  ELSE IF ans.ok = "raise" THEN Raised
  ELSE IF Hits(ans) = <<>> THEN ExecuteError
  ELSE Executes(Call(i.kind, Hits(ans)[1], p.val))

\* Mutant: one hit that is left passes for none.
RecordReconcileOneLeft(i, e, ans) ==
  IF ~i.named \/ i.kind \notin {"create", "update", "delete"} THEN "unknown"
  ELSE IF ans.ok = "raise" THEN "raised"
  ELSE Verdict(Len(Hits(ans)) <= 1)

\* Mutant: a property the payload does not hold is compared too.
RecordReconcileAllKeys(i, e, ans) ==
  IF ~i.named \/ i.kind \notin {"create", "update", "delete"} THEN "unknown"
  ELSE IF ans.ok = "raise" THEN "raised"
  ELSE Verdict(Hits(ans) # <<>> /\ \A x \in Compared(Hits(ans)) : Returned(ans.now[x].val) = e.val)

(* A create is verified by any hit, an update when the first hits come back with every  *)
(* expected value, a delete when nothing is found.                                       *)
RecordReconcile(i, e, ans) ==
  IF ~i.named \/ i.kind \notin {"create", "update", "delete"} THEN "unknown"
  ELSE IF ans.ok = "raise" THEN "raised"
  ELSE CASE i.kind = "create" -> Verdict(Hits(ans) # <<>>)
         [] i.kind = "update" ->
              Verdict(/\ Hits(ans) # <<>>
                      /\ e.val = NoVal \/ \A x \in Compared(Hits(ans)) : Returned(ans.now[x].val) = e.val)
         [] i.kind = "delete" -> Verdict(Hits(ans) = <<>>)

AppointmentsPreview(i, ans) == RecordPreview(i, ans)
AppointmentsExecute(i, p, ans) == RecordExecute(i, p, ans)
AppointmentsReconcile(i, e, ans) == RecordReconcile(i, e, ans)

CartsPreview(i, ans) == RecordPreview(i, ans)
CartsExecute(i, p, ans) == RecordExecute(i, p, ans)
CartsReconcile(i, e, ans) == RecordReconcile(i, e, ans)

CommunicationsPreview(i, ans) == RecordPreview(i, ans)
CommunicationsExecute(i, p, ans) == RecordExecute(i, p, ans)
CommunicationsReconcile(i, e, ans) == RecordReconcile(i, e, ans)

CoursesPreview(i, ans) == RecordPreview(i, ans)
CoursesExecute(i, p, ans) == RecordExecute(i, p, ans)
CoursesReconcile(i, e, ans) == RecordReconcile(i, e, ans)

CustomObjectsPreview(i, ans) == RecordPreview(i, ans)
CustomObjectsExecute(i, p, ans) == RecordExecute(i, p, ans)
CustomObjectsReconcile(i, e, ans) == RecordReconcile(i, e, ans)

DiscountsPreview(i, ans) == RecordPreview(i, ans)
DiscountsExecute(i, p, ans) == RecordExecute(i, p, ans)
DiscountsReconcile(i, e, ans) == RecordReconcile(i, e, ans)

FeesPreview(i, ans) == RecordPreview(i, ans)
FeesExecute(i, p, ans) == RecordExecute(i, p, ans)
FeesReconcile(i, e, ans) == RecordReconcile(i, e, ans)

GoalsPreview(i, ans) == RecordPreview(i, ans)
GoalsExecute(i, p, ans) == RecordExecute(i, p, ans)
GoalsReconcile(i, e, ans) == RecordReconcile(i, e, ans)

InvoicesPreview(i, ans) == RecordPreview(i, ans)
InvoicesExecute(i, p, ans) == RecordExecute(i, p, ans)
InvoicesReconcile(i, e, ans) == RecordReconcile(i, e, ans)

LeadsPreview(i, ans) == RecordPreview(i, ans)
LeadsExecute(i, p, ans) == RecordExecute(i, p, ans)
LeadsReconcile(i, e, ans) == RecordReconcile(i, e, ans)

ListingsPreview(i, ans) == RecordPreview(i, ans)
ListingsExecute(i, p, ans) == RecordExecute(i, p, ans)
ListingsReconcile(i, e, ans) == RecordReconcile(i, e, ans)

ObjectsPreview(i, ans) == RecordPreview(i, ans)
ObjectsExecute(i, p, ans) == RecordExecute(i, p, ans)
ObjectsReconcile(i, e, ans) == RecordReconcile(i, e, ans)

OrdersPreview(i, ans) == RecordPreview(i, ans)
OrdersExecute(i, p, ans) == RecordExecute(i, p, ans)
OrdersReconcile(i, e, ans) == RecordReconcile(i, e, ans)

ProjectsPreview(i, ans) == RecordPreview(i, ans)
ProjectsExecute(i, p, ans) == RecordExecute(i, p, ans)
ProjectsReconcile(i, e, ans) == RecordReconcile(i, e, ans)

QuotesPreview(i, ans) == RecordPreview(i, ans)
QuotesExecute(i, p, ans) == RecordExecute(i, p, ans)
QuotesReconcile(i, e, ans) == RecordReconcile(i, e, ans)

ServicesPreview(i, ans) == RecordPreview(i, ans)
ServicesExecute(i, p, ans) == RecordExecute(i, p, ans)
ServicesReconcile(i, e, ans) == RecordReconcile(i, e, ans)

SubscriptionsPreview(i, ans) == RecordPreview(i, ans)
SubscriptionsExecute(i, p, ans) == RecordExecute(i, p, ans)
SubscriptionsReconcile(i, e, ans) == RecordReconcile(i, e, ans)

TaxesPreview(i, ans) == RecordPreview(i, ans)
TaxesExecute(i, p, ans) == RecordExecute(i, p, ans)
TaxesReconcile(i, e, ans) == RecordReconcile(i, e, ans)

TimelineEventsPreview(i, ans) == RecordPreview(i, ans)
TimelineEventsExecute(i, p, ans) == RecordExecute(i, p, ans)
TimelineEventsReconcile(i, e, ans) == RecordReconcile(i, e, ans)

RecordAgentPreview(i, ans) ==
  CASE i.agent = "appointments" -> AppointmentsPreview(i, ans)
    [] i.agent = "carts" -> CartsPreview(i, ans)
    [] i.agent = "communications" -> CommunicationsPreview(i, ans)
    [] i.agent = "courses" -> CoursesPreview(i, ans)
    [] i.agent = "custom_objects" -> CustomObjectsPreview(i, ans)
    [] i.agent = "discounts" -> DiscountsPreview(i, ans)
    [] i.agent = "fees" -> FeesPreview(i, ans)
    [] i.agent = "goals" -> GoalsPreview(i, ans)
    [] i.agent = "invoices" -> InvoicesPreview(i, ans)
    [] i.agent = "leads" -> LeadsPreview(i, ans)
    [] i.agent = "listings" -> ListingsPreview(i, ans)
    [] i.agent = "objects" -> ObjectsPreview(i, ans)
    [] i.agent = "orders" -> OrdersPreview(i, ans)
    [] i.agent = "projects" -> ProjectsPreview(i, ans)
    [] i.agent = "quotes" -> QuotesPreview(i, ans)
    [] i.agent = "services" -> ServicesPreview(i, ans)
    [] i.agent = "subscriptions" -> SubscriptionsPreview(i, ans)
    [] i.agent = "taxes" -> TaxesPreview(i, ans)
    [] i.agent = "timeline_events" -> TimelineEventsPreview(i, ans)

RecordAgentExecute(i, p, ans) ==
  CASE i.agent = "appointments" -> AppointmentsExecute(i, p, ans)
    [] i.agent = "carts" -> CartsExecute(i, p, ans)
    [] i.agent = "communications" -> CommunicationsExecute(i, p, ans)
    [] i.agent = "courses" -> CoursesExecute(i, p, ans)
    [] i.agent = "custom_objects" -> CustomObjectsExecute(i, p, ans)
    [] i.agent = "discounts" -> DiscountsExecute(i, p, ans)
    [] i.agent = "fees" -> FeesExecute(i, p, ans)
    [] i.agent = "goals" -> GoalsExecute(i, p, ans)
    [] i.agent = "invoices" -> InvoicesExecute(i, p, ans)
    [] i.agent = "leads" -> LeadsExecute(i, p, ans)
    [] i.agent = "listings" -> ListingsExecute(i, p, ans)
    [] i.agent = "objects" -> ObjectsExecute(i, p, ans)
    [] i.agent = "orders" -> OrdersExecute(i, p, ans)
    [] i.agent = "projects" -> ProjectsExecute(i, p, ans)
    [] i.agent = "quotes" -> QuotesExecute(i, p, ans)
    [] i.agent = "services" -> ServicesExecute(i, p, ans)
    [] i.agent = "subscriptions" -> SubscriptionsExecute(i, p, ans)
    [] i.agent = "taxes" -> TaxesExecute(i, p, ans)
    [] i.agent = "timeline_events" -> TimelineEventsExecute(i, p, ans)

RecordAgentReconcile(i, e, ans) ==
  CASE i.agent = "appointments" -> AppointmentsReconcile(i, e, ans)
    [] i.agent = "carts" -> CartsReconcile(i, e, ans)
    [] i.agent = "communications" -> CommunicationsReconcile(i, e, ans)
    [] i.agent = "courses" -> CoursesReconcile(i, e, ans)
    [] i.agent = "custom_objects" -> CustomObjectsReconcile(i, e, ans)
    [] i.agent = "discounts" -> DiscountsReconcile(i, e, ans)
    [] i.agent = "fees" -> FeesReconcile(i, e, ans)
    [] i.agent = "goals" -> GoalsReconcile(i, e, ans)
    [] i.agent = "invoices" -> InvoicesReconcile(i, e, ans)
    [] i.agent = "leads" -> LeadsReconcile(i, e, ans)
    [] i.agent = "listings" -> ListingsReconcile(i, e, ans)
    [] i.agent = "objects" -> ObjectsReconcile(i, e, ans)
    [] i.agent = "orders" -> OrdersReconcile(i, e, ans)
    [] i.agent = "projects" -> ProjectsReconcile(i, e, ans)
    [] i.agent = "quotes" -> QuotesReconcile(i, e, ans)
    [] i.agent = "services" -> ServicesReconcile(i, e, ans)
    [] i.agent = "subscriptions" -> SubscriptionsReconcile(i, e, ans)
    [] i.agent = "taxes" -> TaxesReconcile(i, e, ans)
    [] i.agent = "timeline_events" -> TimelineEventsReconcile(i, e, ans)

RecordAgents == {"appointments", "carts", "communications", "courses", "custom_objects", "discounts", "fees", "goals", "invoices", "leads", "listings", "objects", "orders", "projects", "quotes", "services", "subscriptions", "taxes", "timeline_events"}
=============================================================================
