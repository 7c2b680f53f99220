---------------------------- MODULE LookupProofs ----------------------------
(***************************************************************************)
(* Theorems about IntentLookups: what a call on one record may answer, and   *)
(* what an approved meeting may write, while others edit the portal.          *)
(***************************************************************************)
EXTENDS IntentLookups, FiniteSetTheorems, SequenceTheorems, WellFoundedInduction, TLAPS

-----------------------------------------------------------------------------
(* The parts of a call, and where each step leaves them *)

Fields == {"pc", "job", "dirty", "cut", "answer", "deal", "read", "person", "company", "contact", "people",
           "others", "deals", "touched", "named", "chosen", "dealContacts", "staff", "ops", "checked"}
IsCall == DOMAIN call = Fields

\* The call goes on with the same job over the same portal.
GoesOn ==
  /\ DOMAIN call' = Fields /\ crm' = crm /\ call'.dirty = call.dirty
  /\ call.cut => call'.cut
  /\ At("people") \/ call'.ops = call.ops

LEMMA StartGoes ==
  ASSUME IsCall, Start
  PROVE  /\ GoesOn /\ call'.pc \in {"done", "find", "findText", "byId", "names", "search"}
         /\ call'.pc = "done" => call'.answer.status = "error"
         /\ call'.job \in Jobs
         /\ call'.pc = "find" <=> call'.pc \in {"find", "findText"} /\ HasKey(TypeAsked(call'.job), call'.job.q)
         /\ call'.pc = "names" => InputsAreSound(call'.job) /\ call'.job.kind # "deal"
         /\ call'.pc = "byId" /\ call'.job.kind # "deal" => InputsAreSound(call'.job)
  <1> HIDE DEF InputsAreSound
  <1> USE DEF IsCall, Fields, GoesOn, Becomes
  <1>1. PICK job \in Jobs :
          IF job.kind = "meeting" /\ ~InputsAreSound(job)
          THEN call' = [call EXCEPT !.job = job, !.pc = "done", !.answer = Failed]
          ELSE call' = [call EXCEPT !.job = job,
                       !.pc = CASE job.kind = "record" -> FindAt(job)
                                [] job.kind \in {"deal", "meeting"} ->
                                     IF job.q.digits # None THEN "byId"
                                     ELSE IF job.kind = "deal" THEN FindAt(job) ELSE "names"
                                [] job.kind = "person" -> "search"]
    BY DEF Start
  <1>2. crm' = crm
    BY DEF Start
  <1>3. job.kind \in {"record", "deal", "person", "meeting"}
    BY LookupsAssumption
  <1>4. CASE job.kind = "meeting" /\ ~InputsAreSound(job)
    <2>1. call' = [call EXCEPT !.job = job, !.pc = "done", !.answer = Failed]
      BY <1>1, <1>4
    <2>2. /\ DOMAIN call' = Fields /\ call'.pc = "done" /\ call'.answer = Failed /\ call'.job = job
          /\ call'.dirty = call.dirty /\ call'.cut = call.cut /\ call'.ops = call.ops
      BY <2>1
    <2>3. call'.answer.status = "error"
      BY <2>2 DEF Failed
    <2> QED BY <1>2, <2>2, <2>3
  <1>5. CASE ~(job.kind = "meeting" /\ ~InputsAreSound(job))
    <2>1. FindAt(job) \in {"find", "findText"} /\ (FindAt(job) = "find" <=> HasKey(TypeAsked(job), job.q))
      BY DEF FindAt
    <2> QED BY <1>1, <1>2, <1>3, <1>5, <2>1
  <1> QED BY <1>4, <1>5

LEMMA ByIdGoes ==
  ASSUME IsCall, ById
  PROVE  /\ GoesOn /\ call'.job = Job
         /\ \/ call'.pc = "details" /\ Job.kind = "deal" /\ call'.deal = Job.q.digits /\ ~ByText
            \/ call'.pc = "company" /\ Job.kind # "deal" /\ call'.deal = Job.q.digits /\ ~ByText
            \/ call'.pc \in {"find", "findText"} /\ call'.pc = FindAt(Job) /\ Job.kind = "deal"
            \/ call'.pc = "names" /\ Job.kind # "deal"
  BY DEF FindAt, ById, IsCall, Fields, GoesOn, Becomes, Goes, Take, Job, ByText

\* The answer of a search from the scores of what it read, or the details of the deal it found.
LEMMA FoundIs ==
  ASSUME IsCall, NEW scores, NEW hits, NEW n,
         call' = Found(Reads(hits, n), scores), crm' = crm
  PROVE  /\ GoesOn /\ call'.job = Job /\ (~call'.cut => ~(Cardinality(hits) > n))
         /\ \/ /\ call'.pc = "details" /\ Decide(scores) = "match" /\ Job.kind = "deal"
               /\ call'.deal = CHOOSE i \in Leaders(scores) : TRUE
            \/ call'.pc = "done" /\ call'.answer = [status |-> Decide(scores), top |-> Leaders(scores)]
  BY DEF Found, Reads, Take, IsCall, Fields, GoesOn, Job

LEMMA DecideIs ==
  ASSUME NEW scores
  PROVE  Decide(scores) \in {"not_found", "match", "ambiguous"}
  BY DEF Decide

LEMMA DetailsGoes ==
  ASSUME IsCall, Details
  PROVE  /\ GoesOn /\ call'.job = Job /\ call'.pc = "done"
         /\ call'.answer.status = "found" /\ call'.answer.deal = call.deal
  BY DEF Details, Ends, Becomes, IsCall, Fields, GoesOn, Job

LEMMA SearchPersonGoes ==
  ASSUME IsCall, SearchPerson
  PROVE  /\ GoesOn /\ call'.job = Job
         /\ \/ call'.pc = "done" /\ call'.answer.status = "not_found"
            \/ call'.pc = "searchText" /\ At("search") /\ NamedSo = {}
            \/ /\ call'.pc = "companiesOf"
               /\ \E hits \in {NamedSo, TextHits("contact")} :
                    /\ hits = NamedSo \/ At("searchText")
                    /\ ~call'.cut => ~(Cardinality(hits) > MaxNameMatches)
                    /\ call'.people = Of("contact", Lowest(hits, MaxNameMatches))
  <1> HIDE DEF NamedSo, TextHits, Of, Lowest
  <1>1. ASSUME NEW hits, Meet(hits)
        PROVE  /\ GoesOn /\ call'.job = Job /\ call'.pc = "companiesOf"
               /\ ~call'.cut => ~(Cardinality(hits) > MaxNameMatches)
               /\ call'.people = Of("contact", Lowest(hits, MaxNameMatches))
    BY <1>1 DEF Meet, Reads, Becomes, IsCall, Fields, GoesOn, Job
  <1>2. ASSUME NEW pc, Goes(pc)
        PROVE  GoesOn /\ call'.job = Job /\ call'.pc = pc
    BY <1>2 DEF Goes, Becomes, IsCall, Fields, GoesOn, Job
  <1>3. ASSUME NEW answer, Ends(answer)
        PROVE  GoesOn /\ call'.job = Job /\ call'.pc = "done" /\ call'.answer = answer
    BY <1>3 DEF Ends, Becomes, IsCall, Fields, GoesOn, Job, At
  <1> HIDE DEF Meet, Goes, Ends, GoesOn
  <1>4. CASE Meet(NamedSo)
    BY <1>1, <1>4
  <1>5. CASE At("searchText") /\ Meet(TextHits("contact"))
    BY <1>1, <1>5
  <1>6. CASE At("search") /\ NamedSo = {} /\ Goes("searchText")
    BY <1>2, <1>6
  <1>7. CASE Ends([status |-> "not_found"])
    BY <1>3, <1>7
  <1> QED BY <1>4, <1>5, <1>6, <1>7 DEF SearchPerson

LEMMA CompaniesOfGoes ==
  ASSUME IsCall, CompaniesOf
  PROVE  LET linked == [i \in DOMAIN call.people |-> Linked(i, DOMAIN crm.company)]
             chosen == Persons(Job.q, Job.company, call.people,
                               [i \in DOMAIN linked |-> {crm.company[k] : k \in linked[i]}])
         IN /\ GoesOn /\ call'.job = Job /\ call'.cut = call.cut
            /\ \/ call'.pc = "done" /\ call'.answer.status \in {"not_found", "ambiguous"}
               \/ /\ call'.pc = "links" /\ call'.person \in chosen
                  /\ chosen # {} /\ ~(Cardinality(chosen) > 1)
  <1> DEFINE linked == [i \in DOMAIN call.people |-> Linked(i, DOMAIN crm.company)]
             chosen == Persons(Job.q, Job.company, call.people,
                               [i \in DOMAIN linked |-> {crm.company[k] : k \in linked[i]}])
  <1>1. \/ chosen = {} /\ Ends([status |-> "not_found"])
        \/ chosen # {} /\ Cardinality(chosen) > 1 /\ Ends([status |-> "ambiguous"])
        \/ /\ chosen # {} /\ ~(Cardinality(chosen) > 1)
           /\ \E c \in chosen : \E k \in OwnCompany(call.people[c], linked[c]) :
                Becomes([call EXCEPT !.pc = "links", !.person = c, !.company = k])
    BY DEF CompaniesOf
  <1> HIDE DEF chosen, linked
  <1>2. /\ GoesOn /\ call'.job = Job /\ call'.cut = call.cut
        /\ \/ call'.pc = "done" /\ call'.answer.status \in {"not_found", "ambiguous"}
           \/ /\ call'.pc = "links" /\ call'.person \in chosen
              /\ chosen # {} /\ ~(Cardinality(chosen) > 1)
    <2>1. CASE \E status \in {"not_found", "ambiguous"} : Ends([status |-> status])
      <3>1. PICK status \in {"not_found", "ambiguous"} : Ends([status |-> status])
        BY <2>1
      <3>2. /\ GoesOn /\ call'.job = Job /\ call'.cut = call.cut
            /\ call'.pc = "done" /\ call'.answer = [status |-> status]
        BY <3>1 DEF Ends, Becomes, IsCall, Fields, GoesOn, Job, At
      <3> QED BY <3>2
    <2>2. ASSUME chosen # {}, ~(Cardinality(chosen) > 1), NEW c \in chosen, NEW k,
                 Becomes([call EXCEPT !.pc = "links", !.person = c, !.company = k])
          PROVE  /\ GoesOn /\ call'.job = Job /\ call'.cut = call.cut
                 /\ call'.pc = "links" /\ call'.person = c
      BY <2>2 DEF Becomes, IsCall, Fields, GoesOn, Job, At
    <2> QED BY <1>1, <2>1, <2>2
  <1> QED BY <1>2 DEF chosen, linked

LEMMA BriefGoes ==
  ASSUME IsCall
  PROVE  /\ BriefLinks => /\ GoesOn /\ call'.job = Job /\ call'.cut = call.cut
                          /\ call'.pc = "deals" /\ call'.person = call.person
         /\ BriefDeals => /\ GoesOn /\ call'.job = Job /\ call'.cut = call.cut
                          /\ call'.pc = "engagements" /\ call'.person = call.person
         /\ Engagements => /\ GoesOn /\ call'.job = Job /\ call'.cut = call.cut /\ call'.pc = "never"
                           /\ call'.person = call.person /\ call'.touched = crm.engaged
         /\ NeverContacted =>
              /\ GoesOn /\ call'.job = Job /\ call'.cut = call.cut
              /\ call'.pc = "done" /\ call'.answer.status = "ok" /\ call'.answer.person = call.person
              /\ call'.answer.never = {c \in call.others \cap DOMAIN crm.contact : Untouched(c)}
  <1> USE DEF Becomes, Ends, IsCall, Fields, GoesOn, Job, At
  <1>1. ASSUME BriefLinks
        PROVE  /\ GoesOn /\ call'.job = Job /\ call'.cut = call.cut
               /\ call'.pc = "deals" /\ call'.person = call.person
    BY <1>1 DEF BriefLinks
  <1>2. ASSUME BriefDeals
        PROVE  /\ GoesOn /\ call'.job = Job /\ call'.cut = call.cut
               /\ call'.pc = "engagements" /\ call'.person = call.person
    BY <1>2 DEF BriefDeals
  <1>3. ASSUME Engagements
        PROVE  /\ GoesOn /\ call'.job = Job /\ call'.cut = call.cut /\ call'.pc = "never"
               /\ call'.person = call.person /\ call'.touched = crm.engaged
    BY <1>3 DEF Engagements
  <1>4. ASSUME NeverContacted
        PROVE  /\ GoesOn /\ call'.job = Job /\ call'.cut = call.cut
               /\ call'.pc = "done" /\ call'.answer.status = "ok" /\ call'.answer.person = call.person
               /\ call'.answer.never = {c \in call.others \cap DOMAIN crm.contact : Untouched(c)}
    <2> HIDE DEF Untouched
    <2> QED BY <1>4 DEF NeverContacted
  <1> QED BY <1>1, <1>2, <1>3, <1>4

LEMMA NamesGoes ==
  ASSUME IsCall, Names
  PROVE  LET hits == {d \in OpenDeals : TextMatches("deal", Job.q, crm.deal[d])} IN
         /\ GoesOn /\ call'.job = Job /\ (~call'.cut => ~(Cardinality(hits) > DealFetch))
         /\ \E page \in PageOf(hits, DealFetch) :
              LET exact == {d \in page : crm.deal[d].name = Job.q.text} IN
              \/ /\ Cardinality(exact) = 1 /\ call'.pc \in {"details", "company"}
                 /\ call'.pc = "details" <=> Job.kind = "deal"
                 /\ call'.deal = CHOOSE d \in exact : TRUE
              \/ /\ Cardinality(exact) # 1 /\ call'.pc = "companies"
                 /\ call'.named = Of("deal", IF exact # {} THEN exact ELSE page)
  <1> DEFINE hits == {d \in OpenDeals : TextMatches("deal", Job.q, crm.deal[d])}
             Exact(page) == {d \in page : crm.deal[d].name = Job.q.text}
  <1>1. PICK page \in PageOf(hits, DealFetch) :
          IF Cardinality(Exact(page)) = 1
          THEN Becomes(Take(Reads(hits, DealFetch), CHOOSE d \in Exact(page) : TRUE))
          ELSE Becomes([Reads(hits, DealFetch) EXCEPT !.pc = "companies",
                          !.named = Of("deal", IF Exact(page) # {} THEN Exact(page) ELSE page)])
    BY DEF Names
  <1> HIDE DEF hits, Exact
  <1>2. /\ GoesOn /\ call'.job = Job /\ (~call'.cut => ~(Cardinality(hits) > DealFetch))
        /\ \/ /\ Cardinality(Exact(page)) = 1 /\ call'.pc \in {"details", "company"}
              /\ call'.pc = "details" <=> Job.kind = "deal"
              /\ call'.deal = CHOOSE d \in Exact(page) : TRUE
           \/ /\ Cardinality(Exact(page)) # 1 /\ call'.pc = "companies"
              /\ call'.named = Of("deal", IF Exact(page) # {} THEN Exact(page) ELSE page)
    <2> DEFINE exact == Exact(page)
               one == CHOOSE d \in exact : TRUE
               rest == Of("deal", IF exact # {} THEN exact ELSE page)
    <2>1. \/ Cardinality(exact) = 1 /\ call' = Take(Reads(hits, DealFetch), one) /\ crm' = crm
          \/ Cardinality(exact) # 1 /\ call' = [Reads(hits, DealFetch) EXCEPT !.pc = "companies", !.named = rest] /\ crm' = crm
      BY <1>1 DEF Becomes
    <2> HIDE DEF exact, one, rest
    <2>2. /\ GoesOn /\ call'.job = Job /\ (~call'.cut => ~(Cardinality(hits) > DealFetch))
          /\ \/ /\ Cardinality(exact) = 1 /\ call'.pc \in {"details", "company"}
                /\ call'.pc = "details" <=> Job.kind = "deal"
                /\ call'.deal = one
             \/ /\ Cardinality(exact) # 1 /\ call'.pc = "companies"
                /\ call'.named = rest
      <3>1. ~At("people")
        BY DEF Names, At
      <3>2. CASE Cardinality(exact) = 1 /\ call' = Take(Reads(hits, DealFetch), one) /\ crm' = crm
        BY <3>1, <3>2 DEF Take, Reads, IsCall, Fields, GoesOn, Job
      <3>3. CASE Cardinality(exact) # 1 /\ crm' = crm
                 /\ call' = [Reads(hits, DealFetch) EXCEPT !.pc = "companies", !.named = rest]
        BY <3>1, <3>3 DEF Reads, IsCall, Fields, GoesOn, Job
      <3> QED BY <2>1, <3>2, <3>3
    <2> QED BY <2>2 DEF exact, one, rest
  <1> QED BY <1>2 DEF hits, Exact

LEMMA CompaniesGoes ==
  ASSUME IsCall, Companies
  PROVE  /\ GoesOn /\ call'.job = Job /\ call'.pc = "open" /\ call'.named = call.named
         /\ ~call'.cut => ~(Cardinality(TextHits("company")) > CompanyFetch)
         /\ \E page \in PageOf(TextHits("company"), CompanyFetch) :
              /\ call'.chosen \in ChosenCompanies(Job.q.text, Of("company", page))
              /\ ~call'.cut => ~SomeDropped(Job.q.text, Of("company", page), call'.chosen)
  <1> DEFINE hits == TextHits("company")
             dropped(page, chosen) == SomeDropped(Job.q.text, Of("company", page), chosen)
             Left(page, chosen) == [Reads(hits, CompanyFetch) EXCEPT !.pc = "open", !.chosen = chosen,
                                      !.cut = @ \/ dropped(page, chosen)]
  <1>0. PICK page \in PageOf(hits, CompanyFetch) : \E chosen \in ChosenCompanies(Job.q.text, Of("company", page)) :
          call' = Left(page, chosen)
    BY DEF Companies, Becomes
  <1>1. PICK chosen \in ChosenCompanies(Job.q.text, Of("company", page)) : call' = Left(page, chosen)
    BY <1>0
  <1>2. crm' = crm /\ ~At("people")
    BY DEF Companies, Becomes, At
  <1> HIDE DEF hits, dropped
  <1>3. /\ GoesOn /\ call'.job = Job /\ call'.pc = "open" /\ call'.named = call.named
        /\ (~call'.cut => ~(Cardinality(hits) > CompanyFetch)) /\ call'.chosen = chosen
        /\ ~call'.cut => ~dropped(page, chosen)
    BY <1>1, <1>2 DEF Reads, IsCall, Fields, GoesOn, Job
  <1> QED BY <1>1, <1>3 DEF hits, dropped

LEMMA OnlyDealGoes ==
  ASSUME IsCall, OnlyDeal
  PROVE  LET candidates == DOMAIN call.named \cup (UNION {Linked(k, OpenDeals) : k \in call.chosen}) IN
         /\ GoesOn /\ call'.job = Job /\ call'.cut = call.cut
         /\ \/ call'.pc = "done" /\ call'.answer.status \in {"error", "ambiguous"}
            \/ /\ call'.pc = "company" /\ call'.deal \in candidates
               /\ candidates # {} /\ ~(Cardinality(candidates) > 1)
  <1> DEFINE candidates == DOMAIN call.named \cup (UNION {Linked(k, OpenDeals) : k \in call.chosen})
  <1>1. \/ candidates = {} /\ Ends(Failed)
        \/ Cardinality(candidates) > 1 /\ Ends([status |-> "ambiguous"])
        \/ /\ candidates # {} /\ ~(Cardinality(candidates) > 1)
           /\ \E d \in candidates, r \in {call.named[dd] : dd \in DOMAIN call.named} \cup {crm.deal[dd] : dd \in candidates} :
                Becomes([call EXCEPT !.pc = "company", !.deal = d, !.read = r])
    BY DEF OnlyDeal
  <1> HIDE DEF candidates
  <1>2. CASE candidates = {} /\ Ends(Failed)
    <2>1. /\ GoesOn /\ call'.job = Job /\ call'.cut = call.cut
          /\ call'.pc = "done" /\ call'.answer = Failed
      BY <1>2 DEF Ends, Becomes, IsCall, Fields, GoesOn, Job, At
    <2> QED BY <2>1 DEF Failed
  <1>3. CASE Cardinality(candidates) > 1 /\ Ends([status |-> "ambiguous"])
    <2>1. /\ GoesOn /\ call'.job = Job /\ call'.cut = call.cut
          /\ call'.pc = "done" /\ call'.answer = [status |-> "ambiguous"]
      BY <1>3 DEF Ends, Becomes, IsCall, Fields, GoesOn, Job, At
    <2> QED BY <2>1
  <1>4. CASE /\ candidates # {} /\ ~(Cardinality(candidates) > 1)
             /\ \E d \in candidates, r \in {call.named[dd] : dd \in DOMAIN call.named} \cup {crm.deal[dd] : dd \in candidates} :
                  Becomes([call EXCEPT !.pc = "company", !.deal = d, !.read = r])
    <2>1. PICK d \in candidates, r \in {call.named[dd] : dd \in DOMAIN call.named} \cup {crm.deal[dd] : dd \in candidates} :
                  Becomes([call EXCEPT !.pc = "company", !.deal = d, !.read = r])
      BY <1>4
    <2>2. /\ GoesOn /\ call'.job = Job /\ call'.cut = call.cut
          /\ call'.pc = "company" /\ call'.deal = d
      BY <2>1 DEF Becomes, IsCall, Fields, GoesOn, Job, At
    <2> QED BY <1>4, <2>2 DEF candidates
  <1> QED BY <1>1, <1>2, <1>3, <1>4

LEMMA ReadsGo ==
  ASSUME IsCall
  PROVE  /\ ReadCompany => /\ GoesOn /\ call'.job = Job /\ call'.cut = call.cut
                           /\ call'.pc = "contacts" /\ call'.deal = call.deal
         /\ ReadContacts => /\ GoesOn /\ call'.job = Job /\ call'.cut = call.cut
                            /\ call'.pc = "staff" /\ call'.deal = call.deal /\ call'.company = call.company
                            /\ call'.dealContacts = Linked(call.deal, DOMAIN crm.contact)
         /\ ReadStaff => /\ GoesOn /\ call'.job = Job /\ call'.cut = call.cut
                         /\ call'.pc = "people" /\ call'.deal = call.deal /\ call'.company = call.company
                         /\ call'.dealContacts = call.dealContacts /\ call'.ops = call.ops
                         /\ call'.staff = IF call.company = None \/ Job.people = <<>> THEN <<>>
                                          ELSE Of("contact", Linked(call.company, DOMAIN crm.contact))
         /\ ReadPerson =>
              /\ GoesOn /\ call'.job = Job /\ call'.cut = call.cut
              /\ call'.pc = "people" /\ call'.deal = call.deal /\ call'.company = call.company
              /\ call'.dealContacts = call.dealContacts /\ call'.staff = call.staff
              /\ Len(call.ops) < Len(Job.people)
              /\ \E who \in Existing(NextPerson, ByEmail(NextPerson), call.staff) :
                   call'.ops = Append(call.ops, ContactOp(NextPerson, who))
  <1> USE DEF Becomes, Ends, IsCall, Fields, GoesOn, Job, At
  <1>1. ASSUME ReadCompany
        PROVE  /\ GoesOn /\ call'.job = Job /\ call'.cut = call.cut
               /\ call'.pc = "contacts" /\ call'.deal = call.deal
    BY <1>1 DEF ReadCompany
  <1>2. ASSUME ReadContacts
        PROVE  /\ GoesOn /\ call'.job = Job /\ call'.cut = call.cut
               /\ call'.pc = "staff" /\ call'.deal = call.deal /\ call'.company = call.company
               /\ call'.dealContacts = Linked(call.deal, DOMAIN crm.contact)
    BY <1>2 DEF ReadContacts
  <1>3. ASSUME ReadStaff
        PROVE  /\ GoesOn /\ call'.job = Job /\ call'.cut = call.cut
               /\ call'.pc = "people" /\ call'.deal = call.deal /\ call'.company = call.company
               /\ call'.dealContacts = call.dealContacts /\ call'.ops = call.ops
               /\ call'.staff = IF call.company = None \/ Job.people = <<>> THEN <<>>
                                ELSE Of("contact", Linked(call.company, DOMAIN crm.contact))
    BY <1>3 DEF ReadStaff
  <1>4. ASSUME ReadPerson
        PROVE  /\ GoesOn /\ call'.job = Job /\ call'.cut = call.cut
               /\ call'.pc = "people" /\ call'.deal = call.deal /\ call'.company = call.company
               /\ call'.dealContacts = call.dealContacts /\ call'.staff = call.staff
               /\ Len(call.ops) < Len(Job.people)
               /\ \E who \in Existing(NextPerson, ByEmail(NextPerson), call.staff) :
                    call'.ops = Append(call.ops, ContactOp(NextPerson, who))
    <2>1. PICK who \in Existing(NextPerson, ByEmail(NextPerson), call.staff) :
            Becomes([call EXCEPT !.ops = Append(@, ContactOp(NextPerson, who))])
      BY <1>4 DEF ReadPerson
    <2>2. At("people") /\ Len(call.ops) < Len(Job.people)
      BY <1>4 DEF ReadPerson
    <2> DEFINE ops == Append(call.ops, ContactOp(NextPerson, who))
    <2>3. call' = [call EXCEPT !.ops = ops] /\ crm' = crm
      BY <2>1
    <2> HIDE DEF ops
    <2>4. /\ GoesOn /\ call'.job = Job /\ call'.cut = call.cut
          /\ call'.pc = "people" /\ call'.deal = call.deal /\ call'.company = call.company
          /\ call'.dealContacts = call.dealContacts /\ call'.staff = call.staff /\ call'.ops = ops
      BY <2>2, <2>3 DEF At
    <2> QED BY <2>2, <2>4 DEF ops
  <1> QED BY <1>1, <1>2, <1>3, <1>4

LEMMA ProposeGoes ==
  ASSUME IsCall, Propose
  PROVE  /\ GoesOn /\ call'.job = Job /\ call'.cut = call.cut /\ call'.read = call.read
         /\ call'.pc = "done" /\ call'.deal = call.deal /\ call'.company = call.company
         /\ call'.ops = call.ops /\ Len(call.ops) = Len(Job.people)
         /\ call'.answer.status = "preview" /\ call'.answer.deal = call.deal /\ call'.answer.ops = call.ops
         /\ LET fields == ChangedFields(call.read, Job, Home)
            IN call'.answer.update = [f \in fields |-> Job[f]] /\ call'.answer.original = Original(fields)
  <1> DEFINE fields == ChangedFields(call.read, Job, Home)
             update == [f \in fields |-> Job[f]]
             original == Original(fields)
             answer(owner) == [status |-> "preview", deal |-> call.deal, update |-> update, original |-> original,
                               company |-> call.company, contact |-> call.contact, owner |-> owner, ops |-> call.ops]
  <1>1. PICK owner : call' = [call EXCEPT !.pc = "done", !.answer = answer(owner)]
    BY DEF Propose, Ends, Becomes
  <1>2. crm' = crm /\ Len(call.ops) = Len(Job.people)
    BY DEF Propose, Ends, Becomes
  <1> HIDE DEF update, original
  <1>3. /\ GoesOn /\ call'.job = Job /\ call'.cut = call.cut /\ call'.read = call.read
        /\ call'.pc = "done" /\ call'.deal = call.deal /\ call'.company = call.company
        /\ call'.ops = call.ops /\ call'.answer = answer(owner)
    <2> HIDE DEF answer
    <2> QED BY <1>1, <1>2 DEF IsCall, Fields, GoesOn, Job
  <1> QED BY <1>2, <1>3 DEF update, original

\* Where the steps of apply leave a call.
AppliesTo == {"checked", "pending", "applied"}
LEMMA ApplyGoes ==
  ASSUME IsCall, Apply
  PROVE  /\ DOMAIN call' = Fields /\ call'.pc \in AppliesTo
         /\ \A f \in Fields \ {"pc", "checked"} : call'[f] = call[f]
         /\ call'.pc # "applied" => crm' = crm
  BY DEF Apply, CheckDrift, Release, Write, Becomes, AppliesTo, IsCall, Fields

LEMMA EditGoes ==
  ASSUME IsCall, Edit
  PROVE  /\ DOMAIN call' = Fields /\ IsPortal(crm') /\ Dates(crm, crm')
         /\ \A f \in Fields \ {"dirty"} : call'[f] = call[f]
         /\ call.pc = "idle" \/ call'.dirty
  BY DEF Edit, IsCall, Fields

\* What a search makes of the scores of the records it read.
Answers(scores) ==
  \/ /\ call'.pc = "details" /\ Decide(scores) = "match" /\ Job.kind = "deal"
     /\ call'.deal = CHOOSE i \in Leaders(scores) : TRUE
  \/ call'.pc = "done" /\ call'.answer = [status |-> Decide(scores), top |-> Leaders(scores)]

LEMMA FindGoes ==
  ASSUME IsCall, Find
  PROVE  LET type == TypeAsked(Job) IN
         /\ GoesOn /\ call'.job = Job
         /\ \E page \in PageOf(KeyHits(type), CandidateFetch) :
              \/ page = {} /\ call'.pc = "findText"
              \/ /\ page # {} /\ (~call'.cut => ~(Cardinality(KeyHits(type)) > CandidateFetch))
                 /\ Answers(IF StrongKey(type, Job.q) THEN [i \in page |-> 100] ELSE Scored(type, page))
  <1> DEFINE type == TypeAsked(Job)
             hits == KeyHits(type)
             Of100(page) == IF StrongKey(type, Job.q) THEN [i \in page |-> 100] ELSE Scored(type, page)
  <1>1. PICK page \in PageOf(hits, CandidateFetch) :
          IF page = {} THEN Goes("findText") ELSE Becomes(Found(Reads(hits, CandidateFetch), Of100(page)))
    BY DEF Find
  <1> HIDE DEF type, hits, Of100
  <1>2. CASE page = {} /\ Goes("findText")
    <2>1. GoesOn /\ call'.job = Job /\ call'.pc = "findText"
      BY <1>2 DEF Goes, Becomes, IsCall, Fields, GoesOn, Job
    <2> QED BY <1>2, <2>1 DEF type, hits
  <1>3. CASE page # {} /\ Becomes(Found(Reads(hits, CandidateFetch), Of100(page)))
    <2> DEFINE scores == Of100(page)
    <2>1. call' = Found(Reads(hits, CandidateFetch), scores) /\ crm' = crm
      BY <1>3 DEF Becomes
    <2> HIDE DEF scores
    <2>2. GoesOn /\ call'.job = Job /\ (~call'.cut => ~(Cardinality(hits) > CandidateFetch)) /\ Answers(scores)
      BY <2>1, FoundIs DEF Answers
    <2> QED BY <1>3, <2>2 DEF scores, type, hits, Of100
  <1> QED BY <1>1, <1>2, <1>3

LEMMA FindTextGoes ==
  ASSUME IsCall, FindText
  PROVE  LET type == TypeAsked(Job) IN
         /\ GoesOn /\ call'.job = Job /\ (~call'.cut => ~(Cardinality(TextHits(type)) > CandidateFetch))
         /\ \E page \in PageOf(TextHits(type), CandidateFetch) : Answers(Scored(type, page))
  <1> DEFINE type == TypeAsked(Job)
             hits == TextHits(type)
  <1>1. PICK page \in PageOf(hits, CandidateFetch) : Becomes(Found(Reads(hits, CandidateFetch), Scored(type, page)))
    BY DEF FindText
  <1> DEFINE scores == Scored(type, page)
  <1>2. call' = Found(Reads(hits, CandidateFetch), scores) /\ crm' = crm
    BY <1>1 DEF Becomes
  <1> HIDE DEF type, hits, scores
  <1>3. GoesOn /\ call'.job = Job /\ (~call'.cut => ~(Cardinality(hits) > CandidateFetch)) /\ Answers(scores)
    BY <1>2, FoundIs DEF Answers
  <1> QED BY <1>3 DEF type, hits, scores

\* Which steps lead where.
Lands ==
  /\ call'.pc \in {"byId", "search"} => Start
  /\ call'.pc \in {"find", "names"} => Start \/ ById
  /\ call'.pc = "findText" => Start \/ ById \/ Find
  /\ call'.pc = "details" => ById \/ Find \/ FindText \/ Names
  /\ call'.pc \in {"searchText", "companiesOf"} => SearchPerson
  /\ call'.pc = "links" => CompaniesOf
  /\ call'.pc = "deals" => BriefLinks
  /\ call'.pc = "engagements" => BriefDeals
  /\ call'.pc = "never" => Engagements
  /\ call'.pc = "companies" => Names
  /\ call'.pc = "open" => Companies
  /\ call'.pc = "company" => ById \/ Names \/ OnlyDeal
  /\ call'.pc = "contacts" => ReadCompany
  /\ call'.pc = "staff" => ReadContacts
  /\ call'.pc = "people" => ReadStaff \/ ReadPerson
  /\ call'.pc = "done" /\ call'.answer.status = "preview" => Propose
  /\ call'.pc = "done" /\ call'.answer.status = "match" => Find \/ FindText
  /\ call'.pc = "done" /\ call'.answer.status = "found" => Details
  /\ call'.pc = "done" /\ call'.answer.status = "ok" => NeverContacted
  /\ call'.pc \notin {"idle", "checked", "pending"}

LEMMA StepIs ==
  ASSUME IsCall, Next
  PROVE  /\ IsCall'
         /\ \/ Edit
            \/ Apply /\ call'.pc \in AppliesTo
            \/ GoesOn /\ Lands /\ (Start \/ call'.job = Job)
  <1>1. ASSUME NEW scores, Answers(scores)
        PROVE  \/ call'.pc = "details"
               \/ call'.pc = "done" /\ call'.answer.status \in {"not_found", "match", "ambiguous"}
    BY <1>1, DecideIs DEF Answers
  <1>2. CASE Start
    BY <1>2, StartGoes DEF GoesOn, IsCall, Lands
  <1>3. CASE ById
    <2>1. GoesOn /\ call'.job = Job /\ call'.pc \in {"details", "company", "find", "findText", "names"}
      BY <1>3, ByIdGoes DEF FindAt
    <2> QED BY <1>3, <2>1 DEF Lands, GoesOn, IsCall
  <1>4. CASE Find
    <2>1. GoesOn /\ call'.job = Job /\ (call'.pc = "findText" \/ \E scores : Answers(scores))
      BY <1>4, FindGoes
    <2> QED BY <1>1, <1>4, <2>1 DEF Lands, GoesOn, IsCall
  <1>5. CASE FindText
    <2>1. GoesOn /\ call'.job = Job /\ \E scores : Answers(scores)
      BY <1>5, FindTextGoes
    <2> QED BY <1>1, <1>5, <2>1 DEF Lands, GoesOn, IsCall
  <1>6. CASE Details
    BY <1>6, DetailsGoes DEF Lands, GoesOn, IsCall
  <1>7. CASE SearchPerson
    <2>1. /\ GoesOn /\ call'.job = Job /\ call'.pc \in {"done", "searchText", "companiesOf"}
          /\ call'.pc = "done" => call'.answer.status = "not_found"
      BY <1>7, SearchPersonGoes
    <2> QED BY <1>7, <2>1 DEF Lands, GoesOn, IsCall
  <1>8. CASE CompaniesOf
    <2>1. /\ GoesOn /\ call'.job = Job /\ call'.pc \in {"done", "links"}
          /\ call'.pc = "done" => call'.answer.status \in {"not_found", "ambiguous"}
      BY <1>8, CompaniesOfGoes
    <2> QED BY <1>8, <2>1 DEF Lands, GoesOn, IsCall
  <1>9. CASE BriefLinks \/ BriefDeals \/ Engagements \/ NeverContacted
    BY <1>9, BriefGoes DEF Lands, GoesOn, IsCall
  <1>10. CASE Names
    <2>1. GoesOn /\ call'.job = Job /\ call'.pc \in {"details", "company", "companies"}
      BY <1>10, NamesGoes
    <2> QED BY <1>10, <2>1 DEF Lands, GoesOn, IsCall
  <1>11. CASE Companies
    <2>1. GoesOn /\ call'.job = Job /\ call'.pc = "open"
      BY <1>11, CompaniesGoes
    <2> QED BY <1>11, <2>1 DEF Lands, GoesOn, IsCall
  <1>12. CASE OnlyDeal
    <2>1. /\ GoesOn /\ call'.job = Job /\ call'.pc \in {"done", "company"}
          /\ call'.pc = "done" => call'.answer.status \in {"error", "ambiguous"}
      BY <1>12, OnlyDealGoes
    <2> QED BY <1>12, <2>1 DEF Lands, GoesOn, IsCall
  <1>13. CASE ReadCompany \/ ReadContacts \/ ReadStaff \/ ReadPerson
    <2>1. /\ GoesOn /\ call'.job = Job
          /\ \/ ReadCompany /\ call'.pc = "contacts"
             \/ ReadContacts /\ call'.pc = "staff"
             \/ (ReadStaff \/ ReadPerson) /\ call'.pc = "people"
      BY <1>13, ReadsGo
    <2> QED BY <2>1 DEF Lands, GoesOn, IsCall
  <1>14. CASE Propose
    <2>1. GoesOn /\ call'.job = Job /\ call'.pc = "done" /\ call'.answer.status = "preview"
      BY <1>14, ProposeGoes
    <2> QED BY <1>14, <2>1 DEF Lands, GoesOn, IsCall
  <1>15. CASE Apply
    BY <1>15, ApplyGoes DEF IsCall
  <1>16. CASE Edit
    BY <1>16, EditGoes DEF IsCall
  <1> QED BY <1>2, <1>3, <1>4, <1>5, <1>6, <1>7, <1>8, <1>9, <1>10, <1>11, <1>12, <1>13, <1>14, <1>15, <1>16 DEF Next

-----------------------------------------------------------------------------
(* An approved meeting overwrites only what was read *)

\* A preview shows what the deal was read to hold of all it would change, until it was applied.
Shown ==
  call.pc \in {"done", "checked", "pending"} /\ call.answer.status = "preview" =>
    call.answer.original = [f \in DOMAIN call.answer.update |-> call.read[f]]
\* And only a preview is applied.
Applying == call.pc \in {"checked", "pending"} => call.answer.status = "preview"
ShownInv == IsCall /\ Shown /\ Applying

LEMMA ShownInit == Init => ShownInv
  BY DEF Init, Idle, IsCall, Fields, ShownInv, Shown, Applying, At

LEMMA ShownStep ==
  ASSUME ShownInv, [Next]_vars
  PROVE  ShownInv'
  <1>1. CASE UNCHANGED vars
    BY <1>1 DEF ShownInv, Shown, Applying, IsCall, vars, At
  <1>2. CASE Edit
    <2>1. /\ DOMAIN call' = Fields /\ call'.pc = call.pc /\ call'.answer = call.answer /\ call'.read = call.read
      BY <1>2, EditGoes DEF Fields, ShownInv
    <2> QED BY <2>1 DEF ShownInv, Shown, Applying, IsCall, At
  <1>3. CASE Propose
    <2> DEFINE fields == ChangedFields(call.read, Job, Home)
    <2>1. /\ call'.read = call.read /\ GoesOn /\ call'.pc = "done"
          /\ call'.answer.update = [f \in fields |-> Job[f]] /\ call'.answer.original = Original(fields)
      BY <1>3, ProposeGoes DEF ShownInv
    <2>2. Original(fields) = [f \in fields |-> call.read[f]]
      BY DEF Original
    <2> HIDE DEF fields
    <2> QED BY <2>1, <2>2 DEF ShownInv, Shown, Applying, IsCall, GoesOn
  <1>4. CASE Apply
    <2>1. /\ DOMAIN call' = Fields /\ call'.pc \in AppliesTo
          /\ call'.answer = call.answer /\ call'.read = call.read
      BY <1>4, ApplyGoes DEF ShownInv, Fields
    <2>2. call.pc \in {"done", "checked", "pending"} /\ call.answer.status = "preview"
      BY <1>4 DEF Apply, CheckDrift, Release, Write, At, Preview, ShownInv, Applying
    <2> QED BY <2>1, <2>2 DEF ShownInv, Shown, Applying, IsCall
  <1>5. CASE IsCall' /\ GoesOn /\ Lands /\ ~Propose
    <2>1. ~(call'.pc = "done" /\ call'.answer.status = "preview") /\ call'.pc \notin {"checked", "pending"}
      BY <1>5 DEF Lands
    <2> QED BY <1>5, <2>1 DEF ShownInv, Shown, Applying
  <1> QED BY <1>1, <1>2, <1>3, <1>4, <1>5, StepIs DEF ShownInv

LEMMA ShownKeeps ==
  ASSUME ShownInv, Write, Preview.deal \in DOMAIN crm.deal, NEW f \in DOMAIN Preview.update
  PROVE  LET now == crm.deal[Preview.deal][f]
         IN crm'.deal[Preview.deal][f] # now => now = call.read[f] \/ now # call.checked[f]
  <1>1. CASE crm' = crm
    BY <1>1
  <1>2. CASE Writable
    <2>1. Preview.original = [g \in DOMAIN Preview.update |-> call.read[g]]
      BY DEF Write, At, ShownInv, Shown, Applying, Preview
    <2>2. call.checked[f] = call.read[f]
      BY <1>2, <2>1 DEF Writable, Checked
    <2> QED BY <2>2
  <1> QED BY <1>1, <1>2 DEF Write

\* An approved meeting overwrites only what the call read and the preview showed, and what was changed
\* after the check of apply (log_meeting original_values, changes.py:811-891): for any portals, edits
\* and failed applies, what somebody changed between the search of the deal and that check stays.
THEOREM MeetingsLoseNoEdit == Spec => NoLostEdit
  <1>1. ShownInv /\ [Next]_vars =>
          [Write /\ Preview.deal \in DOMAIN crm.deal => \A f \in DOMAIN Preview.update :
             LET now == crm.deal[Preview.deal][f]
             IN crm'.deal[Preview.deal][f] # now => now = call.read[f] \/ now # call.checked[f]]_vars
    BY ShownKeeps
  <1> QED BY ShownInit, ShownStep, <1>1, PTL DEF Spec, NoLostEdit

-----------------------------------------------------------------------------
(* Nobody is wrongly listed as never contacted *)

\* From the read of the engagements on, who has one was seen with it or has been dated since.
Dated == At("never") => \A c \in crm.engaged : c \in call.touched \/ crm.contact[c].contacted
DatedInv == IsCall /\ Dated

LEMMA DatedInit == Init => DatedInv
  BY DEF Init, Idle, IsCall, Fields, DatedInv, Dated, At

LEMMA DatedStep ==
  ASSUME DatedInv, [Next]_vars
  PROVE  DatedInv'
  <1>1. CASE UNCHANGED vars
    BY <1>1 DEF DatedInv, Dated, IsCall, vars, At
  <1>2. CASE Edit
    <2>1. DOMAIN call' = Fields /\ call'.pc = call.pc /\ call'.touched = call.touched /\ Dates(crm, crm')
      BY <1>2, EditGoes DEF Fields, DatedInv
    <2>2. ASSUME At("never"), NEW c \in crm'.engaged, c \notin call.touched
          PROVE  crm'.contact[c].contacted
      <3>1. c \in crm.engaged => crm.contact[c].contacted
        BY <2>2 DEF DatedInv, Dated
      <3> QED BY <2>1, <3>1 DEF Dates
    <2> QED BY <2>1, <2>2 DEF DatedInv, Dated, IsCall, At
  <1>3. CASE Engagements
    BY <1>3, BriefGoes DEF DatedInv, Dated, IsCall, GoesOn
  <1>4. CASE IsCall' /\ call'.pc # "never"
    BY <1>4 DEF DatedInv, Dated, At
  <1> QED BY <1>1, <1>2, <1>3, <1>4, StepIs DEF DatedInv, Lands, AppliesTo

LEMMA DatedKeeps ==
  ASSUME DatedInv, NeverContacted
  PROVE  call'.answer.never \cap crm.engaged = {}
  <1>1. call'.answer.never = {c \in call.others \cap DOMAIN crm.contact : Untouched(c)}
    BY BriefGoes DEF DatedInv
  <1>2. \A c \in crm.engaged : ~Untouched(c)
    BY DEF DatedInv, Dated, Untouched, NeverContacted
  <1> QED BY <1>1, <1>2

\* Nobody is listed as never contacted who had been when the list was made, a call logged while the
\* brief was being read included (account_brief.py _never_contacted).
THEOREM NeverContactedHolds == Spec => NeverContactedIsTrue
  <1>1. DatedInv /\ [Next]_vars => [NeverContacted => call'.answer.never \cap crm.engaged = {}]_vars
    BY DatedKeeps
  <1> QED BY DatedInit, DatedStep, <1>1, PTL DEF Spec, NeverContactedIsTrue

-----------------------------------------------------------------------------
(* What holds of every call *)

\* Only a meeting whose input is sound is looked into, and nobody is read before the people are.
MeetingIsSound ==
  \/ At("byId") /\ Job.kind # "deal"
  \/ call.pc \in {"names", "companies", "open", "company", "contacts", "staff", "people"}
  \/ At("done") /\ call.answer.status = "preview"
  => InputsAreSound(Job)
CallInv ==
  /\ IsCall /\ (~At("applied") => IsPortal(crm)) /\ (~At("idle") => Job \in Jobs)
  /\ MeetingIsSound /\ (At("names") => Job.kind # "deal")
  /\ call.pc \notin {"people", "done"} \cup AppliesTo => call.ops = <<>>

\* Where a call is when a step acts.
LEMMA Guards ==
  /\ Start => At("idle")
  /\ ById => At("byId")
  /\ Find => At("find")
  /\ FindText => At("findText")
  /\ Details => At("details")
  /\ SearchPerson => At("search") \/ At("searchText")
  /\ CompaniesOf => At("companiesOf")
  /\ BriefLinks => At("links")
  /\ BriefDeals => At("deals")
  /\ Engagements => At("engagements")
  /\ NeverContacted => At("never")
  /\ Names => At("names")
  /\ Companies => At("companies")
  /\ OnlyDeal => At("open")
  /\ ReadCompany => At("company")
  /\ ReadContacts => At("contacts")
  /\ ReadStaff => At("staff")
  /\ ReadPerson => At("people")
  /\ Propose => At("people")
  /\ Apply => At("done") \/ At("checked") \/ At("pending")
  BY DEF At, Start, ById, Find, FindText, Details, SearchPerson, CompaniesOf, BriefLinks, BriefDeals, Engagements,
         NeverContacted, Names, Companies, OnlyDeal, ReadCompany, ReadContacts, ReadStaff, ReadPerson, Propose,
         Apply, CheckDrift, Release, Write

\* Nothing but an edit follows an apply, and a call begins with its job.
LEMMA Rests ==
  ASSUME Next
  PROVE  /\ At("applied") => Edit
         /\ At("idle") => Start \/ Edit
         /\ At("done") \/ At("checked") \/ At("pending") => Apply \/ Edit
         /\ At("people") => ReadPerson \/ Propose \/ Edit
  BY Guards DEF Next, At

LEMMA CallInit == Init => CallInv
  BY LookupsAssumption DEF Init, Idle, IsCall, Fields, CallInv, MeetingIsSound, At

LEMMA CallStep ==
  ASSUME CallInv, [Next]_vars
  PROVE  CallInv'
  <1> USE DEF CallInv, At, Job
  <1> HIDE DEF InputsAreSound, IsPortal
  <1>1. CASE UNCHANGED vars
    BY <1>1 DEF MeetingIsSound, IsCall, vars
  <1>2. CASE Edit
    <2>1. /\ IsCall' /\ call'.pc = call.pc /\ call'.job = call.job /\ call'.answer = call.answer
          /\ call'.ops = call.ops /\ IsPortal(crm')
      BY <1>2, EditGoes DEF Fields, IsCall
    <2> QED BY <2>1 DEF MeetingIsSound, IsPortal
  <1>3. CASE IsCall' /\ Apply /\ call'.pc \in AppliesTo
    <2>1. call'.job = call.job /\ (call'.pc # "applied" => crm' = crm)
      BY <1>3, ApplyGoes DEF Fields
    <2>2. call.pc # "idle" /\ call.pc # "applied"
      BY <1>3, Guards
    <2> QED BY <1>3, <2>1, <2>2 DEF MeetingIsSound, AppliesTo
  <1>4. CASE Start
    <2>1. At("idle") /\ call.ops = <<>> /\ GoesOn
      BY <1>4, Guards, StartGoes DEF AppliesTo
    <2> QED BY <1>4, <2>1, StartGoes DEF MeetingIsSound, GoesOn, IsCall
  <1>5. CASE IsCall' /\ GoesOn /\ Lands /\ call'.job = Job /\ ~At("applied") /\ ~At("idle") /\ Next /\ ~Edit
    <2>1. IsPortal(crm') /\ call'.job \in Jobs
      BY <1>5 DEF GoesOn
    <2>2. call'.pc \in {"byId", "search"} => FALSE
      BY <1>5, Guards DEF Lands
    <2>3. call'.pc = "names" => InputsAreSound(Job) /\ Job.kind # "deal"
      BY <1>5, Guards, ByIdGoes DEF MeetingIsSound, Lands
    <2>4. call'.pc = "company" => InputsAreSound(Job)
      BY <1>5, Guards, ByIdGoes DEF MeetingIsSound, Lands
    <2>5. call'.pc \in {"companies", "open", "contacts", "staff", "people"} => InputsAreSound(Job)
      BY <1>5, Guards DEF MeetingIsSound, Lands
    <2>6. call'.pc = "done" /\ call'.answer.status = "preview" => InputsAreSound(Job)
      BY <1>5, Guards DEF MeetingIsSound, Lands
    <2>7. MeetingIsSound'
      BY <1>5, <2>2, <2>3, <2>4, <2>5, <2>6 DEF MeetingIsSound
    <2>8. call'.pc \notin {"people", "done"} \cup AppliesTo => call'.ops = <<>>
      <3>1. CASE call.pc \in {"people", "done"} \cup AppliesTo
        BY <1>5, <3>1, Rests, ReadsGo, ProposeGoes, ApplyGoes DEF AppliesTo
      <3>2. CASE call.pc \notin {"people", "done"} \cup AppliesTo
        BY <1>5, <3>2 DEF GoesOn
      <3> QED BY <1>5, <3>1, <3>2
    <2> QED BY <1>5, <2>1, <2>3, <2>7, <2>8
  <1> QED BY <1>1, <1>2, <1>3, <1>4, <1>5, StepIs, Rests

-----------------------------------------------------------------------------
(* An undisturbed meeting adds nothing twice *)

\* What a person met needs, given that person is not there, or is and is not linked.
OpFits(op, p) ==
  \/ op.op = "create" /\ op.person = p /\ ~IsThere(p)
  \/ op.op = "link" /\ Linked(op.person, op.to) = {}
OpsFit ==
  /\ \E S : call.ops \in Seq(S)
  /\ \A i \in 1..Len(call.ops) : \E op, p : op = call.ops[i] /\ p = Job.people[i] /\ OpFits(op, p)
StaffRead ==
  IF call.company = None \/ Job.people = <<>> THEN <<>> ELSE Of("contact", Linked(call.company, DOMAIN crm.contact))
MeetingRead ==
  ~call.dirty =>
    /\ call.pc \in {"staff", "people"} => call.dealContacts = Linked(call.deal, DOMAIN crm.contact)
    /\ At("people") => call.staff = StaffRead /\ OpsFit /\ Len(call.ops) <= Len(Job.people)
    /\ At("done") /\ call.answer.status = "preview" =>
         call.answer.ops = call.ops /\ OpsFit /\ Len(call.ops) = Len(Job.people)
TwiceInv == CallInv /\ MeetingRead

LEMMA OfIs ==
  ASSUME NEW type, NEW ids, ids \subseteq DOMAIN crm[type]
  PROVE  DOMAIN Of(type, ids) = ids /\ \A i \in ids : Of(type, ids)[i] = crm[type][i]
  <1>1. ids \cap DOMAIN crm[type] = ids
    OBVIOUS
  <1>2. Of(type, ids) = [i \in ids \cap DOMAIN crm[type] |-> crm[type][i]]
    BY DEF Of, Records
  <1> QED BY <1>1, <1>2

\* The people at the company of one name are as many in what was read as in the portal.
LEMMA NamesakesAre ==
  ASSUME IsPortal(crm), call.staff = StaffRead, Job.people # <<>>, NEW p, 
         NEW there, there = {c \in Linked(call.company, DOMAIN crm.contact) : FullName(crm.contact[c]) = p.first \o p.last}
  PROVE  SameName(p, call.staff) = there
  <1> HIDE DEF FullName
  <1>1. CASE call.company = None
    <2>1. None \notin Nat
      BY LookupsAssumption
    <2>2. \A c : <<None, c>> \notin crm.links /\ <<c, None>> \notin crm.links
      BY <2>1 DEF IsPortal
    <2>3. Linked(call.company, DOMAIN crm.contact) = {}
      BY <1>1, <2>2 DEF Linked
    <2>4. DOMAIN call.staff = {}
      <3>1. call.staff = <<>>
        BY <1>1 DEF StaffRead
      <3> QED BY <3>1
    <2> QED BY <2>3, <2>4 DEF SameName
  <1>2. CASE call.company # None
    <2> DEFINE at == Linked(call.company, DOMAIN crm.contact)
    <2>1. at \subseteq DOMAIN crm.contact
      BY DEF Linked
    <2>2. call.staff = Of("contact", at)
      BY <1>2 DEF StaffRead
    <2> HIDE DEF at
    <2>3. DOMAIN call.staff = at /\ \A c \in at : call.staff[c] = crm.contact[c]
      BY <2>1, <2>2, OfIs
    <2>4. SameName(p, call.staff) = {c \in at : FullName(crm.contact[c]) = p.first \o p.last}
      BY <2>3 DEF SameName
    <2> QED BY <2>4 DEF at
  <1> QED BY <1>1, <1>2

LEMMA OpsOfOne ==
  ASSUME CallInv, ~call.dirty, MeetingRead, At("people"), Job.people # <<>>,
         NEW p, NEW who \in Existing(p, ByEmail(p), call.staff)
  PROVE  OpFits(ContactOp(p, who), p)
  <1> DEFINE at == Linked(call.company, DOMAIN crm.contact)
             there == {c \in at : FullName(crm.contact[c]) = p.first \o p.last}
  <1>1. IsPortal(crm) /\ None \notin Nat
    BY LookupsAssumption DEF CallInv, At
  <1>2. call.staff = StaffRead /\ call.dealContacts = Linked(call.deal, DOMAIN crm.contact)
    BY DEF MeetingRead, At
  <1>3. SameName(p, call.staff) = there
    BY <1>1, <1>2, NamesakesAre
  <1>4. DOMAIN crm.contact \subseteq Nat
    BY <1>1 DEF IsPortal
  <1>5. ByEmail(p) \subseteq DOMAIN crm.contact /\ there \subseteq DOMAIN crm.contact
    BY DEF ByEmail, Linked
  <1>6. CASE who = None
    <2>1. ByEmail(p) = {}
      BY <1>1, <1>4, <1>5, <1>6 DEF Existing
    <2>2. Cardinality(there) # 1
      BY <1>1, <1>3, <1>4, <1>5, <1>6, <2>1 DEF Existing
    <2>3. ~IsThere(p)
      <3> HIDE DEF there
      <3>1. ~(p.email # None /\ \E c \in DOMAIN crm.contact : crm.contact[c].email = p.email)
        BY <2>1 DEF ByEmail
      <3> QED BY <2>2, <3>1 DEF IsThere, there
    <2>4. ContactOp(p, who).op = "create" /\ ContactOp(p, who).person = p
      BY <1>6 DEF ContactOp
    <2> QED BY <2>3, <2>4 DEF OpFits
  <1>7. CASE who # None
    <2>1. who \in DOMAIN crm.contact
      BY <1>3, <1>5, <1>7 DEF Existing
    <2>2. ContactOp(p, who).op = "link" /\ ContactOp(p, who).person = who /\ ContactOp(p, who).to = LinksFor(who)
      BY <1>7 DEF ContactOp
    <2>3. ASSUME NEW to \in LinksFor(who)
          PROVE  <<who, to>> \notin crm.links /\ <<to, who>> \notin crm.links
      <3>1. to \in {call.deal, call.company} \ {None} /\ who \notin Attendees(to)
        BY <2>3 DEF LinksFor
      <3>2. Attendees(to) = Linked(to, DOMAIN crm.contact)
        <4>1. CASE to = call.deal
          BY <1>2, <4>1 DEF Attendees
        <4>2. CASE to # call.deal
          <5>1. to = call.company /\ call.company # None
            BY <3>1, <4>2
          <5>2. call.staff = Of("contact", at)
            BY <1>2, <5>1 DEF StaffRead
          <5>3. at \subseteq DOMAIN crm.contact
            BY DEF Linked
          <5>4. DOMAIN call.staff = at
            BY <5>2, <5>3, OfIs
          <5> QED BY <4>2, <5>1, <5>4 DEF Attendees
        <4> QED BY <4>1, <4>2
      <3> QED BY <2>1, <3>1, <3>2 DEF Linked
    <2>4. Linked(who, LinksFor(who)) = {}
      BY <2>3 DEF Linked
    <2> QED BY <2>2, <2>4 DEF OpFits
  <1> QED BY <1>6, <1>7

\* What is there stays there while nobody edits.
LEMMA FitsOn ==
  ASSUME crm' = crm, call'.company = call.company
  PROVE  \A op, p : OpFits(op, p) => OpFits(op, p)'
  <1> HIDE DEF FullName
  <1> TAKE op, p
  <1>1. \A a, ids : Linked(a, ids)' = Linked(a, ids)
    BY DEF Linked
  <1>2. IsThere(p)' <=> IsThere(p)
    <2> DEFINE there == {c \in Linked(call.company, DOMAIN crm.contact) : FullName(crm.contact[c]) = p.first \o p.last}
    <2>1. Linked(call.company, DOMAIN crm.contact)' = Linked(call.company, DOMAIN crm.contact)
      BY DEF Linked
    <2>2. there' = there
      BY <2>1
    <2>3. (\E c \in DOMAIN crm.contact : crm.contact[c].email = p.email)'
            <=> (\E c \in DOMAIN crm.contact : crm.contact[c].email = p.email)
      OBVIOUS
    <2>4. (Cardinality(there) = 1)' <=> Cardinality(there) = 1
      BY <2>2
    <2> QED BY <2>3, <2>4 DEF IsThere
  <1> QED BY <1>1, <1>2 DEF OpFits

LEMMA OpsFitOn ==
  ASSUME crm' = crm, call'.company = call.company, call'.job = call.job, call'.ops = call.ops, OpsFit
  PROVE  OpsFit'
  BY FitsOn DEF OpsFit, Job

LEMMA ReadOn ==
  ASSUME crm' = crm, call'.company = call.company, call'.job = call.job, call'.deal = call.deal
  PROVE  /\ StaffRead' = StaffRead
         /\ Linked(call.deal, DOMAIN crm.contact)' = Linked(call.deal, DOMAIN crm.contact)
  <1>1. Linked(call.deal, DOMAIN crm.contact)' = Linked(call.deal, DOMAIN crm.contact)
    BY DEF Linked
  <1>2. Linked(call.company, DOMAIN crm.contact)' = Linked(call.company, DOMAIN crm.contact)
    BY DEF Linked
  <1>3. Of("contact", Linked(call.company, DOMAIN crm.contact))' = Of("contact", Linked(call.company, DOMAIN crm.contact))
    BY <1>2 DEF Of, Records
  <1> QED BY <1>1, <1>3 DEF StaffRead, Job

LEMMA TwiceInit == Init => TwiceInv
  BY CallInit DEF TwiceInv, MeetingRead, Init, Idle, At

LEMMA TwiceStep ==
  ASSUME TwiceInv, [Next]_vars
  PROVE  TwiceInv'
  <1> USE DEF TwiceInv, MeetingRead, At
  <1> SUFFICES MeetingRead'
    BY CallStep
  <1> SUFFICES ASSUME ~call'.dirty
               PROVE  /\ call'.pc \in {"staff", "people"} => call'.dealContacts = Linked(call.deal, DOMAIN crm.contact)'
                      /\ call'.pc = "people" => /\ call'.staff = StaffRead' /\ OpsFit'
                                                /\ Len(call'.ops) <= Len(Job'.people)
                      /\ call'.pc = "done" /\ call'.answer.status = "preview" =>
                           call'.answer.ops = call'.ops /\ OpsFit' /\ Len(call'.ops) = Len(Job'.people)
    OBVIOUS
  <1>1. CASE UNCHANGED vars
    <2>1. crm' = crm /\ call' = call
      BY <1>1 DEF vars
    <2>2. /\ StaffRead' = StaffRead /\ (OpsFit => OpsFit')
          /\ Linked(call.deal, DOMAIN crm.contact)' = Linked(call.deal, DOMAIN crm.contact)
      BY <2>1, OpsFitOn, ReadOn
    <2> QED BY <2>1, <2>2 DEF Job
  <1>2. CASE Edit
    <2>1. call'.pc = "idle"
      BY <1>2, EditGoes DEF CallInv, Fields
    <2> QED BY <2>1
  <1>3. CASE ReadContacts
    <2>1. GoesOn /\ call'.pc = "staff" /\ call'.dealContacts = Linked(call.deal, DOMAIN crm.contact) /\ call'.deal = call.deal
      BY <1>3, ReadsGo DEF CallInv
    <2>2. Linked(call.deal, DOMAIN crm.contact)' = Linked(call.deal, DOMAIN crm.contact)
      BY <2>1 DEF Linked, GoesOn
    <2> QED BY <2>1, <2>2
  <1>4. CASE ReadStaff
    <2>1. /\ GoesOn /\ call'.job = Job /\ call'.pc = "people" /\ call'.deal = call.deal /\ call'.company = call.company
          /\ call'.dealContacts = call.dealContacts /\ call'.ops = call.ops /\ call'.staff = StaffRead
      BY <1>4, ReadsGo DEF CallInv, StaffRead
    <2>2. /\ StaffRead' = StaffRead
          /\ Linked(call.deal, DOMAIN crm.contact)' = Linked(call.deal, DOMAIN crm.contact)
      BY <2>1, ReadOn DEF GoesOn, Job
    <2>3. call.pc = "staff" /\ ~call.dirty /\ call'.ops = <<>>
      BY <1>4, <2>1, Guards DEF GoesOn, CallInv, AppliesTo
    <2>4. OpsFit' /\ Len(call'.ops) = 0
      BY <2>3 DEF OpsFit
    <2>5. Job.people \in Seq(ToSet(Job.people))
      BY <2>3, LookupsAssumption DEF CallInv
    <2>6. Len(Job'.people) \in Nat
      BY <2>1, <2>5, LenProperties DEF Job
    <2> QED BY <2>1, <2>2, <2>3, <2>4, <2>6
  <1>5. CASE ReadPerson
    <2>1. /\ GoesOn /\ call'.job = Job /\ call'.pc = "people" /\ call'.deal = call.deal /\ call'.company = call.company
          /\ call'.dealContacts = call.dealContacts /\ call'.staff = call.staff
          /\ Len(call.ops) < Len(Job.people)
      BY <1>5, ReadsGo DEF CallInv
    <2>2. PICK who \in Existing(NextPerson, ByEmail(NextPerson), call.staff) :
            call'.ops = Append(call.ops, ContactOp(NextPerson, who))
      BY <1>5, ReadsGo DEF CallInv
    <2>3. /\ StaffRead' = StaffRead
          /\ Linked(call.deal, DOMAIN crm.contact)' = Linked(call.deal, DOMAIN crm.contact)
      BY <2>1, ReadOn DEF GoesOn, Job
    <2>4. At("people") /\ ~call.dirty /\ OpsFit
      BY <1>5, <2>1, Guards DEF GoesOn
    <2>5. Job.people \in Seq(ToSet(Job.people))
      BY <2>4, LookupsAssumption DEF CallInv
    <2>6. Len(Job.people) \in Nat /\ Len(call.ops) \in Nat
      BY <2>4, <2>5, LenProperties DEF OpsFit
    <2>7. Job.people # <<>>
      BY <2>1, <2>6
    <2>8. OpFits(ContactOp(NextPerson, who), NextPerson)
      BY <2>4, <2>7, OpsOfOne
    <2> DEFINE op0 == ContactOp(NextPerson, who) n == Len(call.ops)
    <2>9. PICK S : call.ops \in Seq(S)
      BY <2>4 DEF OpsFit
    <2>10. /\ call'.ops \in Seq(S \cup {op0}) /\ Len(call'.ops) = n + 1
           /\ \A i \in 1..n : call'.ops[i] = call.ops[i]
           /\ call'.ops[n + 1] = op0
      <3> HIDE DEF op0
      <3>1. call.ops \in Seq(S \cup {op0}) /\ op0 \in S \cup {op0}
        BY <2>9
      <3> QED BY <2>2, <3>1, AppendProperties DEF op0
    <2>11. ASSUME NEW i \in 1..(n + 1)
           PROVE  \E op, p : op = call'.ops[i] /\ p = Job.people[i] /\ OpFits(op, p)
      <3>1. CASE i \in 1..n
        BY <2>4, <2>10, <3>1 DEF OpsFit
      <3>2. CASE i = n + 1
        BY <2>8, <2>10, <3>2 DEF NextPerson
      <3> QED BY <2>6, <3>1, <3>2
    <2>12. OpsFit'
      <3>1. \A op, p : OpFits(op, p) => OpFits(op, p)'
        BY <2>1, FitsOn DEF GoesOn
      <3> HIDE DEF op0, n
      <3> QED BY <2>1, <2>10, <2>11, <3>1 DEF OpsFit, Job
    <2> QED BY <2>1, <2>3, <2>4, <2>6, <2>10, <2>12 DEF Job
  <1>6. CASE Propose
    <2>1. /\ GoesOn /\ call'.job = Job /\ call'.pc = "done" /\ call'.company = call.company
          /\ Len(call.ops) = Len(Job.people) /\ call'.answer.ops = call.ops
      BY <1>6, ProposeGoes DEF CallInv
    <2>2. At("people") /\ ~call.dirty /\ OpsFit
      BY <1>6, <2>1, Guards DEF GoesOn
    <2>3. call'.ops = call.ops
      BY <1>6, ProposeGoes DEF CallInv
    <2>4. OpsFit'
      BY <2>1, <2>2, <2>3, OpsFitOn DEF GoesOn, Job
    <2> QED BY <2>1, <2>3, <2>4 DEF Job
  <1>7. CASE /\ call'.pc \notin {"staff", "people"}
             /\ ~(call'.pc = "done" /\ call'.answer.status = "preview")
    BY <1>7
  <1> QED BY <1>1, <1>2, <1>3, <1>4, <1>5, <1>6, <1>7, StepIs DEF CallInv, Lands, AppliesTo

LEMMA TwiceKeeps ==
  ASSUME TwiceInv
  PROVE  NothingTwice
  <1> SUFFICES ASSUME Undisturbed, call.answer.status = "preview"
               PROVE  LET ops == call.answer.ops IN
                      /\ \A i \in Creates(ops) : ~IsThere(ops[i].person)
                      /\ \A i, j \in Creates(ops) : PersonKey(ops[i].person) = PersonKey(ops[j].person) => i = j
                      /\ \A i \in DOMAIN ops \ Creates(ops) : Linked(ops[i].person, ops[i].to) = {}
    BY DEF NothingTwice
  <1>1. At("done") /\ call.answer.ops = call.ops /\ OpsFit /\ Len(call.ops) = Len(Job.people)
    BY DEF Undisturbed, TwiceInv, MeetingRead
  <1> DEFINE ops == call.answer.ops n == Len(ops)
  <1>2. Job.people \in Seq(ToSet(Job.people)) /\ InputsAreSound(Job)
    BY <1>1, LookupsAssumption DEF TwiceInv, CallInv, MeetingIsSound, At
  <1>3. DOMAIN ops = 1..n /\ DOMAIN Job.people = 1..n
    BY <1>1, <1>2, LenProperties DEF OpsFit
  <1>4. ASSUME NEW i \in 1..n
        PROVE  \/ ops[i].op = "create" /\ ops[i].person = Job.people[i] /\ ~IsThere(ops[i].person)
               \/ ops[i].op = "link" /\ Linked(ops[i].person, ops[i].to) = {}
    <2>1. PICK op, p : op = ops[i] /\ p = Job.people[i] /\ OpFits(op, p)
      BY <1>1 DEF OpsFit
    <2>2. CASE op.op = "create" /\ op.person = p /\ ~IsThere(p)
      BY <2>1, <2>2
    <2>3. CASE op.op = "link" /\ Linked(op.person, op.to) = {}
      BY <2>1, <2>3
    <2> QED BY <2>1, <2>2, <2>3 DEF OpFits
  <1>5. Creates(ops) = {i \in 1..n : ops[i].op = "create"}
    BY <1>3 DEF Creates
  <1>6. \A i, j \in 1..n : PersonKey(Job.people[i]) = PersonKey(Job.people[j]) => i = j
    <2> HIDE DEF PersonKey
    <2> DEFINE key == [i \in DOMAIN Job.people |-> PersonKey(Job.people[i])]
    <2>1. IsInjective(key)
      BY <1>2 DEF InputsAreSound, EachPersonOnce
    <2>2. DOMAIN key = 1..n /\ \A i \in 1..n : key[i] = PersonKey(Job.people[i])
      BY <1>3
    <2> HIDE DEF key
    <2> QED BY <2>1, <2>2 DEF IsInjective
  <1> HIDE DEF ops, n
  <1>7. \A i \in Creates(ops) : ~IsThere(ops[i].person)
    BY <1>4, <1>5
  <1>8. \A i, j \in Creates(ops) : PersonKey(ops[i].person) = PersonKey(ops[j].person) => i = j
    <2> HIDE DEF PersonKey
    <2>1. \A i \in Creates(ops) : ops[i].person = Job.people[i]
      BY <1>4, <1>5
    <2> QED BY <1>5, <1>6, <2>1
  <1>9. \A i \in DOMAIN ops \ Creates(ops) : Linked(ops[i].person, ops[i].to) = {}
    BY <1>3, <1>4, <1>5
  <1> QED BY <1>7, <1>8, <1>9 DEF ops

\* An undisturbed meeting adds nothing twice: nobody is created who is in the portal by that address or
\* alone of that name at the company, nor two alike in one changeset, and no link is made that is there.
THEOREM MeetingsAddNothingTwice == Spec => []NothingTwice
  BY TwiceInit, TwiceStep, TwiceKeeps, PTL DEF Spec

-----------------------------------------------------------------------------
(* Scores and their leaders *)

\* Similarity is a percentage, as round(100 * SequenceMatcher.ratio()) is.
RatioIsPercent == \A a, b : Ratio(a, b) \in 0..100

\* A set of naturals that is not empty has a least member.
LEMMA Least ==
  ASSUME NEW T \in SUBSET Nat, T # {}
  PROVE  \E n \in T : \A m \in T : n <= m
  <1> DEFINE R == {ss \in Nat \X Nat : ss[1] < ss[2]}
  <1>1. IsWellFoundedOn(R, Nat)
    BY NatLessThanWellFounded DEF OpToRel
  <1>2. \E n \in T : \A m \in T : ~ (<<m, n>> \in R)
    <2> HIDE DEF R
    <2> QED BY <1>1, WFMin
  <1>3. ASSUME NEW n \in T, NEW m \in T, ~ (<<m, n>> \in R)
        PROVE  n <= m
    BY <1>3
  <1> QED BY <1>2, <1>3

\* A set of percentages has a greatest.
LEMMA Greatest ==
  ASSUME NEW T \in SUBSET (0..100), T # {}
  PROVE  Max(T) \in T /\ \A y \in T : Max(T) >= y
  <1> DEFINE D == {m \in 0..100 : 100 - m \in T}
  <1>1. D \in SUBSET Nat /\ D # {}
    <2>1. PICK y \in T : TRUE
      OBVIOUS
    <2>2. 100 - y \in 0..100 /\ 100 - (100 - y) = y
      BY <2>1
    <2>3. 100 - y \in D
      BY <2>1, <2>2
    <2>4. ASSUME NEW m \in D
          PROVE  m \in Nat
      OBVIOUS
    <2> HIDE DEF D
    <2> QED BY <2>3, <2>4
  <1>2. PICK n \in D : \A m \in D : n <= m
    <2> HIDE DEF D
    <2> QED BY <1>1, Least
  <1>3. 100 - n \in T /\ \A y \in T : 100 - n >= y
    <2>1. ASSUME NEW y \in T
          PROVE  100 - n >= y
      <3>1. y \in 0..100 /\ 100 - y \in 0..100 /\ 100 - (100 - y) = y
        BY <2>1
      <3>2. n <= 100 - y
        BY <1>2, <3>1
      <3> QED BY <1>2, <3>1, <3>2
    <2> QED BY <1>2, <2>1
  <1>4. \E x \in T : \A y \in T : x >= y
    BY <1>3
  <1> QED BY <1>4 DEF Max

LEMMA WordsAre ==
  ASSUME NEW text, text # <<>>, text \in Seq(Words(text))
  PROVE  /\ IsFiniteSet(Words(text)) /\ Words(text) # {}
         /\ Cardinality(Words(text)) \in Nat \ {0}
  <1> DEFINE W == Words(text) n == Len(text)
  <1>1. n \in Nat /\ DOMAIN text = 1..n /\ text \in [1..n -> W] /\ n # 0
    <2> HIDE DEF W
    <2>1. text \in Seq(W)
      BY DEF W
    <2> QED BY <2>1, LenProperties, EmptySeq
  <1>2. W = {text[i] : i \in 1..n}
    BY <1>1 DEF Words, ToSet
  <1>3. text[1] \in W
    BY <1>1, <1>2
  <1>4. text \in Surjection(1..n, W)
    BY <1>1, <1>2 DEF Surjection
  <1>5. IsFiniteSet(1..n)
    BY <1>1, FS_Interval
  <1>6. IsFiniteSet(W)
    BY <1>4, <1>5, FS_Surjection DEF ExistsSurjection
  <1>7. Cardinality(W) \in Nat /\ Cardinality(W) # 0
    <2> HIDE DEF W
    <2> QED BY <1>3, <1>6, FS_CardinalityType, FS_EmptySet
  <1> QED BY <1>3, <1>6, <1>7

LEMMA OverlapIs ==
  ASSUME NEW q, q # <<>>, q \in Seq(Words(q)), NEW t
  PROVE  Overlap(q, t) \in 0..100
  <1> DEFINE a == Cardinality(Words(q) \cap Words(t)) b == Cardinality(Words(q))
  <1>1. a \in Nat /\ b \in Nat \ {0} /\ a <= b
    <2>1. IsFiniteSet(Words(q)) /\ b \in Nat \ {0}
      BY WordsAre
    <2> HIDE DEF Words
    <2>2. IsFiniteSet(Words(q) \cap Words(t)) /\ a <= b
      BY <2>1, FS_Intersection
    <2> QED BY <2>1, <2>2, FS_CardinalityType
  <1> HIDE DEF a, b
  <1>2. (95 * a) \div b \in 0..100
    <2>1. 95 * a \in Nat /\ 95 * a <= 95 * b
      BY <1>1
    <2> DEFINE x == 95 * a
    <2>2. ASSUME NEW y \in Nat, y <= 95 * b
          PROVE  y \div b \in 0..95
      BY <1>1, <2>2
    <2>3. x \in Nat /\ x <= 95 * b
      BY <2>1
    <2> HIDE DEF x
    <2>4. x \div b \in 0..95
      BY <2>2, <2>3
    <2>5. x \div b \in 0..100
      BY <2>4
    <2> QED BY <2>5 DEF x
  <1> QED BY <1>2 DEF Overlap, a, b

LEMMA ScoreIs ==
  ASSUME RatioIsPercent, NEW type, NEW q, q.text # <<>>, q.text \in Seq(Words(q.text)), NEW r
  PROVE  Score(type, q, r) \in 0..100
  <1> DEFINE T == {0} \cup {Overlap(q.text, t) : t \in TextsOf(type, r)} \cup {Ratio(q.text, t) : t \in TextsOf(type, r)}
  <1> HIDE DEF Overlap, TextsOf
  <1>1. T \in SUBSET (0..100) /\ T # {}
    <2>1. ASSUME NEW x \in T
          PROVE  x \in 0..100
      <3>1. CASE x \in {Overlap(q.text, t) : t \in TextsOf(type, r)}
        BY <3>1, OverlapIs
      <3>2. CASE x \in {Ratio(q.text, t) : t \in TextsOf(type, r)}
        BY <3>2 DEF RatioIsPercent
      <3> QED BY <2>1, <3>1, <3>2
    <2>2. 0 \in T
      OBVIOUS
    <2> HIDE DEF T
    <2> QED BY <2>1, <2>2
  <1>2. Max(T) \in 0..100
    <2> HIDE DEF T
    <2> QED BY <1>1, Greatest
  <1> QED BY <1>2 DEF Score

\* A match leads every other by more than the margin.
LEMMA MatchLeads ==
  ASSUME NEW S, IsFiniteSet(S), NEW scores \in [S -> 0..100], Decide(scores) = "match", NEW i \in Leaders(scores)
  PROVE  i \in S /\ \A j \in S \ {i} : scores[j] < scores[i] - Margin
  <1>1. DOMAIN scores = S
    OBVIOUS
  <1>2. Leaders(scores) = {i}
    <2>1. Cardinality(Leaders(scores)) = 1
      BY DEF Decide
    <2>2. IsFiniteSet(Leaders(scores))
      <3>1. Leaders(scores) \subseteq S
        BY <1>1 DEF Leaders
      <3> QED BY <3>1, FS_Subset
    <2> QED BY <2>1, <2>2, FS_Singleton
  <1>3. i \in S
    BY <1>1 DEF Leaders
  <1> DEFINE T == {scores[j] : j \in S}
  <1>4. T \in SUBSET (0..100) /\ T # {}
    BY <1>3
  <1>5. PICK m \in S : scores[m] = Max(T) /\ \A j \in S : scores[m] >= scores[j]
    <2>1. Max(T) \in T /\ \A y \in T : Max(T) >= y
      <3> HIDE DEF T
      <3> QED BY <1>4, Greatest
    <2> DEFINE x == Max(T)
    <2>2. x \in T /\ \A y \in T : x >= y
      BY <2>1
    <2> HIDE DEF x
    <2>3. PICK m \in S : scores[m] = x
      BY <2>2
    <2> QED BY <2>2, <2>3 DEF x
  <1>6. m = i
    <2>1. m \in Leaders(scores)
      BY <1>1, <1>5 DEF Leaders, Margin
    <2> QED BY <1>2, <2>1
  <1>7. ASSUME NEW j \in S \ {i}
        PROVE  scores[j] < scores[i] - Margin
    <2>1. j \notin Leaders(scores)
      BY <1>2, <1>7
    <2>2. PICK k \in S : ~(scores[j] >= scores[k] - Margin)
      BY <1>1, <2>1 DEF Leaders
    <2>3. scores[i] >= scores[k]
      BY <1>5, <1>6
    <2> QED BY <1>3, <2>2, <2>3 DEF Margin
  <1> QED BY <1>3, <1>7

-----------------------------------------------------------------------------
(* What a search that left nothing out has read *)

LEMMA PageIs ==
  ASSUME NEW hits, IsFiniteSet(hits), NEW n \in Nat \ {0}, NEW page \in PageOf(hits, n)
  PROVE  /\ page = {} => hits = {}
         /\ ~(Cardinality(hits) > n) => page = hits
  <1> DEFINE c == Cardinality(hits) m == Min({n, c})
  <1>1. c \in Nat /\ (c = 0 <=> hits = {})
    BY FS_CardinalityType, FS_EmptySet
  <1>2. m \in {n, c} /\ m <= n /\ m <= c
    <2>1. \E x \in {n, c} : \A y \in {n, c} : x <= y
      <3> HIDE DEF c
      <3> QED BY <1>1
    <2> HIDE DEF c
    <2> QED BY <2>1 DEF Min
  <1>3. page \in SUBSET hits /\ Cardinality(page) = m
    BY DEF PageOf, kSubset
  <1> HIDE DEF c, m
  <1>4. page = {} => hits = {}
    <2>1. page = {} => m = 0
      BY <1>3, FS_EmptySet
    <2> QED BY <1>1, <1>2, <2>1
  <1>5. ~(c > n) => page = hits
    <2>1. ~(c > n) => m = c
      BY <1>1, <1>2
    <2> QED BY <1>3, <2>1, FS_Subset DEF c
  <1> QED BY <1>4, <1>5 DEF c

LEMMA LowestIs ==
  ASSUME NEW hits, IsFiniteSet(hits), hits \subseteq Nat, NEW n \in Nat, ~(Cardinality(hits) > n)
  PROVE  Lowest(hits, n) = hits
  <1>1. Cardinality(hits) \in Nat
    BY FS_CardinalityType
  <1>2. ASSUME NEW i \in hits
        PROVE  Cardinality({j \in hits : j < i}) < n
    <2> DEFINE below == {j \in hits : j < i}
    <2>1. below \in SUBSET hits /\ i \notin below
      OBVIOUS
    <2> HIDE DEF below
    <2>2. Cardinality(below) \in Nat /\ Cardinality(below) <= Cardinality(hits) /\ Cardinality(below) # Cardinality(hits)
      BY <1>2, <2>1, FS_Subset, FS_CardinalityType
    <2>3. Cardinality(below) < n
      BY <1>1, <2>2
    <2> QED BY <2>3 DEF below
  <1> QED BY <1>2 DEF Lowest

\* One member at most, of a finite set, and one there is.
LEMMA OnlyOne ==
  ASSUME NEW S, IsFiniteSet(S), NEW x \in S, ~(Cardinality(S) > 1)
  PROVE  S = {x}
  <1>1. Cardinality(S) \in Nat /\ Cardinality(S) # 0
    BY FS_CardinalityType, FS_EmptySet
  <1>2. Cardinality(S) = 1
    BY <1>1
  <1> QED BY <1>2, FS_Singleton

-----------------------------------------------------------------------------
(* The one person a brief is about *)

LEMMA RankIs ==
  ASSUME NEW company, NEW c, NEW companies
  PROVE  CompanyRank(company, c, companies) \in 0..2
  <1>1. CompanyRank(company, c, companies) \in {0, 1, 2}
    BY DEF CompanyRank
  <1>2. \A rank \in {0, 1, 2} : rank \in 0..2
    OBVIOUS
  <1> QED BY <1>1, <1>2

\* Of the people read, every other whose name covers what was asked is less exactly of that name, or
\* less surely at the company.
LEMMA PersonLeads ==
  ASSUME NEW q, NEW company, NEW people, IsFiniteSet(DOMAIN people), NEW companiesOf,
         NEW c \in Persons(q, company, people, companiesOf),
         ~(Cardinality(Persons(q, company, people, companiesOf)) > 1)
  PROVE  c \in DOMAIN people /\ \A j \in DOMAIN people \ {c} :
           NameCovers(q, people[j]) =>
             \/ FullName(people[c]) = q.text /\ FullName(people[j]) # q.text
             \/ company # None /\ RankOf(company, people, companiesOf, j) < RankOf(company, people, companiesOf, c)
  <1> HIDE DEF FullName, NameCovers
  <1> DEFINE exact == {i \in DOMAIN people : FullName(people[i]) = q.text}
             covered == Covered(q, people)
             chosen == Persons(q, company, people, companiesOf)
             rank(i) == RankOf(company, people, companiesOf, i)
             T == {rank(i) : i \in covered}
  <1>1. covered \subseteq DOMAIN people
    BY DEF Covered, ExactNames
  <1>2. chosen \subseteq covered
    BY DEF Persons, BestAt
  <1>3. chosen = {c}
    <2>1. IsFiniteSet(chosen)
      BY <1>1, <1>2, FS_Subset
    <2> HIDE DEF chosen
    <2>2. c \in chosen /\ ~(Cardinality(chosen) > 1)
      BY DEF chosen
    <2> QED BY <2>1, <2>2, OnlyOne
  <1>4. ASSUME NEW j \in DOMAIN people \ {c}, NameCovers(q, people[j]),
               ~(FullName(people[c]) = q.text /\ FullName(people[j]) # q.text)
        PROVE  company # None /\ rank(j) < rank(c)
    <2>1. j \in covered
      <3>1. CASE j \in exact
        BY <1>4, <3>1 DEF Covered, ExactNames
      <3>2. CASE j \notin exact
        <4>1. c \notin exact
          BY <1>4, <3>2
        <4>2. c \in covered
          BY <1>2, <1>3
        <4>3. exact = {}
          BY <4>1, <4>2 DEF Covered, ExactNames
        <4> QED BY <1>4, <4>3 DEF Covered, ExactNames
      <3> QED BY <3>1, <3>2
    <2>2. company # None /\ chosen = BestAt(company, people, companiesOf, covered)
      <3>1. chosen # covered
        BY <1>3, <1>4, <2>1
      <3> QED BY <2>1, <3>1 DEF Persons
    <2>3. \A i : rank(i) \in 0..2
      BY RankIs DEF RankOf
    <2>4. T \in SUBSET (0..100) /\ T # {}
      <3>1. \A i : rank(i) \in 0..100
        BY <2>3
      <3> HIDE DEF rank, covered
      <3> QED BY <2>1, <3>1
    <2>5. Max(T) \in T /\ \A y \in T : Max(T) >= y
      <3> HIDE DEF T
      <3> QED BY <2>4, Greatest
    <2>6. chosen = IF Max(T) = 0 THEN {} ELSE {i \in covered : rank(i) = Max(T)}
      BY <2>2 DEF BestAt
    <2> DEFINE best == Max(T)
    <2>7. \A i \in covered : best >= rank(i)
      <3> HIDE DEF rank, covered
      <3> QED BY <2>5
    <2>8. best \in Nat
      BY <2>4, <2>5
    <2> HIDE DEF best, covered, T, chosen
    <2>9. rank(c) = best /\ rank(j) # best
      <3>1. chosen = IF best = 0 THEN {} ELSE {i \in covered : rank(i) = best}
        BY <2>6 DEF best
      <3> HIDE DEF rank
      <3> QED BY <1>3, <1>4, <2>1, <3>1
    <2>10. rank(j) <= best /\ rank(j) \in Nat
      <3>1. rank(j) \in Nat
        BY <2>3
      <3> HIDE DEF rank
      <3> QED BY <2>1, <2>7, <2>8, <3>1
    <2> HIDE DEF rank
    <2> QED BY <2>2, <2>8, <2>9, <2>10
  <1>5. c \in DOMAIN people
    BY <1>1, <1>2, <1>3
  <1> QED BY <1>4, <1>5

-----------------------------------------------------------------------------
(* The one deal a meeting is about *)

LEMMA TextFindsItself ==
  ASSUME NEW q, q.text # <<>>, q.text \in Seq(Words(q.text)), NEW r
  PROVE  /\ r.name = q.text => TextMatches("deal", q, r)
         /\ Bears(q.text, r) => TextMatches("company", q, r)
  <1>1. Shares(q.text, q.text)
    <2>1. Words(q.text) # {}
      BY WordsAre
    <2> HIDE DEF Words
    <2> QED BY <2>1 DEF Shares
  <1>2. r.name = q.text => q.text \in TextsOf("deal", r)
    BY DEF TextsOf
  <1>3. Bears(q.text, r) => q.text \in TextsOf("company", r)
    <2> HIDE DEF AsText
    <2> QED BY DEF TextsOf, Bears
  <1> QED BY <1>1, <1>2, <1>3 DEF TextMatches

LEMMA JobIs ==
  ASSUME CallInv, ~At("idle")
  PROVE  Job.q.text # <<>> /\ Job.q.text \in Seq(Words(Job.q.text))
  BY LookupsAssumption DEF CallInv, At

NamedHits == {d \in OpenDeals : TextMatches("deal", Job.q, crm.deal[d])}
ExactHits == {d \in NamedHits : crm.deal[d].name = Job.q.text}
\* The deals found by name, when one of them is not the deal.
DealsNamed ==
  Cardinality(ExactHits) # 1 /\ DOMAIN call.named = IF ExactHits # {} THEN ExactHits ELSE NamedHits
\* The companies the text could mean are looked into.
CompaniesChosen == MeantCompanies \subseteq call.chosen

LEMMA ExactAreNamed ==
  ASSUME CallInv, ~At("idle"), NEW j \in OpenDeals, crm.deal[j].name = Job.q.text
  PROVE  j \in ExactHits
  <1>1. TextMatches("deal", Job.q, crm.deal[j])
    BY JobIs, TextFindsItself
  <1> QED BY <1>1 DEF ExactHits, NamedHits

LEMMA ExactDealLeads ==
  ASSUME CallInv, ~At("idle"), NEW d, ExactHits = {d}
  PROVE  NoDealRivals(d)
  <1>1. crm.deal[d].name = Job.q.text
    BY DEF ExactHits
  <1>2. \A j \in OpenDeals \ {d} : crm.deal[j].name # Job.q.text
    BY ExactAreNamed
  <1> QED BY <1>1, <1>2 DEF NoDealRivals

LEMMA OnlyDealLeads ==
  ASSUME CallInv, ~At("idle"), DealsNamed, CompaniesChosen, NEW d,
         DOMAIN call.named \cup (UNION {Linked(k, OpenDeals) : k \in call.chosen}) = {d}
  PROVE  NoDealRivals(d)
  <1>1. ExactHits = {}
    <2>1. CASE ExactHits = {d}
      BY <2>1, FS_Singleton DEF DealsNamed
    <2>2. CASE ExactHits # {} /\ ExactHits # {d}
      BY <2>2 DEF DealsNamed
    <2> QED BY <2>1, <2>2
  <1>2. DOMAIN call.named = NamedHits
    BY <1>1 DEF DealsNamed
  <1>3. ASSUME NEW j \in OpenDeals \ {d}
        PROVE  crm.deal[j].name # Job.q.text /\ ~MeantToo(j)
    <2>1. crm.deal[j].name # Job.q.text
      BY <1>1, ExactAreNamed
    <2>2. ~TextMatches("deal", Job.q, crm.deal[j])
      BY <1>2, <1>3 DEF NamedHits
    <2>3. ASSUME NEW k \in Linked(j, MeantCompanies)
          PROVE  FALSE
      <3>1. k \in call.chosen
        BY <2>3 DEF CompaniesChosen, Linked
      <3>2. j \in Linked(k, OpenDeals)
        BY <2>3 DEF Linked
      <3>3. j \in UNION {Linked(kk, OpenDeals) : kk \in call.chosen}
        BY <3>1, <3>2
      <3> QED BY <1>3, <3>3
    <2> QED BY <2>1, <2>2, <2>3 DEF MeantToo
  <1> QED BY <1>3 DEF NoDealRivals

-----------------------------------------------------------------------------
(* Two equally good records are never guessed between *)

\* What a call that nobody disturbed knows of the rivals of what it goes on with.
Unrivalled ==
  /\ At("findText") /\ HasKey(TypeAsked(Job), Job.q) => KeyHits(TypeAsked(Job)) = {}
  /\ At("details") /\ ByText => \E d : d = call.deal /\ ClearMatch("deal", d)
  /\ At("companies") => DealsNamed
  /\ At("open") => DealsNamed /\ CompaniesChosen
  /\ call.pc \in {"company", "contacts", "staff", "people"} /\ ByText => \E d : d = call.deal /\ NoDealRivals(d)
  /\ At("searchText") => NamedSo = {}
  /\ At("companiesOf") => NamedSo = {} \/ call.people = Of("contact", NamedSo)
  /\ call.pc \in {"links", "deals", "engagements", "never"} => \E c : c = call.person /\ NoPersonRivals(c)
\* And of what it answers.
Told ==
  At("done") =>
    /\ call.answer.status = "match" => \E type : type = TypeAsked(Job) /\ \A i \in call.answer.top : ClearMatch(type, i)
    /\ call.answer.status = "found" /\ ByText => \E d : d = call.answer.deal /\ ClearMatch("deal", d)
    /\ call.answer.status = "preview" /\ ByText => \E d : d = call.answer.deal /\ NoDealRivals(d)
    /\ call.answer.status = "ok" => \E c : c = call.answer.person /\ NoPersonRivals(c)
GuessInv ==
  /\ CallInv
  /\ At("find") => HasKey(TypeAsked(Job), Job.q)
  /\ ~call.dirty /\ ~call.cut => Unrivalled /\ Told

\* Rivals are told by the portal and the job alone.
LEMMA RivalsOn ==
  ASSUME crm' = crm, call'.job = call.job
  PROVE  /\ \A type : KeyHits(type)' = KeyHits(type) /\ TextHits(type)' = TextHits(type)
         /\ \A type, i : ClearMatch(type, i)' <=> ClearMatch(type, i)
         /\ \A d : NoDealRivals(d)' <=> NoDealRivals(d)
         /\ \A c : NoPersonRivals(c)' <=> NoPersonRivals(c)
         /\ NamedSo' = NamedSo /\ NamedHits' = NamedHits /\ ExactHits' = ExactHits
         /\ Job' = Job /\ (ByText' <=> ByText) /\ MeantCompanies' = MeantCompanies
  <1> USE DEF Job
  <1> HIDE DEF KeyMatches, TextMatches, StrongKey, HasKey, Score, Bears, FullName, CompanyRank, NameMatches, NameCovers
  <1>1. \A type : KeyHits(type)' = KeyHits(type) /\ TextHits(type)' = TextHits(type)
    BY DEF KeyHits, TextHits, Records
  <1>2. ASSUME NEW type, NEW i
        PROVE  ClearMatch(type, i)' <=> ClearMatch(type, i)
    <2>1. Searched(type)' = Searched(type)
      BY <1>1 DEF Searched
    <2>2. \A j : Fit(type, j)' = Fit(type, j)
      BY <1>1 DEF Fit, Records
    <2> QED BY <2>1, <2>2 DEF ClearMatch
  <1>3. MeantCompanies' = MeantCompanies /\ OpenDeals' = OpenDeals /\ \A j : MeantToo(j)' <=> MeantToo(j)
    <2>1. MeantCompanies' = MeantCompanies
      BY <1>1 DEF MeantCompanies
    <2> QED BY <2>1 DEF OpenDeals, MeantToo, Linked
  <1>4. \A d : NoDealRivals(d)' <=> NoDealRivals(d)
    BY <1>3 DEF NoDealRivals
  <1>5. \A c : NoPersonRivals(c)' <=> NoPersonRivals(c)
    <2>1. \A i : {crm.company[k] : k \in Linked(i, DOMAIN crm.company)}' = {crm.company[k] : k \in Linked(i, DOMAIN crm.company)}
      BY DEF Linked
    <2> QED BY <2>1 DEF NoPersonRivals
  <1>6. NamedSo' = NamedSo
    BY DEF NamedSo
  <1>7. NamedHits' = NamedHits
    BY <1>3 DEF NamedHits
  <1>8. ExactHits' = ExactHits
    BY <1>7 DEF ExactHits
  <1>9. Job' = Job /\ (ByText' <=> ByText)
    BY DEF ByText
  <1> QED BY <1>1, <1>2, <1>3, <1>4, <1>5, <1>6, <1>7, <1>8, <1>9

\* The match of a search that read every hit leads all it could have found.
LEMMA RecordLeads ==
  ASSUME RatioIsPercent, CallInv, ~At("idle"), ~At("applied"), NEW type \in {"deal", "company", "contact"},
         NEW scores, scores = [i \in Searched(type) |-> Fit(type, i)], Decide(scores) = "match",
         NEW i \in Leaders(scores)
  PROVE  ClearMatch(type, i)
  <1>1. IsFiniteSet(Searched(type))
    <2>1. IsFiniteSet(DOMAIN crm[type])
      BY DEF CallInv, IsPortal
    <2>2. KeyHits(type) \subseteq DOMAIN crm[type] /\ TextHits(type) \subseteq DOMAIN crm[type]
      BY DEF KeyHits, TextHits, Records
    <2> QED BY <2>1, <2>2, FS_Subset DEF Searched
  <1>2. \A j : Fit(type, j) \in 0..100
    <2>1. \A r : Score(type, Job.q, r) \in 0..100
      BY JobIs, ScoreIs
    <2> QED BY <2>1 DEF Fit
  <1> DEFINE S == Searched(type)
  <1>3. scores \in [S -> 0..100]
    BY <1>2
  <1> HIDE DEF S
  <1>4. i \in S /\ \A j \in S \ {i} : scores[j] < scores[i] - Margin
    <2>1. IsFiniteSet(S)
      BY <1>1 DEF S
    <2> QED BY <1>3, <2>1, MatchLeads
  <1>5. \A j \in S : scores[j] = Fit(type, j)
    BY DEF S
  <1>6. scores[i] >= MatchFloor
    BY DEF Decide
  <1> QED BY <1>4, <1>5, <1>6 DEF ClearMatch, S

LEMMA GuessInit == Init => GuessInv
  BY CallInit DEF GuessInv, Unrivalled, Told, Init, Idle, At

LEMMA AskedIs ==
  ASSUME CallInv, ~At("idle")
  PROVE  /\ TypeAsked(Job) \in {"deal", "company", "contact"} /\ (Job.kind = "deal" => TypeAsked(Job) = "deal")
         /\ StrongKey(TypeAsked(Job), Job.q) => HasKey(TypeAsked(Job), Job.q)
  BY LookupsAssumption DEF CallInv, TypeAsked, HasKey

LEMMA HitsAreFinite ==
  ASSUME CallInv, ~At("applied"), NEW type \in {"deal", "company", "contact"}
  PROVE  /\ IsFiniteSet(KeyHits(type)) /\ IsFiniteSet(TextHits(type))
         /\ IsFiniteSet(NamedSo) /\ NamedSo \subseteq DOMAIN crm.contact /\ DOMAIN crm.contact \subseteq Nat
         /\ IsFiniteSet(NamedHits) /\ NamedHits \subseteq DOMAIN crm.deal
  <1>1. /\ IsFiniteSet(DOMAIN crm[type]) /\ IsFiniteSet(DOMAIN crm.contact) /\ IsFiniteSet(DOMAIN crm.deal)
        /\ DOMAIN crm.contact \subseteq Nat
    BY DEF CallInv, IsPortal
  <1>2. /\ KeyHits(type) \subseteq DOMAIN crm[type] /\ TextHits(type) \subseteq DOMAIN crm[type]
        /\ NamedSo \subseteq DOMAIN crm.contact /\ NamedHits \subseteq DOMAIN crm.deal
    BY DEF KeyHits, TextHits, Records, NamedSo, NamedHits, OpenDeals
  <1> QED BY <1>1, <1>2, FS_Subset

\* The answer of a search, or the deal it goes on with, has no rival if the search read every hit.
LEMMA AnswersLead ==
  ASSUME RatioIsPercent, CallInv, ~At("idle"), ~At("applied"), GoesOn, call'.job = Job,
         NEW scores, Answers(scores),
         scores = [i \in Searched(TypeAsked(Job)) |-> Fit(TypeAsked(Job), i)]
  PROVE  (Unrivalled /\ Told)'
  <1> DEFINE type == TypeAsked(Job)
  <1>1. type \in {"deal", "company", "contact"} /\ (Job.kind = "deal" => type = "deal")
    BY AskedIs
  <1>2. Decide(scores) = "match" => \A i \in Leaders(scores) : ClearMatch(type, i)
    BY <1>1, RecordLeads
  <1>3. /\ \A t, i : ClearMatch(t, i)' <=> ClearMatch(t, i)
        /\ Job' = Job /\ (ByText' <=> ByText)
    BY RivalsOn DEF GoesOn, Job
  <1>4. CASE /\ call'.pc = "details" /\ Decide(scores) = "match" /\ Job.kind = "deal"
             /\ call'.deal = CHOOSE i \in Leaders(scores) : TRUE
    <2>1. Leaders(scores) # {}
      <3>1. Leaders(scores) = {} => Cardinality(Leaders(scores)) = 0
        BY FS_EmptySet
      <3> QED BY <1>4, <3>1 DEF Decide
    <2>2. call'.deal \in Leaders(scores)
      BY <1>4, <2>1
    <2>3. PICK d : d = call'.deal /\ ClearMatch("deal", d)
      BY <1>1, <1>2, <1>4, <2>2
    <2>4. ClearMatch("deal", d)'
      BY <1>3, <2>3
    <2> QED BY <1>4, <2>3, <2>4 DEF Unrivalled, Told, At
  <1>5. CASE call'.pc = "done" /\ call'.answer = [status |-> Decide(scores), top |-> Leaders(scores)]
    <2>1. call'.answer.status \in {"not_found", "match", "ambiguous"} /\ call'.answer.top = Leaders(scores)
          /\ call'.answer.status = Decide(scores)
      BY <1>5, DecideIs
    <2>2. ASSUME call'.answer.status = "match"
          PROVE  (\E t : t = TypeAsked(Job) /\ \A i \in call.answer.top : ClearMatch(t, i))'
      <3>1. PICK t : t = type
        OBVIOUS
      <3>2. \A i \in call'.answer.top : ClearMatch(t, i)'
        BY <1>2, <1>3, <2>1, <2>2, <3>1
      <3>3. TypeAsked(Job)' = t
        BY <1>3, <3>1
      <3> QED BY <3>2, <3>3
    <2> QED BY <1>5, <2>1, <2>2 DEF Unrivalled, Told, At
  <1> QED BY <1>4, <1>5 DEF Answers

\* From what was known before to what is known after a step that goes on undisturbed.
LEMMA GuessGoes ==
  ASSUME RatioIsPercent, GuessInv, Next, ~Edit, ~Apply, ~Start, GoesOn, Lands, call'.job = Job, ~call'.dirty, ~call'.cut
  PROVE  (Unrivalled /\ Told)'
  <1> USE DEF At
  <1>0. /\ IsCall /\ CallInv /\ Unrivalled /\ call.pc \notin {"idle", "done", "applied"}
        /\ At("find") => HasKey(TypeAsked(Job), Job.q)
    <2>1. call.pc # "applied" /\ call.pc # "done"
      BY Guards DEF Next
    <2>2. call.pc # "idle"
      BY Guards DEF Next
    <2> QED BY <2>1, <2>2 DEF GuessInv, GoesOn, CallInv
  <1>1. /\ \A type, i : ClearMatch(type, i)' <=> ClearMatch(type, i)
        /\ \A type : KeyHits(type)' = KeyHits(type) /\ TextHits(type)' = TextHits(type)
        /\ \A d : NoDealRivals(d)' <=> NoDealRivals(d)
        /\ \A c : NoPersonRivals(c)' <=> NoPersonRivals(c)
        /\ NamedSo' = NamedSo /\ NamedHits' = NamedHits /\ ExactHits' = ExactHits
        /\ Job' = Job /\ (ByText' <=> ByText) /\ crm' = crm /\ MeantCompanies' = MeantCompanies
    BY RivalsOn DEF GoesOn, Job
  <1>2. CASE ById
    <2>1. \/ call'.pc \in {"details", "company"} /\ ~ByText
          \/ call'.pc = "find"
          \/ call'.pc = "findText" /\ ~HasKey(TypeAsked(Job), Job.q)
          \/ call'.pc = "names"
      BY <1>0, <1>2, ByIdGoes DEF FindAt
    <2>2. call'.pc = "findText" => ~HasKey(TypeAsked(Job), Job.q)'
      BY <1>1, <2>1
    <2>3. ~ByText => ~ByText'
      BY <1>1
    <2> HIDE DEF HasKey, TypeAsked
    <2> QED BY <2>1, <2>2, <2>3 DEF Unrivalled, Told
  <1>3. CASE Find
    <2> DEFINE type == TypeAsked(Job)
    <2>1. PICK page \in PageOf(KeyHits(type), CandidateFetch) :
            \/ page = {} /\ call'.pc = "findText"
            \/ /\ page # {} /\ (~call'.cut => ~(Cardinality(KeyHits(type)) > CandidateFetch))
               /\ Answers(IF StrongKey(type, Job.q) THEN [i \in page |-> 100] ELSE Scored(type, page))
      BY <1>0, <1>3, FindGoes
    <2>2. CandidateFetch \in Nat \ {0} /\ IsFiniteSet(KeyHits(type))
      BY <1>0, LookupsAssumption, AskedIs, HitsAreFinite
    <2>3. /\ page = {} => KeyHits(type) = {}
          /\ ~(Cardinality(KeyHits(type)) > CandidateFetch) => page = KeyHits(type)
      BY <2>2, PageIs
    <2>4. CASE page = {} /\ call'.pc = "findText"
      <3>1. KeyHits(type) = {}
        BY <2>3, <2>4
      <3>2. (KeyHits(TypeAsked(Job)) = {})'
        <4>1. PICK t : t = type
          OBVIOUS
        <4>2. KeyHits(t)' = {} /\ TypeAsked(Job)' = t
          BY <1>1, <3>1, <4>1
        <4> QED BY <4>2 DEF KeyHits, Records
      <3> QED BY <2>4, <3>2 DEF Unrivalled, Told
    <2>5. CASE page # {} /\ Answers(IF StrongKey(type, Job.q) THEN [i \in page |-> 100] ELSE Scored(type, page))
      <3>1. page = KeyHits(type)
        BY <2>1, <2>3, <2>5 DEF Answers
      <3>2. Searched(type) = page
        BY <1>0, <1>3, <2>5, <3>1, Guards DEF Searched
      <3> DEFINE scores == IF StrongKey(type, Job.q) THEN [i \in page |-> 100] ELSE Scored(type, page)
      <3>3. scores = [i \in Searched(type) |-> Fit(type, i)]
        <4> HIDE DEF type, StrongKey
        <4> QED BY <2>5, <3>1, <3>2 DEF Fit, Scored
      <3>4. Answers(scores)
        BY <2>5
      <3> HIDE DEF scores
      <3> QED BY <1>0, <3>3, <3>4, AnswersLead
    <2> QED BY <2>1, <2>4, <2>5
  <1>4. CASE FindText
    <2> DEFINE type == TypeAsked(Job)
    <2>1. PICK page \in PageOf(TextHits(type), CandidateFetch) : Answers(Scored(type, page))
      BY <1>0, <1>4, FindTextGoes
    <2>2. ~(Cardinality(TextHits(type)) > CandidateFetch)
      BY <1>0, <1>4, FindTextGoes
    <2>3. CandidateFetch \in Nat \ {0} /\ IsFiniteSet(TextHits(type))
      BY <1>0, LookupsAssumption, AskedIs, HitsAreFinite
    <2>4. page = TextHits(type)
      BY <2>2, <2>3, PageIs
    <2>5. HasKey(type, Job.q) => KeyHits(type) = {}
      BY <1>0, <1>4, Guards DEF Unrivalled
    <2>6. Searched(type) = page /\ ~(StrongKey(type, Job.q) /\ KeyHits(type) # {})
      BY <1>0, <2>4, <2>5, AskedIs DEF Searched
    <2> DEFINE scores == Scored(type, page)
    <2>7. scores = [i \in Searched(type) |-> Fit(type, i)]
      <3> HIDE DEF type, StrongKey
      <3> QED BY <2>6 DEF Fit, Scored
    <2>8. Answers(scores)
      BY <2>1
    <2> HIDE DEF scores
    <2> QED BY <1>0, <2>7, <2>8, AnswersLead
  <1>5. CASE Details
    <2>1. call'.pc = "done" /\ call'.answer.status = "found" /\ call'.answer.deal = call.deal
      BY <1>0, <1>5, DetailsGoes
    <2>2. ASSUME ByText'
          PROVE  \E d : d = call'.answer.deal /\ ClearMatch("deal", d)'
      <3>1. PICK d : d = call.deal /\ ClearMatch("deal", d)
        BY <1>0, <1>1, <1>5, <2>2, Guards DEF Unrivalled
      <3> QED BY <1>1, <2>1, <3>1
    <2> QED BY <2>1, <2>2 DEF Unrivalled, Told
  <1>6. CASE SearchPerson
    <2>1. CASE call'.pc = "done" /\ call'.answer.status = "not_found"
      BY <2>1 DEF Unrivalled, Told
    <2>2. CASE call'.pc = "searchText" /\ NamedSo = {}
      BY <1>1, <2>2 DEF Unrivalled, Told
    <2>3. CASE /\ call'.pc = "companiesOf"
               /\ \E hits \in {NamedSo, TextHits("contact")} :
                    /\ hits = NamedSo \/ At("searchText")
                    /\ ~call'.cut => ~(Cardinality(hits) > MaxNameMatches)
                    /\ call'.people = Of("contact", Lowest(hits, MaxNameMatches))
      <3>1. NamedSo = {} \/ call'.people = Of("contact", NamedSo)
        <4>1. SUFFICES ASSUME NamedSo # {}
                       PROVE  call'.people = Of("contact", NamedSo)
          OBVIOUS
        <4>2. ~At("searchText")
          BY <1>0, <4>1 DEF Unrivalled
        <4>3. /\ ~(Cardinality(NamedSo) > MaxNameMatches)
              /\ call'.people = Of("contact", Lowest(NamedSo, MaxNameMatches))
          BY <2>3, <4>2
        <4>4. MaxNameMatches \in Nat /\ IsFiniteSet(NamedSo) /\ NamedSo \subseteq Nat
          BY <1>0, LookupsAssumption, HitsAreFinite
        <4>5. Lowest(NamedSo, MaxNameMatches) = NamedSo
          BY <4>3, <4>4, LowestIs
        <4> QED BY <4>3, <4>5
      <3>2. Of("contact", NamedSo)' = Of("contact", NamedSo)
        BY <1>1 DEF Of, Records
      <3> QED BY <1>1, <2>3, <3>1, <3>2 DEF Unrivalled, Told
    <2> QED BY <1>0, <1>6, <2>1, <2>2, <2>3, SearchPersonGoes
  <1>7. CASE CompaniesOf
    <2> DEFINE linked == [i \in DOMAIN call.people |-> Linked(i, DOMAIN crm.company)]
               companiesOf == [i \in DOMAIN linked |-> {crm.company[k] : k \in linked[i]}]
               chosen == Persons(Job.q, Job.company, call.people, companiesOf)
    <2>1. \/ call'.pc = "done" /\ call'.answer.status \in {"not_found", "ambiguous"}
          \/ call'.pc = "links" /\ call'.person \in chosen /\ ~(Cardinality(chosen) > 1)
      BY <1>0, <1>7, CompaniesOfGoes
    <2>2. CASE call'.pc = "done" /\ call'.answer.status \in {"not_found", "ambiguous"}
      BY <2>2 DEF Unrivalled, Told
    <2>3. CASE call'.pc = "links" /\ call'.person \in chosen /\ ~(Cardinality(chosen) > 1)
      <3>1. PICK c \in chosen : c = call'.person
        BY <2>3
      <3>2. CASE NamedSo = {}
        <4>1. NoPersonRivals(c)
          BY <3>2 DEF NoPersonRivals, NamedSo
        <4> QED BY <1>1, <2>3, <3>1, <4>1 DEF Unrivalled, Told
      <3>3. CASE NamedSo # {}
        <4>1. call.people = Of("contact", NamedSo)
          BY <1>0, <1>7, <3>3, Guards DEF Unrivalled
        <4>2. IsFiniteSet(NamedSo) /\ NamedSo \subseteq DOMAIN crm.contact
          BY <1>0, HitsAreFinite
        <4>3. DOMAIN call.people = NamedSo /\ \A i \in NamedSo : call.people[i] = crm.contact[i]
          BY <4>1, <4>2, OfIs
        <4>4. \A i \in NamedSo : companiesOf[i] = {crm.company[k] : k \in Linked(i, DOMAIN crm.company)}
          BY <4>3
        <4> HIDE DEF companiesOf
        <4>5. c \in NamedSo /\ \A j \in NamedSo \ {c} :
                NameCovers(Job.q, call.people[j]) =>
                  \/ FullName(call.people[c]) = Job.q.text /\ FullName(call.people[j]) # Job.q.text
                  \/ /\ Job.company # None
                     /\ RankOf(Job.company, call.people, companiesOf, j) < RankOf(Job.company, call.people, companiesOf, c)
          BY <2>3, <4>2, <4>3, PersonLeads
        <4> DEFINE rank(i) == CompanyRank(Job.company, crm.contact[i], {crm.company[k] : k \in Linked(i, DOMAIN crm.company)})
        <4>6. \A i \in NamedSo : RankOf(Job.company, call.people, companiesOf, i) = rank(i)
          <5> HIDE DEF CompanyRank
          <5> QED BY <4>3, <4>4 DEF RankOf
        <4>7. NoPersonRivals(c)
          <5> HIDE DEF NameCovers, FullName, NameMatches, rank
          <5>1. ASSUME NEW j \in DOMAIN crm.contact \ {c}, NameMatches(Job.q, crm.contact[j]), NameCovers(Job.q, crm.contact[j])
                PROVE  \/ FullName(crm.contact[c]) = Job.q.text /\ FullName(crm.contact[j]) # Job.q.text
                       \/ Job.company # None /\ rank(j) < rank(c)
            <6>1. j \in NamedSo \ {c}
              BY <5>1 DEF NamedSo
            <6> QED BY <4>3, <4>5, <4>6, <5>1, <6>1
          <5> QED BY <5>1 DEF NoPersonRivals, rank
        <4> QED BY <1>1, <2>3, <3>1, <4>7 DEF Unrivalled, Told
      <3> QED BY <3>2, <3>3
    <2> QED BY <2>1, <2>2, <2>3
  <1>8. CASE BriefLinks \/ BriefDeals \/ Engagements \/ NeverContacted
    <2>1. \/ call'.pc \in {"deals", "engagements", "never"} /\ call'.person = call.person
          \/ call'.pc = "done" /\ call'.answer.status = "ok" /\ call'.answer.person = call.person
      BY <1>0, <1>8, BriefGoes
    <2>2. PICK c : c = call.person /\ NoPersonRivals(c)
      BY <1>0, <1>8, Guards DEF Unrivalled
    <2>3. NoPersonRivals(c)'
      BY <1>1, <2>2
    <2> QED BY <2>1, <2>2, <2>3 DEF Unrivalled, Told
  <1>9. CASE Names
    <2>1. PICK page \in PageOf(NamedHits, DealFetch) :
            LET exact == {d \in page : crm.deal[d].name = Job.q.text} IN
            \/ Cardinality(exact) = 1 /\ call'.pc = "company" /\ call'.deal = CHOOSE d \in exact : TRUE
            \/ /\ Cardinality(exact) # 1 /\ call'.pc = "companies"
               /\ call'.named = Of("deal", IF exact # {} THEN exact ELSE page)
      BY <1>0, <1>9, NamesGoes, Guards DEF NamedHits, CallInv
    <2>2. ~(Cardinality(NamedHits) > DealFetch)
      BY <1>0, <1>9, NamesGoes DEF NamedHits
    <2>3. DealFetch \in Nat \ {0} /\ IsFiniteSet(NamedHits) /\ NamedHits \subseteq DOMAIN crm.deal
      BY <1>0, LookupsAssumption, HitsAreFinite
    <2>4. page = NamedHits
      BY <2>2, <2>3, PageIs
    <2>5. {d \in page : crm.deal[d].name = Job.q.text} = ExactHits
      BY <2>4 DEF ExactHits
    <2>6. CASE Cardinality(ExactHits) = 1 /\ call'.pc = "company" /\ call'.deal = CHOOSE d \in ExactHits : TRUE
      <3>1. IsFiniteSet(ExactHits)
        BY <2>3, FS_Subset DEF ExactHits
      <3>2. PICK d : ExactHits = {d}
        BY <2>6, <3>1, FS_Singleton
      <3>3. d = call'.deal /\ NoDealRivals(d)
        BY <1>0, <2>6, <3>2, ExactDealLeads
      <3> QED BY <1>1, <2>6, <3>3 DEF Unrivalled, Told
    <2>7. CASE /\ Cardinality(ExactHits) # 1 /\ call'.pc = "companies"
               /\ call'.named = Of("deal", IF ExactHits # {} THEN ExactHits ELSE NamedHits)
      <3>1. ExactHits \subseteq DOMAIN crm.deal
        BY <2>3 DEF ExactHits
      <3>2. DOMAIN call'.named = IF ExactHits # {} THEN ExactHits ELSE NamedHits
        BY <2>3, <2>7, <3>1, OfIs
      <3>3. DealsNamed'
        BY <1>1, <2>7, <3>2 DEF DealsNamed
      <3> QED BY <2>7, <3>3 DEF Unrivalled, Told
    <2> QED BY <2>1, <2>4, <2>5, <2>6, <2>7
  <1>10. CASE Companies
    <2> DEFINE hits == TextHits("company")
    <2>1. /\ call'.pc = "open" /\ call'.named = call.named /\ ~(Cardinality(hits) > CompanyFetch)
      BY <1>0, <1>10, CompaniesGoes
    <2>2. PICK page \in PageOf(hits, CompanyFetch) :
            /\ call'.chosen \in ChosenCompanies(Job.q.text, Of("company", page))
            /\ ~SomeDropped(Job.q.text, Of("company", page), call'.chosen)
      BY <1>0, <1>10, CompaniesGoes
    <2>3. CompanyFetch \in Nat \ {0} /\ IsFiniteSet(hits) /\ hits \subseteq DOMAIN crm.company
      BY <1>0, LookupsAssumption, HitsAreFinite DEF TextHits, Records
    <2>4. page = hits
      BY <2>1, <2>3, PageIs
    <2> DEFINE companies == Of("company", hits)
    <2>5. DOMAIN companies = hits /\ \A k \in hits : companies[k] = crm.company[k]
      BY <2>3, OfIs
    <2> HIDE DEF companies
    <2>6. ASSUME NEW k \in DOMAIN crm.company, Bears(Job.q.text, crm.company[k])
          PROVE  k \in hits
      <3>1. TextMatches("company", Job.q, crm.company[k])
        BY <1>0, <2>6, JobIs, TextFindsItself
      <3> QED BY <3>1 DEF TextHits, Records
    <2> DEFINE exact == {k \in DOMAIN crm.company : Bears(Job.q.text, crm.company[k])}
    <2> HIDE DEF hits
    <2>7. MeantCompanies \subseteq call'.chosen
      <3> HIDE DEF Bears
      <3>1. Bearing(Job.q.text, companies) = exact
        BY <2>3, <2>5, <2>6 DEF Bearing
      <3>2. call'.chosen \in ChosenCompanies(Job.q.text, companies) /\ ~SomeDropped(Job.q.text, companies, call'.chosen)
        BY <2>2, <2>4 DEF companies
      <3>3. CASE exact # {}
        BY <3>1, <3>2, <3>3 DEF ChosenCompanies, MeantCompanies
      <3>4. CASE exact = {}
        BY <2>5, <3>1, <3>2, <3>4 DEF SomeDropped, MeantCompanies, hits
      <3> QED BY <3>3, <3>4
    <2>9. CompaniesChosen'
      BY <1>1, <2>7 DEF CompaniesChosen
    <2>8. DealsNamed'
      BY <1>0, <1>1, <1>10, <2>1, Guards DEF Unrivalled, DealsNamed
    <2> QED BY <2>1, <2>8, <2>9 DEF Unrivalled, Told
  <1>11. CASE OnlyDeal
    <2> DEFINE candidates == DOMAIN call.named \cup (UNION {Linked(k, OpenDeals) : k \in call.chosen})
    <2>1. \/ call'.pc = "done" /\ call'.answer.status \in {"error", "ambiguous"}
          \/ call'.pc = "company" /\ call'.deal \in candidates /\ ~(Cardinality(candidates) > 1)
      BY <1>0, <1>11, OnlyDealGoes
    <2>2. CASE call'.pc = "done" /\ call'.answer.status \in {"error", "ambiguous"}
      BY <2>2 DEF Unrivalled, Told
    <2>3. CASE call'.pc = "company" /\ call'.deal \in candidates /\ ~(Cardinality(candidates) > 1)
      <3>1. DealsNamed /\ CompaniesChosen
        BY <1>0, <1>11, Guards DEF Unrivalled
      <3>2. IsFiniteSet(candidates)
        <4>1. IsFiniteSet(DOMAIN crm.deal) /\ NamedHits \subseteq DOMAIN crm.deal
          BY <1>0, HitsAreFinite DEF CallInv, IsPortal
        <4>2. DOMAIN call.named \subseteq DOMAIN crm.deal
          BY <3>1, <4>1 DEF DealsNamed, ExactHits
        <4>3. \A k : Linked(k, OpenDeals) \subseteq DOMAIN crm.deal
          BY DEF Linked, OpenDeals
        <4>4. candidates \subseteq DOMAIN crm.deal
          BY <4>2, <4>3
        <4> QED BY <4>1, <4>4, FS_Subset
      <3>3. PICK d : d = call'.deal
        OBVIOUS
      <3>4. candidates = {d}
        <4> HIDE DEF candidates
        <4> QED BY <2>3, <3>2, <3>3, OnlyOne
      <3>5. NoDealRivals(d)
        BY <1>0, <3>1, <3>4, OnlyDealLeads
      <3> QED BY <1>1, <2>3, <3>3, <3>5 DEF Unrivalled, Told
    <2> QED BY <2>1, <2>2, <2>3
  <1>12. CASE ReadCompany \/ ReadContacts \/ ReadStaff \/ ReadPerson
    <2>1. call'.pc \in {"contacts", "staff", "people"} /\ call'.deal = call.deal
      BY <1>0, <1>12, ReadsGo
    <2>2. ASSUME ByText'
          PROVE  \E d : d = call'.deal /\ NoDealRivals(d)'
      <3>1. PICK d : d = call.deal /\ NoDealRivals(d)
        BY <1>0, <1>1, <1>12, <2>2, Guards DEF Unrivalled
      <3> QED BY <1>1, <2>1, <3>1
    <2> QED BY <2>1, <2>2 DEF Unrivalled, Told
  <1>13. CASE Propose
    <2>1. call'.pc = "done" /\ call'.answer.status = "preview" /\ call'.answer.deal = call.deal
      BY <1>0, <1>13, ProposeGoes
    <2>2. ASSUME ByText'
          PROVE  \E d : d = call'.answer.deal /\ NoDealRivals(d)'
      <3>1. PICK d : d = call.deal /\ NoDealRivals(d)
        BY <1>0, <1>1, <1>13, <2>2, Guards DEF Unrivalled
      <3> QED BY <1>1, <2>1, <3>1
    <2> QED BY <2>1, <2>2 DEF Unrivalled, Told
  <1> QED BY <1>2, <1>3, <1>4, <1>5, <1>6, <1>7, <1>8, <1>9, <1>10, <1>11, <1>12, <1>13 DEF Next

LEMMA GuessStep ==
  ASSUME RatioIsPercent, GuessInv, [Next]_vars
  PROVE  GuessInv'
  <1> USE DEF At
  <1>1. CallInv'
    BY CallStep DEF GuessInv
  <1>2. CASE UNCHANGED vars
    <2>1. crm' = crm /\ call' = call
      BY <1>2 DEF vars
    <2>2. /\ \A type, i : ClearMatch(type, i)' <=> ClearMatch(type, i)
          /\ \A type : KeyHits(type)' = KeyHits(type) /\ TextHits(type)' = TextHits(type)
          /\ \A d : NoDealRivals(d)' <=> NoDealRivals(d)
          /\ \A c : NoPersonRivals(c)' <=> NoPersonRivals(c)
          /\ NamedSo' = NamedSo /\ NamedHits' = NamedHits /\ ExactHits' = ExactHits
          /\ Job' = Job /\ (ByText' <=> ByText) /\ MeantCompanies' = MeantCompanies
      BY <2>1, RivalsOn
    <2>3. Unrivalled => Unrivalled'
      BY <2>1, <2>2 DEF Unrivalled, DealsNamed, CompaniesChosen, Of, Records
    <2>4. Told => Told'
      BY <2>1, <2>2 DEF Told
    <2> QED BY <1>1, <2>1, <2>2, <2>3, <2>4 DEF GuessInv
  <1>3. CASE Edit
    <2>1. /\ call'.pc = call.pc /\ call'.job = call.job /\ (call.pc = "idle" \/ call'.dirty)
      BY <1>3, EditGoes DEF GuessInv, CallInv, Fields
    <2> QED BY <1>1, <2>1 DEF GuessInv, Unrivalled, Told, Job
  <1>4. CASE call'.pc \in AppliesTo
    BY <1>1, <1>4 DEF GuessInv, Unrivalled, Told, AppliesTo
  <1>5. CASE Start
    <2>1. /\ call'.pc \in {"done", "find", "findText", "byId", "names", "search"}
          /\ call'.pc = "done" => call'.answer.status = "error"
          /\ call'.pc = "find" <=> call'.pc \in {"find", "findText"} /\ HasKey(TypeAsked(call'.job), call'.job.q)
      BY <1>5, StartGoes DEF GuessInv, CallInv
    <2> HIDE DEF HasKey, TypeAsked
    <2> QED BY <1>1, <2>1 DEF GuessInv, Unrivalled, Told, Job
  <1>6. CASE Next /\ ~Edit /\ ~Apply /\ ~Start /\ GoesOn /\ Lands /\ call'.job = Job
    <2>1. call'.pc = "find" => HasKey(TypeAsked(Job), Job.q)'
      <3>1. ASSUME call'.pc = "find"
            PROVE  HasKey(TypeAsked(Job), Job.q)
        <4>1. ById
          BY <1>6, <3>1 DEF Lands
        <4> QED BY <3>1, <4>1, ByIdGoes DEF GuessInv, CallInv, FindAt
      <3>2. Job' = Job
        BY <1>6 DEF Job
      <3> QED BY <3>1, <3>2
    <2>2. ~call'.dirty /\ ~call'.cut => (Unrivalled /\ Told)'
      BY <1>6, GuessGoes
    <2> QED BY <1>1, <2>1, <2>2 DEF GuessInv
  <1>7. CASE Apply
    BY <1>4, <1>7, ApplyGoes DEF GuessInv, CallInv
  <1> QED BY <1>2, <1>3, <1>4, <1>5, <1>6, <1>7, StepIs DEF GuessInv, CallInv

LEMMA GuessKeeps ==
  ASSUME GuessInv
  PROVE  NeverGuesses
  <1> SUFFICES ASSUME Undisturbed
               PROVE  /\ call.answer.status = "match" => \A i \in call.answer.top : ClearMatch(TypeAsked(Job), i)
                      /\ call.answer.status = "found" /\ ByText => ClearMatch("deal", call.answer.deal)
                      /\ call.answer.status = "preview" /\ ByText => NoDealRivals(call.answer.deal)
                      /\ call.answer.status = "ok" => NoPersonRivals(call.answer.person)
    BY DEF NeverGuesses
  <1> QED BY DEF GuessInv, Told, Undisturbed

\* Two equally good records are never guessed between (support.py _decide, account_brief, log_meeting
\* resolve_deal), whatever measures the similarity of texts as a percentage.
THEOREM LookupsNeverGuess == ASSUME RatioIsPercent PROVE Spec => []NeverGuesses
  BY GuessInit, GuessStep, GuessKeeps, PTL DEF Spec
=============================================================================
