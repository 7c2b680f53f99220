--------------------------- MODULE IntentLookups ----------------------------
(***************************************************************************)
(* The intent tools that act on one record, from the words of the user to the  *)
(* answer: resolve_record, get_deal, account_brief and log_meeting_outcome.     *)
(* A step is one question put to HubSpot, reads that are gathered or that only   *)
(* follow links being one; other users edit the portal between any two.  A       *)
(* logged meeting ends in a changeset, which the user may apply: apply reads     *)
(* the deal again, leaves it alone when it no longer holds what was read, and     *)
(* otherwise writes it blindly a few steps later.  Of the changeset, only the      *)
(* update of the deal is applied here; Changeset has the rest.                     *)
(*                                                                           *)
(* A page of a search that was not sorted may hold any of its hits.             *)
(***************************************************************************)
EXTENDS RecordSearch

CONSTANTS
  Portals,             \* what HubSpot may hold: [deal, company, contact, links, primary, engaged]
  EditsOf(_),          \* portal -> what one edit by somebody else may leave
  MaxEdits,
  Jobs,
  CandidateFetch, DealFetch, CompanyFetch, MaxNameMatches, MaxCompanyContacts,
  Home, DefaultOwner   \* of the sales rules

\* What HubSpot holds: each record has a number, and links are between records.
IsPortal(p) ==
  /\ \A ids \in {DOMAIN p.deal, DOMAIN p.company, DOMAIN p.contact} : IsFiniteSet(ids) /\ ids \subseteq Nat
  /\ p.links \subseteq Nat \X Nat
\* An empty query is refused at once.
ASSUME LookupsAssumption ==
  /\ None \notin Nat /\ \A p \in Portals : IsPortal(p)
  /\ \A n \in {CandidateFetch, DealFetch, CompanyFetch, MaxNameMatches, MaxCompanyContacts} : n \in Nat \ {0}
  /\ \A job \in Jobs : /\ job.kind \in {"record", "deal", "person", "meeting"} /\ job.type \in {"deal", "company", "contact"}
                       /\ job.q.text # <<>> /\ job.q.text \in Seq(Words(job.q.text))
                       /\ job.people \in Seq(ToSet(job.people))

VARIABLES crm, call, edits
vars == <<crm, call, edits>>

Failed == [status |-> "error"]
Idle == [pc |-> "idle", job |-> None, dirty |-> FALSE, cut |-> FALSE, answer |-> None,
         deal |-> None, read |-> None, person |-> None, company |-> None, contact |-> None, people |-> <<>>,
         others |-> {}, deals |-> {}, touched |-> {}, named |-> <<>>, chosen |-> {}, dealContacts |-> {},
         staff |-> <<>>, ops |-> <<>>, checked |-> None]
Init == crm \in Portals /\ call = Idle /\ edits = 0

At(pc) == call.pc = pc
Becomes(k) == call' = k /\ UNCHANGED <<crm, edits>>
Goes(pc) == Becomes([call EXCEPT !.pc = pc])
Ends(answer) == Becomes([call EXCEPT !.pc = "done", !.answer = answer])
Job == call.job
Records(type) == crm[type]
Linked(a, ids) == {b \in ids : <<a, b>> \in crm.links \/ <<b, a>> \in crm.links}
Of(type, ids) == [i \in ids \cap DOMAIN Records(type) |-> Records(type)[i]]

\* One page of the hits of a search, and the call once it has read it: it may leave some out.
PageOf(hits, n) == kSubset(Min({n, Cardinality(hits)}), hits)
Reads(hits, n) == [call EXCEPT !.cut = @ \/ Cardinality(hits) > n]

TypeAsked(job) == IF job.kind = "record" THEN job.type ELSE "deal"
FindAt(job) == IF HasKey(TypeAsked(job), job.q) THEN "find" ELSE "findText"
Start ==
  /\ At("idle")
  /\ \E job \in Jobs :
       IF job.kind = "meeting" /\ ~InputsAreSound(job)
       THEN Becomes([call EXCEPT !.job = job, !.pc = "done", !.answer = Failed])
       ELSE Becomes([call EXCEPT !.job = job,
                       !.pc = CASE job.kind = "record" -> FindAt(job)
                                [] job.kind \in {"deal", "meeting"} ->
                                     IF job.q.digits # None THEN "byId"
                                     ELSE IF job.kind = "deal" THEN FindAt(job) ELSE "names"
                                [] job.kind = "person" -> "search"])

\* The deal a call goes on with, as it was read, open or closed.
Take(k, d) ==
  [k EXCEPT !.deal = d, !.read = crm.deal[d], !.pc = IF k.job.kind = "deal" THEN "details" ELSE "company"]
ById ==
  /\ At("byId")
  /\ IF Job.q.digits \in DOMAIN crm.deal THEN Becomes(Take(call, Job.q.digits))
     ELSE Goes(IF Job.kind = "deal" THEN FindAt(Job) ELSE "names")

-----------------------------------------------------------------------------
\* resolve_record, get_deal

Found(k, scores) ==
  IF k.job.kind = "deal" /\ Decide(scores) = "match" THEN Take(k, CHOOSE i \in Leaders(scores) : TRUE)
  ELSE [k EXCEPT !.pc = "done", !.answer = [status |-> Decide(scores), top |-> Leaders(scores)]]
Scored(type, page) == [i \in page |-> Score(type, Job.q, Records(type)[i])]

\* The records that hold the key, and those that hold a word.
KeyHits(type) == {i \in DOMAIN Records(type) : KeyMatches(type, Job.q, Records(type)[i])}
TextHits(type) == {i \in DOMAIN Records(type) : TextMatches(type, Job.q, Records(type)[i])}
Find ==
  LET type == TypeAsked(Job)
      hits == KeyHits(type)
  IN /\ At("find")
     /\ \E page \in PageOf(hits, CandidateFetch) :
          IF page = {} THEN Goes("findText")
          ELSE Becomes(Found(Reads(hits, CandidateFetch),
                             IF StrongKey(type, Job.q) THEN [i \in page |-> 100] ELSE Scored(type, page)))
FindText ==
  LET type == TypeAsked(Job)
      hits == TextHits(type)
  IN /\ At("findText")
     /\ \E page \in PageOf(hits, CandidateFetch) : Becomes(Found(Reads(hits, CandidateFetch), Scored(type, page)))

Details ==
  /\ At("details")
  /\ Ends([status |-> "found", deal |-> call.deal, contacts |-> Linked(call.deal, DOMAIN crm.contact),
           companies |-> Linked(call.deal, DOMAIN crm.company)])

-----------------------------------------------------------------------------
\* account_brief

Lowest(hits, n) == {i \in hits : Cardinality({j \in hits : j < i}) < n}
NamedSo == {i \in DOMAIN crm.contact : NameMatches(Job.q, crm.contact[i])}
\* Sorted by id: the page is the lowest.
Meet(hits) ==
  Becomes([Reads(hits, MaxNameMatches) EXCEPT !.pc = "companiesOf", !.people = Of("contact", Lowest(hits, MaxNameMatches))])
SearchPerson ==
  \/ /\ At("search")
     /\ IF NamedSo # {} THEN Meet(NamedSo)
        ELSE IF Job.q.email = None THEN Goes("searchText") ELSE Ends([status |-> "not_found"])
  \/ /\ At("searchText")
     /\ IF TextHits("contact") # {} THEN Meet(TextHits("contact")) ELSE Ends([status |-> "not_found"])

\* Whom to brief: the companies tell people of one name apart.  Their own company is the one their record names.
OwnCompany(c, linked) ==
  IF linked = {} THEN {None} ELSE IF c.main \in linked THEN {c.main} ELSE linked
CompaniesOf ==
  LET linked == [i \in DOMAIN call.people |-> Linked(i, DOMAIN crm.company)]
      chosen == Persons(Job.q, Job.company, call.people, [i \in DOMAIN linked |-> {crm.company[k] : k \in linked[i]}])
  IN /\ At("companiesOf")
     /\ IF chosen = {} THEN Ends([status |-> "not_found"])
        ELSE IF Cardinality(chosen) > 1 THEN Ends([status |-> "ambiguous"])
        ELSE \E c \in chosen : \E k \in OwnCompany(call.people[c], linked[c]) :
               Becomes([call EXCEPT !.pc = "links", !.person = c, !.company = k])

\* The deals of the person and of the company, and the other people there.
BriefLinks ==
  /\ At("links")
  /\ \E others \in PageOf(Linked(call.company, DOMAIN crm.contact \ {call.person}), MaxCompanyContacts - 1) :
       Becomes([call EXCEPT !.pc = "deals", !.others = others,
                  !.deals = Linked(call.person, DOMAIN crm.deal) \cup Linked(call.company, DOMAIN crm.deal)])
BriefDeals ==
  /\ At("deals")
  /\ Becomes([call EXCEPT !.pc = "engagements", !.deals = {d \in @ \cap DOMAIN crm.deal : crm.deal[d].open}])
Engagements == At("engagements") /\ Becomes([call EXCEPT !.pc = "never", !.touched = crm.engaged])
\* Mutant: only what is linked counts.
Unlinked(c) == c \notin call.touched
\* No engagement linked when they were read, and none since: HubSpot dates the last contact itself.
Untouched(c) == c \notin call.touched /\ ~crm.contact[c].contacted
NeverContacted ==
  /\ At("never")
  /\ Ends([status |-> "ok", person |-> call.person, deals |-> call.deals,
           never |-> {c \in call.others \cap DOMAIN crm.contact : Untouched(c)}])

-----------------------------------------------------------------------------
\* log_meeting_outcome

OpenDeals == {d \in DOMAIN crm.deal : crm.deal[d].open}
Names ==
  LET hits == {d \in OpenDeals : TextMatches("deal", Job.q, crm.deal[d])}
  IN /\ At("names")
     /\ \E page \in PageOf(hits, DealFetch) :
          LET exact == {d \in page : crm.deal[d].name = Job.q.text}
          IN IF Cardinality(exact) = 1 THEN Becomes(Take(Reads(hits, DealFetch), CHOOSE d \in exact : TRUE))
             ELSE Becomes([Reads(hits, DealFetch) EXCEPT !.pc = "companies",
                             !.named = Of("deal", IF exact # {} THEN exact ELSE page)])
Companies ==
  LET hits == TextHits("company")
  IN /\ At("companies")
     /\ \E page \in PageOf(hits, CompanyFetch) : \E chosen \in ChosenCompanies(Job.q.text, Of("company", page)) :
          Becomes([Reads(hits, CompanyFetch) EXCEPT !.pc = "open", !.chosen = chosen,
                     !.cut = @ \/ SomeDropped(Job.q.text, Of("company", page), chosen)])

\* The open deals of those companies join the ones found by name, which are not read again.
OnlyDeal ==
  LET named == DOMAIN call.named
      candidates == named \cup UNION {Linked(k, OpenDeals) : k \in call.chosen}
  IN /\ At("open")
     /\ IF candidates = {} THEN Ends(Failed)
        ELSE IF Cardinality(candidates) > 1 THEN Ends([status |-> "ambiguous"])
        ELSE \E d \in candidates :
               Becomes([call EXCEPT !.pc = "company", !.deal = d,
                                    !.read = IF d \in named THEN call.named[d] ELSE crm.deal[d]])

ReadCompany ==
  LET primary == {k \in DOMAIN crm.company : <<call.deal, k>> \in crm.primary}
  IN /\ At("company")
     /\ Becomes([call EXCEPT !.pc = "contacts", !.company = DealCompany(Linked(call.deal, DOMAIN crm.company), primary)])
ReadContacts ==
  LET linked == Linked(call.deal, DOMAIN crm.contact)
  IN At("contacts") /\ Becomes([call EXCEPT !.pc = "staff", !.dealContacts = linked, !.contact = OnlyContact(linked)])
ReadStaff ==
  /\ At("staff")
  /\ Becomes([call EXCEPT !.pc = "people",
                !.staff = IF call.company = None \/ Job.people = <<>> THEN <<>>
                          ELSE Of("contact", Linked(call.company, DOMAIN crm.contact))])

\* A person met: searched by address anywhere, else known by name at the company, else created.
NextPerson == Job.people[Len(call.ops) + 1]
Attendees(to) == IF to = call.deal THEN call.dealContacts ELSE DOMAIN call.staff
LinksFor(who) == {to \in {call.deal, call.company} \ {None} : who \notin Attendees(to)}
ByEmail(p) == {c \in DOMAIN crm.contact : p.email # None /\ crm.contact[c].email = p.email}
ContactOp(p, who) ==
  IF who = None THEN [op |-> "create", person |-> p, to |-> {call.deal, call.company} \ {None}]
  ELSE [op |-> "link", person |-> who, to |-> LinksFor(who)]
ReadPerson ==
  /\ At("people") /\ Len(call.ops) < Len(Job.people)
  /\ \E who \in Existing(NextPerson, ByEmail(NextPerson), call.staff) :
       Becomes([call EXCEPT !.ops = Append(@, ContactOp(NextPerson, who))])

\* Mutant: the original values are read when the changeset is made.
OriginalNow(fields) == [f \in fields |-> crm.deal[call.deal][f]]
\* What the deal was read to hold goes with the changeset, for the preview, for apply and for undo.
Original(fields) == [f \in fields |-> call.read[f]]
\* The owner the rules name, or of the deal when there is none or HubSpot does not know that one.
EngagementOwners == {call.read.owner} \cup ({DefaultOwner} \ {None})
Propose ==
  LET fields == ChangedFields(call.read, Job, Home)
  IN /\ At("people") /\ Len(call.ops) = Len(Job.people)
     /\ \E owner \in EngagementOwners :
          Ends([status |-> "preview", deal |-> call.deal, update |-> [f \in fields |-> Job[f]],
                original |-> Original(fields), company |-> call.company, contact |-> call.contact,
                owner |-> owner, ops |-> call.ops])

-----------------------------------------------------------------------------
\* pronova_apply_changes, for the update of the deal of a meeting

Preview == call.answer
CheckDrift ==
  /\ call.pc \in {"done", "pending"} /\ Job.kind = "meeting" /\ Preview.status = "preview"
  /\ Becomes([call EXCEPT !.pc = "checked",
                !.checked = IF Preview.deal \in DOMAIN crm.deal THEN crm.deal[Preview.deal] ELSE None])

\* What the check found: a deal that is gone, is as proposed already, or drifted is left alone.
Checked(fields) == call.checked # None /\ \A f \in DOMAIN fields : call.checked[f] = fields[f]
Writable == Checked(Preview.original) /\ ~Checked(Preview.update)

\* The status or the snapshot could not be stored: nothing was written, and apply may be called again.
Release == At("checked") /\ Becomes([call EXCEPT !.pc = "pending", !.checked = None])
\* The update goes out, and HubSpot takes it or does not.
Write ==
  /\ At("checked") /\ call' = [call EXCEPT !.pc = "applied"] /\ UNCHANGED edits
  /\ \/ UNCHANGED crm
     \/ /\ Writable /\ Preview.deal \in DOMAIN crm.deal
        /\ crm' = [crm EXCEPT !.deal[Preview.deal] =
                     [f \in DOMAIN @ |-> IF f \in DOMAIN Preview.update THEN Preview.update[f] ELSE @[f]]]
Apply == CheckDrift \/ Release \/ Write

\* HubSpot dates the last contact of whom an engagement is logged with, and does not forget it.
Dates(before, after) ==
  \A c \in after.engaged : (c \in before.engaged => before.contact[c].contacted) => after.contact[c].contacted
Edit ==
  /\ edits < MaxEdits /\ edits' = edits + 1
  /\ \E after \in EditsOf(crm) \ {crm} : IsPortal(after) /\ Dates(crm, after) /\ crm' = after
  /\ call' = [call EXCEPT !.dirty = @ \/ call.pc # "idle"]

Next ==
  \/ Start \/ ById \/ Find \/ FindText \/ Details
  \/ SearchPerson \/ CompaniesOf \/ BriefLinks \/ BriefDeals \/ Engagements \/ NeverContacted
  \/ Names \/ Companies \/ OnlyDeal \/ ReadCompany \/ ReadContacts \/ ReadStaff \/ ReadPerson \/ Propose \/ Apply
  \/ Edit
Spec == Init /\ [][Next]_vars

-----------------------------------------------------------------------------
\* Properties

\* Nobody edited since the call began, and no search left a hit out.
Undisturbed == At("done") /\ ~call.dirty /\ ~call.cut
ByText == Job.q.digits \notin DOMAIN crm.deal

\* A record that holds the key the answer was found by fits fully, any other as well as its texts do.
Searched(type) == IF HasKey(type, Job.q) /\ KeyHits(type) # {} THEN KeyHits(type) ELSE TextHits(type)
Fit(type, i) ==
  IF StrongKey(type, Job.q) /\ KeyHits(type) # {} THEN 100 ELSE Score(type, Job.q, Records(type)[i])
ClearMatch(type, i) ==
  Fit(type, i) >= MatchFloor /\ \A j \in Searched(type) \ {i} : Fit(type, j) < Fit(type, i) - Margin
\* Another open deal of that name, or when no deal is named so, one the text could mean: by its name, or
\* by a company that bears the text, or if none does, that a search for it finds.
MeantCompanies ==
  LET exact == {k \in DOMAIN crm.company : Bears(Job.q.text, crm.company[k])}
  IN IF exact # {} THEN exact ELSE TextHits("company")
MeantToo(j) == TextMatches("deal", Job.q, crm.deal[j]) \/ Linked(j, MeantCompanies) # {}
NoDealRivals(d) ==
  \A j \in OpenDeals \ {d} : crm.deal[j].name # Job.q.text /\ (crm.deal[d].name = Job.q.text \/ ~MeantToo(j))
\* Another person of that name is less exactly of that name, or less surely at the company.
NoPersonRivals(c) ==
  LET Exact(i) == FullName(crm.contact[i]) = Job.q.text
      Rank(i) == CompanyRank(Job.company, crm.contact[i], {crm.company[k] : k \in Linked(i, DOMAIN crm.company)})
  IN \A j \in DOMAIN crm.contact \ {c} :
       NameMatches(Job.q, crm.contact[j]) /\ NameCovers(Job.q, crm.contact[j]) =>
         (Exact(c) /\ ~Exact(j)) \/ (Job.company # None /\ Rank(j) < Rank(c))

\* Two equally good records are never guessed between (support.py _decide, account_brief, log_meeting
\* resolve_deal): what a call acts on fits well enough, and no other record its searches can find, and no
\* other deal or person in the portal, answers the words of the user as well.  Not so when a search had
\* more hits than its page, or when more than MaxCompanyMatches companies answer and none bears the text:
\* the rest is dropped without a word, and "the only open deal matching" (log_meeting.py:207) may be one of
\* several.  "It never guesses" (log_meeting.py:13) is true of the calls that read all their hits.
NeverGuesses ==
  Undisturbed =>
    CASE call.answer.status = "match" -> \A i \in call.answer.top : ClearMatch(TypeAsked(Job), i)
      [] call.answer.status = "found" /\ ByText -> ClearMatch("deal", call.answer.deal)
      [] call.answer.status = "preview" /\ ByText -> NoDealRivals(call.answer.deal)
      [] call.answer.status = "ok" -> NoPersonRivals(call.answer.person)
      [] OTHER -> TRUE

\* An approved meeting overwrites only what the call read and the preview showed: what somebody changed
\* between the search of the deal and the check of apply stays (log_meeting original_values, changes.py
\* _classify_updates), however often apply fails and is called again.  A change made after that check, while
\* apply stores its status and its snapshot (changes.py:811-891), is overwritten: nothing looks again.
NoLostEdit ==
  [][Write /\ Preview.deal \in DOMAIN crm.deal => \A f \in DOMAIN Preview.update :
       LET now == crm.deal[Preview.deal][f]
       IN crm'.deal[Preview.deal][f] # now => now = call.read[f] \/ now # call.checked[f]]_vars

\* An undisturbed meeting adds nothing twice: nobody is created who is in the portal by that address or
\* alone of that name at the company, nor two of one key in one changeset, and no link is made that is
\* there.  Somebody named once with and once without an address, or with two, has two keys
\* (log_meeting.py:134): he is created twice, or linked twice by the same op if he is there.
IsThere(p) ==
  \/ p.email # None /\ \E c \in DOMAIN crm.contact : crm.contact[c].email = p.email
  \/ Cardinality({c \in Linked(call.company, DOMAIN crm.contact) : FullName(crm.contact[c]) = p.first \o p.last}) = 1
Creates(ops) == {i \in DOMAIN ops : ops[i].op = "create"}
NothingTwice ==
  Undisturbed /\ call.answer.status = "preview" =>
    LET ops == call.answer.ops IN
    /\ \A i \in Creates(ops) : ~IsThere(ops[i].person)
    /\ \A i, j \in Creates(ops) : PersonKey(ops[i].person) = PersonKey(ops[j].person) => i = j
    /\ \A i \in DOMAIN ops \ Creates(ops) : Linked(ops[i].person, ops[i].to) = {}

\* Nobody is listed as never contacted who had been when the list was made, a call logged while the
\* brief was being read included (account_brief.py _never_contacted).
NeverContactedIsTrue == [][NeverContacted => call'.answer.never \cap crm.engaged = {}]_vars
=============================================================================
