---------------------------- MODULE RecordSearch ----------------------------
(***************************************************************************)
(* How the intent tools tell which record a user means: the scored search of   *)
(* resolve_record and get_deal (support.py), the person of an account brief     *)
(* (account_brief.py), and the deal, company and people of a logged meeting     *)
(* (log_meeting.py).  Everything here looks at records already read.            *)
(*                                                                           *)
(* A text is a sequence of words, case already folded; an email address or a    *)
(* domain is one word; None is absent.  A query is [text, digits, email,        *)
(* domain]: what was typed, and what it is when it is a number, an address or   *)
(* holds a domain.  Scores are percentages.                                     *)
(***************************************************************************)
EXTENDS Integers, FiniteSets, FiniteSetsExt, SequencesExt

CONSTANTS
  None,
  Ratio(_, _),        \* similarity of two texts, as difflib has it
  MatchFloor,         \* what a lone hit must score to be a match
  MaxCompanyMatches   \* companies looked into when none bears the text exactly

ASSUME RecordSearchAssumption == MatchFloor \in 0..100 /\ MaxCompanyMatches \in Nat \ {0}

Words(text) == ToSet(text)
Shares(a, b) == Words(a) \cap Words(b) # {}
AsText(word) == IF word = None THEN <<>> ELSE <<word>>
FullName(c) == c.first \o c.last

-----------------------------------------------------------------------------
\* resolve_record and get_deal

TextsOf(type, r) ==
  CASE type = "contact" -> {FullName(r), AsText(r.email), FullName(r) \o r.company} \ {<<>>}
    [] type = "company" -> {r.name, AsText(r.domain)} \ {<<>>}
    [] type = "deal" -> {r.name} \ {<<>>}

\* A key precise enough to filter by, and one that alone proves the match.
StrongKey(type, q) == (type = "contact" /\ q.email # None) \/ (type = "company" /\ q.domain # None)
HasKey(type, q) == StrongKey(type, q) \/ (type = "contact" /\ Len(q.text) \in 2..3)
KeyMatches(type, q, r) ==
  IF type = "company" THEN r.domain = q.domain
  ELSE IF q.email # None THEN r.email = q.email
  ELSE Head(q.text) \in Words(r.first) /\ Last(q.text) \in Words(r.last)
TextMatches(type, q, r) == \E t \in TextsOf(type, r) : Shares(q.text, t)

Overlap(q, t) == (95 * Cardinality(Words(q) \cap Words(t))) \div Cardinality(Words(q))
Score(type, q, r) ==
  IF q.text \in TextsOf(type, r) THEN 100
  ELSE Max({0} \cup {Overlap(q.text, t) : t \in TextsOf(type, r)} \cup {Ratio(q.text, t) : t \in TextsOf(type, r)})

\* scores: id -> score of each candidate.  Close seconds and lone weak hits are not guessed at.
Margin == 2
\* Mutant: among equals the first is taken.
FirstLeader(scores) ==
  {i \in DOMAIN scores : \A j \in DOMAIN scores : scores[i] > scores[j] \/ (scores[i] = scores[j] /\ i <= j)}
Leaders(scores) == {i \in DOMAIN scores : \A j \in DOMAIN scores : scores[i] >= scores[j] - Margin}
Decide(scores) ==
  IF DOMAIN scores = {} THEN "not_found"
  ELSE IF Cardinality(Leaders(scores)) = 1 /\ \A i \in Leaders(scores) : scores[i] >= MatchFloor THEN "match"
  ELSE "ambiguous"

-----------------------------------------------------------------------------
\* account_brief.  people: id -> contact; companies: id -> the companies read for that contact

NameMatches(q, c) ==
  IF q.email # None THEN c.email = q.email
  ELSE IF Len(q.text) = 1 THEN q.text[1] \in Words(c.first) \cup Words(c.last)
  ELSE Head(q.text) \in Words(c.first) /\ Last(q.text) \in Words(c.last)

\* People whose whole name is the query win over those whose name only holds it.
ExactNames(q, people) ==
  LET exact == {i \in DOMAIN people : FullName(people[i]) = q.text}
  IN IF exact # {} THEN exact ELSE DOMAIN people
NameCovers(q, c) == q.email # None \/ Words(q.text) \subseteq Words(FullName(c))

CompanyRank(company, c, companies) ==
  LET names == ({k.name : k \in companies} \cup {c.company}) \ {<<>>}
      domains == ({k.domain : k \in companies} \cup {c.host}) \ {None}
      Within(a, b) == Words(a) \subseteq Words(b)
  IN IF company.domain \in domains THEN 2
     ELSE IF company.text = <<>> THEN 0
     ELSE IF company.text \in names THEN 2
     ELSE IF \E n \in names : Within(company.text, n) \/ Within(n, company.text) THEN 1 ELSE 0

Covered(q, people) == {i \in ExactNames(q, people) : NameCovers(q, people[i])}
RankOf(company, people, companiesOf, i) == CompanyRank(company, people[i], companiesOf[i])
BestAt(company, people, companiesOf, ids) ==
  LET best == Max({RankOf(company, people, companiesOf, i) : i \in ids})
  IN IF best = 0 THEN {} ELSE {i \in ids : RankOf(company, people, companiesOf, i) = best}
Persons(q, company, people, companiesOf) ==
  LET covered == Covered(q, people)
  IN IF company = None \/ covered = {} THEN covered ELSE BestAt(company, people, companiesOf, covered)

-----------------------------------------------------------------------------
\* log_meeting

Bears(text, k) == text \in {k.name, AsText(k.domain)}
\* Companies that bear the text, else the first few the search returned, in any order.
Bearing(text, companies) == {i \in DOMAIN companies : Bears(text, companies[i])}
ChosenCompanies(text, companies) ==
  IF Bearing(text, companies) # {} THEN {Bearing(text, companies)}
  ELSE kSubset(Min({MaxCompanyMatches, Cardinality(DOMAIN companies)}), DOMAIN companies)

\* Companies that answered the text are not looked into.
SomeDropped(text, companies, chosen) == Bearing(text, companies) = {} /\ chosen # DOMAIN companies

\* The only company, else the only primary one.
DealCompany(linked, primary) ==
  IF Cardinality(linked) = 1 THEN CHOOSE k \in linked : TRUE
  ELSE IF Cardinality(linked \cap primary) = 1 THEN CHOOSE k \in linked \cap primary : TRUE ELSE None
OnlyContact(linked) == IF Cardinality(linked) = 1 THEN CHOOSE c \in linked : TRUE ELSE None

\* Mutant: nobody is taken for somebody listed twice.
NobodyTwice(people) == TRUE
PersonKey(p) == IF p.email # None THEN <<p.email>> ELSE p.first \o p.last
EachPersonOnce(people) == IsInjective([i \in DOMAIN people |-> PersonKey(people[i])])
InputsAreSound(job) == (job.currency # None => job.amount # None) /\ EachPersonOnce(job.people)

\* The properties of the deal that really change.
ChangedFields(deal, job, home) ==
  {f \in {"close", "amount", "currency"} :
    \/ f = "close" /\ job.close \notin {None, deal.close}
    \/ f = "amount" /\ job.amount \notin {None, deal.amount}
    \/ f = "currency" /\ job.amount # None /\ job.currency \notin {None, deal.currency}
       /\ ~(deal.currency = None /\ job.currency = home)}

\* People at the company with that name: one of them is the person, two are nobody.
SameName(p, staff) == {i \in DOMAIN staff : FullName(staff[i]) = p.first \o p.last}
Existing(p, byEmail, staff) ==
  IF byEmail # {} THEN byEmail ELSE IF Cardinality(SameName(p, staff)) = 1 THEN SameName(p, staff) ELSE {None}
=============================================================================
