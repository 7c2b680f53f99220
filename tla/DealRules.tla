----------------------------- MODULE DealRules ------------------------------
(***************************************************************************)
(* What the sales jobs compute from the deals a search returned: reason      *)
(* codes and urgency (triage.py), the forecast of a period (forecast.py) and  *)
(* the changes that move past-due close dates (bulk_hygiene.py), all under    *)
(* the rules of rules.py.  Nothing here reads HubSpot: IntentReads does.      *)
(*                                                                           *)
(* A deal is [id, p], p its properties.  A day is a number, a month an index  *)
(* into MonthEnd, a probability a percentage, an absent value None.           *)
(***************************************************************************)
EXTENDS Integers, FiniteSets, FiniteSetsExt, SequencesExt

CONSTANTS
  None,
  MonthEnd,   \* month index -> its last day; month y*12 + m - 1 is month m of year y
  MaxOps      \* what one changeset holds

ASSUME DealRulesAssumption ==
  /\ MaxOps \in Nat \ {0} /\ None \notin Int
  /\ IsFiniteSet(DOMAIN MonthEnd) /\ DOMAIN MonthEnd = 0..(Cardinality(DOMAIN MonthEnd) - 1)
  /\ \A m, n \in DOMAIN MonthEnd : MonthEnd[m] \in Nat /\ (m < n => MonthEnd[m] < MonthEnd[n])
\* The day lies in a month that is neither the first nor the last of the table.
Dated(day) ==
  day \in Int /\ \E m \in DOMAIN MonthEnd \ {0} : m + 1 \in DOMAIN MonthEnd /\ MonthEnd[m - 1] < day /\ day <= MonthEnd[m]

Given(a, b) == IF a # None THEN a ELSE b
IdsOf(deals) == {d.id : d \in deals}
MinOf(a, b) == IF a <= b THEN a ELSE b

\* The operators @@, SelectSeq and SortSeq, as definitions that can be reasoned about.
With(new, old) == [f \in DOMAIN new \cup DOMAIN old |-> IF f \in DOMAIN new THEN new[f] ELSE old[f]]
\* The members of S, each after all that precede it.
InOrder(S, precedes) ==
  [n \in 1..Cardinality(S) |-> CHOOSE x \in S : Cardinality({y \in S : <<y, x>> \in precedes}) = n - 1]
\* The items at those places, sorted stably: what HubSpot sent twice stays there twice.
SortedAt(items, at, before) ==
  LET earlier == {r \in at \X at : \/ <<items[r[1]], items[r[2]]>> \in before
                                   \/ r[1] < r[2] /\ <<items[r[2]], items[r[1]]>> \notin before}
      order == InOrder(at, earlier)
  IN [n \in DOMAIN order |-> items[order[n]]]
ById(deals) == {r \in deals \X deals : r[1].id < r[2].id}

-----------------------------------------------------------------------------
\* Periods and dates

MonthBounds(first, last) == [start |-> MonthEnd[first - 1] + 1, end |-> MonthEnd[last]]
PeriodBounds(period, fiscalStart) ==
  CASE period.kind = "month" -> MonthBounds(period.year * 12 + period.n - 1, period.year * 12 + period.n - 1)
    [] period.kind = "day" -> [start |-> period.n, end |-> period.n]
    [] period.kind = "quarter" ->
         LET base == (IF fiscalStart > 1 THEN period.year - 1 ELSE period.year) * 12
                     + (fiscalStart - 1) + (period.n - 1) * 3
         IN MonthBounds(base, base + 2)

MonthOf(day) == CHOOSE m \in DOMAIN MonthEnd \ {0} : MonthEnd[m - 1] < day /\ day <= MonthEnd[m]
LastDayOfNextMonth(asOf) == MonthEnd[MonthOf(asOf) + 1]
\* The day asked for, the default, or None when those deals would still be past due.
NewDate(raw, asOf) == IF raw = None THEN LastDayOfNextMonth(asOf) ELSE IF raw < asOf THEN None ELSE raw

-----------------------------------------------------------------------------
\* Values of one deal.  stage is what the pipelines say of it, or None.

StageOf(pipelines, p) == IF p.stage \in DOMAIN pipelines THEN pipelines[p.stage] ELSE None
LabelOf(stage) == IF stage = None THEN None ELSE stage.label
StalledDaysFor(rules, label) == IF label \in DOMAIN rules.stalledBy THEN rules.stalledBy[label] ELSE rules.stalledDays
ProbabilityOverride(rules, label) == IF label \in DOMAIN rules.probability THEN rules.probability[label] ELSE None

\* HubSpot sends a fraction or 0..100: what exceeds one is taken for a percentage.
Fraction(v) == IF v = None THEN None ELSE IF v > 100 THEN v \div 100 ELSE v
DealProbability(p, stage, rules) ==
  Given(ProbabilityOverride(rules, LabelOf(stage)),
    Given(Fraction(p.forecastP), Given(Fraction(p.stageP), IF stage = None THEN None ELSE stage.probability)))

\* No exchange rate is ever assumed.
AmountHome(p, home) ==
  IF p.home # None THEN p.home
  ELSE IF p.amount # None /\ (p.currency = None \/ (home # None /\ p.currency = home)) THEN p.amount
  ELSE None

-----------------------------------------------------------------------------
\* Reason codes

Overdue(p, asOf) == p.close # None /\ p.close < asOf
Silent(p, rules, asOf) ==
  p.contacted # None /\ p.category \in rules.silentScope /\ asOf - p.contacted > rules.silentDays
NoNext(p, rules, asOf) ==
  /\ p.category \in rules.noNextScope
  /\ ~(p.next # None /\ p.next >= asOf) /\ ~p.nextStep
Stalled(p, rules, label, asOf) == p.entered # None /\ asOf - p.entered > StalledDaysFor(rules, label)

EvaluateDeal(p, label, rules, asOf) ==
  {c \in rules.codes : \/ c = "OVERDUE" /\ Overdue(p, asOf)
                       \/ c = "SILENT" /\ Silent(p, rules, asOf)
                       \/ c = "NO_NEXT" /\ NoNext(p, rules, asOf)
                       \/ c = "STALLED" /\ Stalled(p, rules, label, asOf)}

\* The stage's probability: the deal's own forecast probability does not count.
StageProbability(p, stage, rules) == DealProbability([p EXCEPT !.forecastP = None], stage, rules)
AuditDeal(p, stage, rules, asOf) ==
  LET at == StageProbability(p, stage, rules)
  IN {c \in {"OVERDUE", "SILENT", "NO_NEXT", "STALLED", "INFLATED", "SANDBAG"} :
       \/ c \in EvaluateDeal(p, LabelOf(stage), [rules EXCEPT !.codes = {"OVERDUE", "SILENT", "NO_NEXT", "STALLED"}], asOf)
       \/ c = "INFLATED" /\ at # None /\ p.category = "COMMIT" /\ at < rules.inflatedBelow
       \/ c = "SANDBAG" /\ at # None /\ p.category = "PIPELINE" /\ at > rules.sandbagAbove}

-----------------------------------------------------------------------------
\* Triage: flagged deals, most urgent first, equal scores by id

UrgencyScore(reasons, p, rules) ==
  SumFunction([c \in reasons |-> rules.weights[c]]) * Given(AmountHome(p, rules.home), 0)

ByScore(entries) ==
  {r \in entries \X entries : \/ r[1].score > r[2].score
                              \/ r[1].score = r[2].score /\ r[1].id < r[2].id}
TriageDeals(results, rules, pipelines, asOf) ==
  LET Reasons(d) == EvaluateDeal(d.p, LabelOf(StageOf(pipelines, d.p)), rules, asOf)
      Closed(d) == StageOf(pipelines, d.p) # None /\ StageOf(pipelines, d.p).closed
      Entry(d) == [id |-> d.id, reasons |-> Reasons(d), score |-> UrgencyScore(Reasons(d), d.p, rules)]
      flagged == {i \in DOMAIN results : ~Closed(results[i]) /\ Reasons(results[i]) # {}}
      entries == [i \in flagged |-> Entry(results[i])]
  IN SortedAt(entries, flagged, ByScore({entries[i] : i \in flagged}))

TriageAnswer(results, truncated, rules, pipelines, asOf, limit) ==
  LET flagged == TriageDeals(results, rules, pipelines, asOf)
  IN [kind |-> "triage", checked |-> Len(results), flagged |-> Len(flagged),
      deals |-> SubSeq(flagged, 1, MinOf(limit, Len(flagged))),
      byCode |-> [c \in rules.codes |-> Cardinality({i \in DOMAIN flagged : c \in flagged[i].reasons})],
      truncated |-> truncated]

-----------------------------------------------------------------------------
\* The forecast

\* Mutant: every record a search returned.
EveryRecord(deals) == ToSet(deals)
\* One record per deal: the first search that returned it wins.
Unique(deals) == {deals[i] : i \in {k \in DOMAIN deals : \A j \in 1..(k - 1) : deals[j].id # deals[k].id}}

ClosedDeal(p, stage) == IF p.closed # None THEN p.closed ELSE stage # None /\ stage.closed
WonDeal(p, stage) == IF p.won # None THEN p.won ELSE stage # None /\ stage.won
InPeriod(p, bounds) == p.close # None /\ bounds.start <= p.close /\ p.close <= bounds.end

CurrenciesOn(deals) == {d.p.currency : d \in deals} \ {None}
\* Without a home currency two currencies cannot be summed, and one stands in for it.
MixedCurrencies(rules, deals) == rules.home = None /\ Cardinality(CurrenciesOn(deals)) > 1
HomeCurrency(rules, deals) ==
  IF rules.home # None THEN rules.home
  ELSE IF Cardinality(CurrenciesOn(deals)) = 1 THEN CHOOSE c \in CurrenciesOn(deals) : TRUE ELSE None

\* A blank amount is worth nothing in every currency; a foreign one without a rate is not known.
RowHome(p, home) == IF AmountHome(p, home) = None /\ p.amount = None THEN 0 ELSE AmountHome(p, home)

SupportBreaking == {"OVERDUE", "SILENT", "NO_NEXT", "STALLED", "INFLATED"}
Row(d, stage, rules, home, asOf) ==
  LET codes == AuditDeal(d.p, stage, rules, asOf)
  IN [id |-> d.id, category |-> d.p.category, home |-> RowHome(d.p, home), codes |-> codes,
      probability |-> DealProbability(d.p, stage, rules),
      supported |-> d.p.category = "COMMIT" /\ codes \cap SupportBreaking = {}]

Worth(rows) == SumFunction([r \in rows |-> Given(r.home, 0)])
Counted(rows) == {r \in rows : r.category # "OMIT"}
Unweighted(rows) == \A r \in rows : r.probability \in {None, 0, 100}
Weighted(rows) ==
  SumFunction([r \in rows |-> Given(r.home, 0) * (IF Unweighted(rows) THEN 100 ELSE Given(r.probability, 0))])

Figures(won, open) ==
  LET commit == {r \in open : r.category = "COMMIT"}
      supported == {r \in commit : r.supported}
  IN [closed_won |-> Worth(won), commit |-> Worth(commit), supported_commit |-> Worth(supported),
      challenged_commit |-> Worth(commit) - Worth(supported),
      best_case |-> Worth({r \in open : r.category \in {"COMMIT", "BEST_CASE"}}),
      pipeline |-> Worth(Counted(open)), weighted |-> Weighted(Counted(open))]

Movers(open) ==
  LET priced == {r \in Counted(open) : r.home # None}
  IN InOrder(priced, {r \in priced \X priced : \/ r[1].home > r[2].home
                                               \/ r[1].home = r[2].home /\ r[1].id < r[2].id})

ComputeForecast(deals, truncated, rules, bounds, pipelines, asOf) ==
  LET all == Unique(deals)
      Stage(d) == StageOf(pipelines, d.p)
      open == {d \in all : ~ClosedDeal(d.p, Stage(d))}
      won == {d \in all \ open : WonDeal(d.p, Stage(d)) /\ InPeriod(d.p, bounds)}
      inside == {d \in open : InPeriod(d.p, bounds)}
      home == HomeCurrency(rules, won \cup inside)
      RowsOf(S) == {Row(d, Stage(d), rules, home, asOf) : d \in S}
      base == [kind |-> "forecast", available |-> TRUE, won |-> IdsOf(won), open |-> IdsOf(inside),
               outside |-> IdsOf(open \ inside), truncated |-> truncated]
  IN IF MixedCurrencies(rules, won \cup inside) THEN [base EXCEPT !.available = FALSE]
     ELSE With([figures |-> Figures(RowsOf(won), RowsOf(inside)),
                slipped |-> {d.id : d \in {e \in open \ inside : e.p.close # None /\ e.p.close < bounds.start}},
                excluded |-> {r.id : r \in {q \in RowsOf(won) \cup Counted(RowsOf(inside)) : q.home = None}},
                movers |-> [i \in DOMAIN Movers(RowsOf(inside)) |-> Movers(RowsOf(inside))[i].id]], base)

-----------------------------------------------------------------------------
\* Past-due close dates

PastDue(results, asOf) ==
  SortedAt(results, {i \in DOMAIN results : results[i].p.closed # TRUE /\ Overdue(results[i].p, asOf)},
           ById(ToSet(results)))

\* An update per deal, then a task per deal that depends on the update at the deal's position.
BuildOps(found, addTask) ==
  [i \in DOMAIN found |-> [op |-> "update", deal |-> found[i].id, dependsOn |-> 0]]
  \o (IF addTask THEN [i \in DOMAIN found |-> [op |-> "task", deal |-> found[i].id, dependsOn |-> i]] ELSE <<>>)

\* Mutant: nothing is refused.
NeverTwice(ops) == FALSE
\* What a changeset refuses: a page that shifted between two reads sends a deal twice.
UpdatedTwice(ops) ==
  \E m, n \in DOMAIN ops : m < n /\ ops[m].op = "update" /\ ops[n].op = "update" /\ ops[m].deal = ops[n].deal

Failed == [kind |-> "error"]
TaskDueDays == 7
FixPastDue(results, truncated, asOf, target, addTask) ==
  LET found == PastDue(results, asOf)
      cap == MaxOps \div (IF addTask THEN 2 ELSE 1)
      kept == SubSeq(found, 1, MinOf(cap, Len(found)))
  IN IF UpdatedTwice(BuildOps(kept, addTask)) THEN Failed ELSE
     [kind |-> "hygiene", status |-> IF found = <<>> THEN "nothing_to_change" ELSE "preview",
      ops |-> BuildOps(kept, addTask),
      originals |-> [id \in IdsOf(ToSet(kept)) |-> (CHOOSE d \in ToSet(kept) : d.id = id).p.close],
      target |-> target, taskDue |-> MinOf(asOf + TaskDueDays, target),
      remaining |-> Len(found) - Len(kept), truncated |-> truncated]
=============================================================================
