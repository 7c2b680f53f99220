---------------------------- MODULE IntentReads -----------------------------
(***************************************************************************)
(* The read jobs of the intent surface in flight: each call resolves its      *)
(* owner, pages through one or two searches of the deals, loads the lookups   *)
(* and computes its answer (DealRules).  The searches of a portal share one   *)
(* sliding-window limiter; a 429 is retried, any other failure ends the call. *)
(* Other users edit deals between any two steps, and a search is paged by      *)
(* offset, so a page may not start where the last one ended.                  *)
(*                                                                           *)
(* Time is counted in ticks: stamps holds the age of each acquisition, wait   *)
(* what a sleeper has left.                                                   *)
(***************************************************************************)
EXTENDS DealRules

CONSTANTS
  Calls, Jobs,          \* the calls, and what each may ask for
  Ids, Portals,         \* deals, and what HubSpot may hold at first: Ids -> properties
  Edited, MaxEdits,     \* properties an edit may leave, and how many edits
  RuleFiles, Today,     \* what the rules file may hold; None is a file that does not validate
  Owners, Fragments,    \* owner id -> [user, email, name]; <<text, owner>> when the text is part of either
  Pipelines,            \* stage id -> [label, closed, won, probability]
  PageSize, ResultCap,
  MaxPerWindow, Window,
  ReadAttempts, MaxRetryWait, RetryAfters,
  MaxFaults             \* refusals, failures and repeated cursors of HubSpot

ASSUME ReadsAssumption ==
  /\ PageSize \in Nat \ {0} /\ ResultCap \in Nat \ {0} /\ MaxPerWindow \in Nat \ {0}
  /\ Window \in Nat \ {0} /\ ReadAttempts \in Nat \ {0} /\ MaxRetryWait \in Nat
  /\ MaxEdits \in Nat /\ MaxFaults \in Nat
  /\ Ids \subseteq Nat /\ IsFiniteSet(Ids) /\ IsFiniteSet(Calls)
  /\ \A P \in Portals : P = [i \in Ids |-> P[i]]
\* Only triage and forecast ask for a day, and every date has its month.
ASSUME DatesAssumption ==
  /\ \A d \in ({Today} \cup {r.asOf : r \in RuleFiles \ {None}}) \ {None} : Dated(d)
  /\ \A job \in Jobs : /\ job # None /\ job.kind \in {"triage", "forecast", "hygiene"}
                       /\ job.kind = "hygiene" => job.asOf = None /\ job.newDate \in Int \cup {None}
                       /\ job.kind = "forecast" =>
                            \A r \in RuleFiles \ {None} : PeriodBounds(job.period, r.fiscalStart).start \in Int
  /\ Today # None

\* What a deal may hold.  HubSpot computes whether it is closed and won, from its stage.
Props == (UNION {{P[i] : i \in Ids} : P \in Portals}) \cup Edited
ASSUME DealsAssumption ==
  /\ None \notin BOOLEAN
  /\ \A p \in Props :
       /\ {p.closed, p.won} \subseteq BOOLEAN /\ (p.won => p.closed)
       /\ p.stage \in DOMAIN Pipelines /\ Pipelines[p.stage].closed => p.closed
       /\ {p.close, p.amount, p.home} \subseteq Int \cup {None}
  /\ \A r \in RuleFiles \ {None} : \A c \in r.codes : r.weights[c] \in Int
  /\ \A job \in Jobs : job.limit \in Nat

VARIABLES
  deals,     \* what HubSpot holds
  calls,     \* call -> where it is
  queue,     \* calls waiting for the limiter's lock, its holder first
  stamps,    \* ages of the limiter's acquisitions, oldest first
  owned,     \* the owner lookup is cached
  piped,     \* the pipeline lookup is cached
  edits, faults,
  recent     \* history: ages of the last MaxPerWindow + 1 places taken, newest first

vars == <<deals, calls, queue, stamps, owned, piped, edits, faults, recent>>

Idle == [pc |-> "idle", job |-> None, rules |-> None, owner |-> None, search |-> 1, after |-> 0, got |-> <<>>,
         found |-> <<>>, cut |-> FALSE, seen |-> {}, attempt |-> 0, wait |-> 0, dirty |-> FALSE, answer |-> None]

Init ==
  /\ deals \in Portals /\ calls = [c \in Calls |-> Idle]
  /\ queue = <<>> /\ stamps = <<>> /\ owned = FALSE /\ piped = FALSE
  /\ edits = 0 /\ faults = 0
  /\ recent = [i \in 1..(MaxPerWindow + 1) |-> Window]

At(c, pc) == calls[c].pc = pc
Goes(c, pc) == calls' = [calls EXCEPT ![c].pc = pc]
Ends(c, answer) == calls' = [calls EXCEPT ![c].pc = "done", ![c].answer = answer]
AsOf(k) == Given(k.job.asOf, Given(k.rules.asOf, Today))

-----------------------------------------------------------------------------
\* The owner

SelfWords == {"me"}
Wanted(job, rules) == IF job.owner = None \/ job.owner \in SelfWords THEN rules.defaultOwner ELSE job.owner
\* The first way of matching that finds anybody decides: id, email, name, part of either.
FindOwner(text) ==
  LET ids == {o \in DOMAIN Owners : text \in {o, Owners[o].user}}
      emails == {o \in DOMAIN Owners : Owners[o].email = text}
      names == {o \in DOMAIN Owners : Owners[o].name = text}
  IN IF ids # {} THEN ids ELSE IF emails # {} THEN emails ELSE IF names # {} THEN names
     ELSE {o \in DOMAIN Owners : <<text, o>> \in Fragments}

\* A call checks its arguments and reads the rules file, which may change between two calls.
Start(c) ==
  /\ At(c, "idle")
  /\ \E job \in Jobs, rules \in RuleFiles :
       IF \/ rules = None
          \/ job.kind = "hygiene" /\ NewDate(job.newDate, Given(rules.asOf, Today)) = None
          \/ job.owner \in SelfWords /\ rules.defaultOwner = None
       THEN calls' = [calls EXCEPT ![c].pc = "done", ![c].job = job, ![c].rules = rules, ![c].answer = Failed]
       ELSE calls' = [calls EXCEPT ![c].job = job, ![c].rules = rules,
                                   ![c].pc = IF Wanted(job, rules) = None THEN "ask" ELSE "owner"]
  /\ UNCHANGED <<deals, queue, stamps, owned, piped, edits, faults, recent>>

Fault == faults < MaxFaults /\ faults' = faults + 1
Resolve(c) ==
  LET who == FindOwner(Wanted(calls[c].job, calls[c].rules))
  IN IF Cardinality(who) = 1 THEN calls' = [calls EXCEPT ![c].pc = "ask", ![c].owner = CHOOSE o \in who : TRUE]
     ELSE Ends(c, Failed)
ResolveOwner(c) ==
  /\ At(c, "owner") /\ Resolve(c) /\ owned' = TRUE
  /\ UNCHANGED <<deals, queue, stamps, piped, edits, faults, recent>>
\* A GET is not retried.
OwnersFail(c) ==
  /\ At(c, "owner") /\ ~owned /\ Fault /\ Ends(c, Failed)
  /\ UNCHANGED <<deals, queue, stamps, owned, piped, edits, recent>>

-----------------------------------------------------------------------------
\* The limiter: a FIFO lock, held while its holder sleeps for a place in the window

Ask(c) ==
  /\ At(c, "ask") /\ queue' = Append(queue, c) /\ Goes(c, "queued")
  /\ UNCHANGED <<deals, stamps, owned, piped, edits, faults, recent>>

\* The stamps at the front that are a window old are dropped.
Expired(ages) ==
  CHOOSE n \in 0..Len(ages) : (\A i \in 1..n : ages[i] >= Window) /\ (n < Len(ages) => ages[n + 1] < Window)
Young(ages) == SubSeq(ages, Expired(ages) + 1, Len(ages))
\* Mutant: the window counts one too few.
HasRoomForOneMore(ages) == Len(ages) <= MaxPerWindow
HasRoom(ages) == Len(ages) < MaxPerWindow
Acquire(c) ==
  /\ At(c, "queued") /\ Head(queue) = c /\ HasRoom(Young(stamps))
  /\ stamps' = Append(Young(stamps), 0) /\ queue' = Tail(queue) /\ Goes(c, "send")
  /\ recent' = [i \in DOMAIN recent |-> IF i = 1 THEN 0 ELSE recent[i - 1]]
  /\ UNCHANGED <<deals, owned, piped, edits, faults>>
Limit(c) ==
  /\ At(c, "queued") /\ Head(queue) = c /\ ~HasRoom(Young(stamps))
  /\ stamps' = Young(stamps)
  /\ calls' = [calls EXCEPT ![c].pc = "limited", ![c].wait = Window - Head(stamps')]
  /\ UNCHANGED <<deals, queue, owned, piped, edits, faults, recent>>
\* Mutant: a sleeper that wakes queues again, behind itself.
WokenAtTheEnd == "ask"
Woken == "queued"
Wake(c) ==
  /\ calls[c].wait = 0
  /\ \/ At(c, "limited") /\ Goes(c, Woken)
     \/ At(c, "backoff") /\ Goes(c, "ask")
  /\ UNCHANGED <<deals, queue, stamps, owned, piped, edits, faults, recent>>

-----------------------------------------------------------------------------
\* The searches

OpenDeals(owner) == [owner |-> owner, open |-> TRUE, before |-> None, from |-> None, to |-> None, won |-> FALSE]
WonDeals(owner, bounds) ==
  [OpenDeals(owner) EXCEPT !.open = FALSE, !.won = TRUE, !.from = bounds.start, !.to = bounds.end]
PastDueDeals(owner, asOf) == [OpenDeals(owner) EXCEPT !.before = asOf]
Bounds(k) == PeriodBounds(k.job.period, k.rules.fiscalStart)

Searches(k) ==
  CASE k.job.kind = "triage" -> <<OpenDeals(k.owner)>>
    [] k.job.kind = "forecast" -> <<OpenDeals(k.owner), WonDeals(k.owner, Bounds(k))>>
    [] k.job.kind = "hygiene" -> <<PastDueDeals(k.owner, AsOf(k))>>

\* What HubSpot finds, by id, and the page it sends: an offset is its cursor.
Matches(p, f) ==
  /\ f.owner = None \/ p.owner = f.owner
  /\ f.open => ~p.closed
  /\ f.before # None => Overdue(p, f.before)
  /\ f.from # None => InPeriod(p, [start |-> f.from, end |-> f.to])
  /\ f.won => p.won
Hits(f) ==
  LET hits == {[id |-> i, p |-> deals[i]] : i \in {j \in Ids : Matches(deals[j], f)}}
  IN InOrder(hits, ById(hits))
Page(hits, after, limit) == SubSeq(hits, after + 1, MinOf(after + limit, Len(hits)))
Cursor(hits, after, limit) == IF after + limit < Len(hits) THEN after + limit ELSE None

PageLimit(k) == Max({1, MinOf(PageSize, ResultCap - Len(k.got))})
LastSearch(k) == k.search = Len(Searches(k))

\* Mutant: the last search alone says whether the answer is cut.
NextSearchForgets(k, results, cut) ==
  [k EXCEPT !.found = @ \o results, !.got = <<>>, !.after = 0, !.seen = {}, !.cut = cut,
            !.search = @ + 1, !.attempt = 0, !.pc = IF LastSearch(k) THEN "context" ELSE "ask"]
\* A search is over: the next one of the job starts, or the lookups are read.
NextSearch(k, results, cut) ==
  [k EXCEPT !.found = @ \o results, !.got = <<>>, !.after = 0, !.seen = {}, !.cut = @ \/ cut,
            !.search = @ + 1, !.attempt = 0, !.pc = IF LastSearch(k) THEN "context" ELSE "ask"]
NextPage(k, results, next) ==
  [k EXCEPT !.got = results, !.after = next, !.seen = @ \cup {next}, !.attempt = 0, !.pc = "ask"]

TakePage(k, results, next) ==
  IF next = None THEN NextSearch(k, results, FALSE)
  ELSE IF Len(results) >= ResultCap THEN NextSearch(k, results, TRUE)
  ELSE IF next \in k.seen THEN [k EXCEPT !.pc = "done", !.answer = Failed]
  ELSE NextPage(k, results, next)

ReadPage(c) ==
  /\ At(c, "send")
  /\ \E hits \in {Hits(Searches(calls[c])[calls[c].search])} :
       LET k == calls[c]
           results == k.got \o Page(hits, k.after, PageLimit(k))
           proper == Cursor(hits, k.after, PageLimit(k))
       IN \/ calls' = [calls EXCEPT ![c] = TakePage(k, results, proper)] /\ UNCHANGED faults
          \/ k.seen # {} /\ Fault
             /\ calls' = [calls EXCEPT ![c] = TakePage(k, results, k.after)]  \* the cursor it was given
  /\ UNCHANGED <<deals, queue, stamps, owned, piped, edits, recent>>

\* A 429: the last attempt raises, the others sleep as long as they were told, within bounds.
RetryWait(retryAfter, attempt) ==
  MinOf(IF retryAfter \in {None, 0} THEN 2 ^ attempt ELSE retryAfter, MaxRetryWait)
Refused(c) ==
  /\ At(c, "send") /\ Fault
  /\ IF calls[c].attempt = ReadAttempts - 1 THEN Ends(c, Failed)
     ELSE \E r \in RetryAfters :
            calls' = [calls EXCEPT ![c].pc = "backoff", ![c].attempt = @ + 1, ![c].wait = RetryWait(r, calls[c].attempt)]
  /\ UNCHANGED <<deals, queue, stamps, owned, piped, edits, recent>>
SearchFails(c) ==
  /\ At(c, "send") /\ Fault /\ Ends(c, Failed)
  /\ UNCHANGED <<deals, queue, stamps, owned, piped, edits, recent>>

-----------------------------------------------------------------------------
\* The lookups, cached for a while, and the answer

Answer(k) ==
  CASE k.job.kind = "triage" -> TriageAnswer(k.found, k.cut, k.rules, Pipelines, AsOf(k), k.job.limit)
    [] k.job.kind = "forecast" -> ComputeForecast(k.found, k.cut, k.rules, Bounds(k), Pipelines, AsOf(k))
    [] k.job.kind = "hygiene" ->
         FixPastDue(k.found, k.cut, AsOf(k), NewDate(k.job.newDate, AsOf(k)), k.job.addTask)

Compute(c) ==
  /\ At(c, "context") /\ Ends(c, Answer(calls[c])) /\ owned' = TRUE /\ piped' = TRUE
  /\ UNCHANGED <<deals, queue, stamps, edits, faults, recent>>
LookupFails(c) ==
  /\ At(c, "context") /\ ~(owned /\ piped) /\ Fault /\ Ends(c, Failed)
  /\ \/ ~piped /\ UNCHANGED piped
     \/ ~owned /\ piped' = TRUE
  /\ UNCHANGED <<deals, queue, stamps, owned, edits, recent>>

-----------------------------------------------------------------------------
\* The world

Older(age) == MinOf(age + 1, Window)
Tick ==
  /\ \/ \E c \in Calls : calls[c].wait > 0
     \/ \E i \in DOMAIN stamps : stamps[i] < Window
  /\ calls' = [c \in Calls |-> [calls[c] EXCEPT !.wait = Max({@ - 1, 0})]]
  /\ stamps' = [i \in DOMAIN stamps |-> Older(stamps[i])]
  /\ recent' = [i \in DOMAIN recent |-> Older(recent[i])]
  /\ UNCHANGED <<deals, queue, owned, piped, edits, faults>>

CacheExpires ==
  /\ \/ owned /\ owned' = FALSE /\ UNCHANGED piped
     \/ piped /\ piped' = FALSE /\ UNCHANGED owned
  /\ UNCHANGED <<deals, calls, queue, stamps, edits, faults, recent>>

Edit ==
  /\ edits < MaxEdits /\ edits' = edits + 1
  /\ \E i \in Ids, p \in Edited : deals[i] # p /\ deals' = [deals EXCEPT ![i] = p]
  /\ calls' = [c \in Calls |-> [calls[c] EXCEPT !.dirty = @ \/ calls[c].pc \notin {"idle", "done"}]]
  /\ UNCHANGED <<queue, stamps, owned, piped, faults, recent>>

Step(c) ==
  \/ Start(c) \/ ResolveOwner(c) \/ OwnersFail(c) \/ Ask(c) \/ Acquire(c) \/ Limit(c) \/ Wake(c)
  \/ ReadPage(c) \/ Refused(c) \/ SearchFails(c) \/ Compute(c) \/ LookupFails(c)

Next == (\E c \in Calls : Step(c)) \/ Tick \/ CacheExpires \/ Edit
Spec == Init /\ [][Next]_vars

\* asyncio runs what is ready, time passes, and the client answers or times out every request.
Going(c) ==
  ResolveOwner(c) \/ Ask(c) \/ Acquire(c) \/ Limit(c) \/ Wake(c) \/ ReadPage(c) \/ Compute(c)
FairSpec == Spec /\ WF_vars(Tick) /\ \A c \in Calls : WF_vars(Going(c))

-----------------------------------------------------------------------------
\* Properties

\* Every call is somewhere the code can be, and its answer has the form of its job.
TypeOK ==
  /\ deals \in [Ids -> Props]
  /\ Len(queue) <= Cardinality(Calls)
  /\ \A c \in Calls :
       /\ calls[c].attempt < ReadAttempts /\ calls[c].wait <= Max({Window, MaxRetryWait})
       /\ At(c, "done") => calls[c].answer.kind \in {"error", calls[c].job.kind}
       /\ Len(calls[c].got) <= ResultCap

\* However many calls search and retry, no window of time sees more searches than HubSpot allows,
\* of MaxPerWindow + 1 searches in a row the first is a window old: a call that slept for a place must
\* look again before it takes one, and no stamp is forgotten early (common.py:184).
WindowKept == recent[MaxPerWindow + 1] >= Window

\* A call during which nobody edited a deal answers what a look at the whole portal would: paging,
\* retries, the two searches of the forecast and the tests repeated on our side lose and double nothing.
Answered(c) == At(c, "done") /\ calls[c].answer # Failed
Seen(k) == {i \in Ids : k.owner = None \/ deals[i].owner = k.owner}
OpenSeen(k) == {i \in Seen(k) : ~deals[i].closed}
HomeSum(k, ids) == SumFunction([i \in ids |-> Given(AmountHome(deals[i], k.rules.home), 0)])
ExactTriage(k, a) ==
  LET Codes(i) == EvaluateDeal(deals[i], LabelOf(StageOf(Pipelines, deals[i])), k.rules, AsOf(k))
      urgent == {i \in OpenSeen(k) : Codes(i) # {}}
  IN /\ a.checked = Cardinality(OpenSeen(k)) /\ a.flagged = Cardinality(urgent)
     /\ \A i \in DOMAIN a.deals : a.deals[i].id \in urgent /\ a.deals[i].reasons = Codes(a.deals[i].id)
     /\ \A i, j \in DOMAIN a.deals : i < j => a.deals[i].score >= a.deals[j].score
     /\ \A i \in DOMAIN a.deals, j \in urgent \ {a.deals[n].id : n \in DOMAIN a.deals} :
          a.deals[i].score >= UrgencyScore(Codes(j), deals[j], k.rules)
ExactForecast(k, a) ==
  LET open == {i \in OpenSeen(k) : InPeriod(deals[i], Bounds(k))}
      won == {i \in Seen(k) : deals[i].won /\ InPeriod(deals[i], Bounds(k))}
      inCategory(S) == {i \in open : deals[i].category \in S}
  IN /\ a.won = won /\ a.open = open /\ a.outside = OpenSeen(k) \ open
     /\ a.available /\ k.rules.home # None =>
          /\ a.figures.closed_won = HomeSum(k, won)
          /\ a.figures.commit = HomeSum(k, inCategory({"COMMIT"}))
          /\ a.figures.best_case = HomeSum(k, inCategory({"COMMIT", "BEST_CASE"}))
          /\ a.figures.pipeline = HomeSum(k, {i \in open : deals[i].category # "OMIT"})
          /\ a.figures.supported_commit + a.figures.challenged_commit = a.figures.commit
ExactHygiene(k, a) ==
  LET due == {i \in OpenSeen(k) : Overdue(deals[i], AsOf(k))}
      moved == {a.ops[n].deal : n \in DOMAIN a.ops}
  IN /\ moved \subseteq due /\ Cardinality(due) = Cardinality(moved) + a.remaining
     /\ \A i \in moved, j \in due \ moved : i < j
Exact(k, a) ==
  CASE k.job.kind = "triage" -> ExactTriage(k, a)
    [] k.job.kind = "forecast" -> ExactForecast(k, a)
    [] k.job.kind = "hygiene" -> ExactHygiene(k, a)
QuietIsExact ==
  [][\A c \in Calls :
       ~Answered(c) /\ Answered(c)' /\ ~calls[c].dirty /\ ~calls'[c].answer.truncated
       => Exact(calls[c], calls'[c].answer)]_vars

\* A deal that is won, reopened or moved between the two searches of a forecast is counted in one
\* place only (forecast.py:322).
CountedOnce ==
  \A c \in Calls :
    Answered(c) /\ calls[c].job.kind = "forecast" =>
      LET a == calls[c].answer IN
      /\ a.won \cap (a.open \cup a.outside) = {} /\ a.open \cap a.outside = {}
      /\ Cardinality(a.won \cup a.open \cup a.outside) <= Cardinality(Ids)

\* Whatever changed while it read: a task is created only after the move of its own deal, each deal
\* is moved once, to a day on which it is not past due, from the day undo will put back, and the
\* changeset fits (bulk_hygiene.py:108).
MovesAreSound ==
  \A c \in Calls :
    Answered(c) /\ calls[c].job.kind = "hygiene" =>
      LET a == calls[c].answer
          k == calls[c]
          Moves(i) == {n \in DOMAIN a.ops : a.ops[n].op = "update" /\ a.ops[n].deal = i}
      IN /\ Len(a.ops) <= MaxOps /\ a.target >= AsOf(k) /\ a.taskDue <= a.target
         /\ \A n \in DOMAIN a.ops :
              /\ Cardinality(Moves(a.ops[n].deal)) = 1
              /\ a.ops[n].deal \in DOMAIN a.originals /\ a.originals[a.ops[n].deal] < AsOf(k)
              /\ a.ops[n].op = "task" => a.ops[n].dependsOn \in Moves(a.ops[n].deal) /\ a.ops[n].dependsOn < n

\* Every call that starts ends, through refusals, sleepers holding the lock and moving pages.
CallsEnd == \A c \in Calls : ~At(c, "idle") ~> At(c, "done")
=============================================================================
