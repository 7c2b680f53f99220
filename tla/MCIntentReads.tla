--------------------------- MODULE MCIntentReads ---------------------------
(* Months of three days; the thirteenth month is days 34 to 36, and today is day 35. *)
EXTENDS IntentReads

CONSTANTS c1, c2, c3

Month3 == [m \in 0..16 |-> 3 * m]
Stages == "s1" :> [label |-> "L1", closed |-> FALSE, won |-> FALSE, probability |-> 20]
       @@ "s2" :> [label |-> "L2", closed |-> TRUE, won |-> TRUE, probability |-> 100]
People == "o1" :> [user |-> "u1", email |-> "a@x", name |-> "Ann"]
       @@ "o2" :> [user |-> "u2", email |-> "b@x", name |-> "Ann B"]
Parts == {<<"Ann", "o1">>, <<"Ann", "o2">>, <<"@x", "o1">>, <<"@x", "o2">>}

Fresh == [stage |-> "s1", category |-> "COMMIT", close |-> 37, contacted |-> None, next |-> 36, nextStep |-> FALSE,
          entered |-> None, amount |-> 2, currency |-> "eur", home |-> None, forecastP |-> None, stageP |-> None,
          closed |-> FALSE, won |-> FALSE, owner |-> "o1"]
Due == [Fresh EXCEPT !.close = 34, !.contacted = 30, !.next = 33, !.amount = 3, !.stageP = 30]
Won == [Fresh EXCEPT !.stage = "s2", !.close = 35, !.closed = TRUE, !.won = TRUE]
Slipped == [Fresh EXCEPT !.close = 32, !.category = "PIPELINE", !.entered = 20, !.home = 4, !.forecastP = 90]
Foreign == [Fresh EXCEPT !.currency = "usd", !.category = "BEST_CASE", !.owner = "o2"]

SomePortals == {<<Due, Slipped, Fresh>>, <<Won, Due, Foreign>>, <<Fresh, Fresh, Due>>}
SomeEdits == {Due, Won}

Strict == [asOf |-> None, defaultOwner |-> None, home |-> "eur", silentDays |-> 3, stalledDays |-> 10,
           stalledBy |-> "L2" :> 5, probability |-> "L1" :> 35, inflatedBelow |-> 40, sandbagAbove |-> 30,
           codes |-> {"OVERDUE", "SILENT", "NO_NEXT", "STALLED"},
           weights |-> "OVERDUE" :> 4 @@ "SILENT" :> 3 @@ "NO_NEXT" :> 2 @@ "STALLED" :> 1,
           silentScope |-> {"COMMIT"}, noNextScope |-> {"COMMIT", "BEST_CASE"}, fiscalStart |-> 1]
Loose == [Strict EXCEPT !.asOf = 38, !.defaultOwner = "a@x", !.home = None, !.codes = {"OVERDUE"}, !.fiscalStart = 4]
SomeRules == {Strict, Loose, None}

Quarter1 == [kind |-> "quarter", year |-> 1, n |-> 1]
Ask0 == [kind |-> "triage", owner |-> None, asOf |-> None, limit |-> 1, period |-> Quarter1,
         newDate |-> None, addTask |-> FALSE]
SomeJobs == {Ask0, [Ask0 EXCEPT !.owner = "me", !.limit = 3, !.asOf = 36],
             [Ask0 EXCEPT !.kind = "forecast"],
             [Ask0 EXCEPT !.kind = "hygiene", !.addTask = TRUE],
             [Ask0 EXCEPT !.kind = "hygiene", !.owner = "Ann", !.newDate = 35]}

OneJob == {Ask0}
OnePortal == {<<Fresh, Fresh, Foreign>>}
OneRules == {Strict}
=============================================================================
