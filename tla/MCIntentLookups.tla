-------------------------- MODULE MCIntentLookups --------------------------
(* Deals 1 to 3, companies 11 and 12, contacts 21 to 23; 50 would be an id nobody has. *)
EXTENDS IntentLookups

SomeRatio(a, b) == IF a = b THEN 100 ELSE IF Shares(a, b) THEN 60 ELSE 20

Deal(name, open) == [name |-> name, open |-> open, close |-> 5, amount |-> 10, currency |-> None, owner |-> "o1"]
Person(first, email, host, main) ==
  [first |-> first, last |-> <<"doe">>, email |-> email, company |-> <<>>, host |-> host, main |-> main, contacted |-> FALSE]
Portal(deals, middle, links) ==
  [deal |-> deals,
   company |-> 11 :> [name |-> <<"acme">>, domain |-> "acme.com"] @@ 12 :> [name |-> <<"acme", "labs">>, domain |-> None],
   contact |-> 21 :> Person(<<"jane">>, "jd@acme.com", "acme.com", 11)
            @@ 22 :> Person(middle, None, None, None)
            @@ 23 :> Person(<<"john">>, None, None, 11),
   links |-> {<<1, 11>>, <<1, 21>>, <<21, 11>>, <<22, 12>>, <<23, 11>>} \cup links,
   primary |-> {<<1, 11>>}, engaged |-> {21}]

SomePortals ==
  {Portal(1 :> Deal(<<"renewal">>, TRUE) @@ 2 :> Deal(second, open) @@ 3 :> Deal(<<"renewal", "acme">>, FALSE), middle, links) :
    second \in {<<"renewal">>, <<"launch">>}, open \in BOOLEAN, middle \in {<<"jane">>, <<"jane", "marie">>},
    links \in {{}, {<<2, 11>>, <<1, 12>>}, {<<1, 22>>, <<22, 11>>}}}

\* A call is logged, a deal is repriced, closed or moved to another company.
SomeEdits(p) ==
  {[p EXCEPT !.contact[c].contacted = TRUE, !.engaged = @ \cup {c}] : c \in {22, 23}}
  \cup {[p EXCEPT !.deal[1].amount = 12], [p EXCEPT !.deal[2].open = FALSE], [p EXCEPT !.links = @ \cup {<<2, 12>>}]}

Query(text) == [text |-> text, digits |-> None, email |-> None, domain |-> None]
Address == [Query(<<"jd@acme.com">>) EXCEPT !.email = "jd@acme.com", !.domain = "acme.com"]
Ask(kind, q) == [kind |-> kind, type |-> "deal", q |-> q, company |-> None, close |-> None, amount |-> None,
                 currency |-> None, people |-> <<>>]
Met(first, email) == [first |-> <<first>>, last |-> <<"doe">>, email |-> email]

SomeJobs ==
  {[Ask("record", q) EXCEPT !.type = "contact"] : q \in {Address, Query(<<"jane", "doe">>), Query(<<"marie">>)}}
  \cup {[Ask("record", q) EXCEPT !.type = "company"] :
          q \in {Query(<<"acme">>), [Query(<<"acme.com">>) EXCEPT !.domain = "acme.com"]}}
  \cup {Ask("deal", Query(<<"renewal">>)), Ask("deal", [Query(<<"1">>) EXCEPT !.digits = 1]),
        Ask("deal", [Query(<<"50">>) EXCEPT !.digits = 50])}
  \cup {[Ask("person", q) EXCEPT !.company = k] :
          q \in {Address, Query(<<"doe">>), Query(<<"jane", "doe">>), Query(<<"doe", "marie">>), Query(<<"roe">>)},
          k \in {None, [text |-> <<"acme">>, domain |-> None], [text |-> <<"acme.com">>, domain |-> "acme.com"]}}
  \cup {[Ask("meeting", q) EXCEPT !.amount = 20, !.close = 5, !.currency = money, !.people = people] :
          q \in {Query(<<"renewal">>), Query(<<"acme">>), [Query(<<"1">>) EXCEPT !.digits = 1]},
          money \in {"eur", "usd"},
          people \in {<<>>, <<Met("jane", None), Met("john", None)>>, <<Met("ann", "a@b"), Met("jane", "jd@acme.com")>>,
                      <<Met("ann", "a@b"), Met("anna", "a@b")>>}}
  \cup {[Ask("meeting", q) EXCEPT !.amount = 20] : q \in {Query(<<"labs">>), Query(<<"acme", "corp">>)}}
  \cup {[Ask("meeting", Query(<<"renewal">>)) EXCEPT !.currency = "usd"]}
=============================================================================
