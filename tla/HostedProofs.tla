---------------------------- MODULE HostedProofs -----------------------------
(***************************************************************************)
(* Theorems about HostedSession for any people, calls, browsers, pool size  *)
(* and bounds: whose grants a call uses, what it sends, the clients it      *)
(* leaves behind, and the link it may answer with.                          *)
(***************************************************************************)
EXTENDS HostedSession, SequenceTheorems, TLAPS

-----------------------------------------------------------------------------
(* Sequences as functions *)

LEMMA SeqIsFunction ==
  ASSUME NEW S, NEW q \in Seq(S)
  PROVE  Len(q) \in Nat /\ DOMAIN q = 1..Len(q) /\ q \in [1..Len(q) -> S]
  BY LenProperties

LEMMA FunctionIsSeq ==
  ASSUME NEW S, NEW n \in Nat, NEW q \in [1..n -> S]
  PROVE  q \in Seq(S) /\ Len(q) = n
  BY SeqDef, LenProperties

LEMMA Appended ==
  ASSUME NEW S, NEW q \in Seq(S), NEW e \in S
  PROVE  /\ Append(q, e) \in Seq(S) /\ Len(Append(q, e)) = Len(q) + 1
         /\ \A i \in 1..Len(q) : Append(q, e)[i] = q[i]
         /\ Append(q, e)[Len(q) + 1] = e
  BY AppendProperties

-----------------------------------------------------------------------------
(* Types, and who owns what *)

Conns == [subject : Subjects, grant : Nat, access : Nat, refresh : Nat]
Portals == [portal : Nat, token : Nat \X Nat, refresh : Nat \X Nat]
ClientRecords == [subject : Subjects, portal : Portals, open : BOOLEAN, lock : Requests \union {None}]
Calls == [pc : ReqPC, subject : Subjects \union {None}, kind : {"read", "write"},
          held : Conns \union {None}, client : Nat, left : Nat, forced : BOOLEAN,
          victims : SUBSET Nat, refused : Nat \union {None}, sent : Nat, answer : Answers]
Tickets == [subject : Subjects, live : BOOLEAN]
States == [subject : Subjects, live : BOOLEAN, ticket : Nat, code : {"none", "ready", "used"}]
Visits == [pc : BrowserPC, item : Nat, entry : Subjects \union {None}, grant : Nat]

\* The grant was given by that person.
GaveIn(gs, s, g) == g \in 1..Len(gs) /\ gs[g].owner = s
Owned(c, s) == c \in Conns /\ c.subject = s /\ GaveIn(grants, s, c.grant)

StoreOwned ==
  /\ connections \in [Subjects -> Conns \union {None}]
  /\ \A s \in Subjects : connections[s] # None => Owned(connections[s], s)

\* A state goes back to the ticket of the same person, and so does what a
\* browser has taken from either.
FlowOwned ==
  /\ tickets \in Seq(Tickets) /\ states \in Seq(States)
  /\ \A k \in 1..Len(states) : /\ states[k].ticket \in 1..Len(tickets)
                               /\ tickets[states[k].ticket].subject = states[k].subject
VisitOwned(v) ==
  /\ v.pc \in {"ticket", "deleteTicket", "mint"} => v.item \in 1..Len(tickets)
  /\ v.pc \in {"deleteTicket", "mint"} => v.entry = tickets[v.item].subject
  /\ v.pc \in {"consent", "state", "deleteState", "exchange"} => v.item \in 1..Len(states)
  /\ v.pc \in {"deleteState", "exchange"} => v.entry = states[v.item].subject
  /\ v.pc \in {"hub", "put"} => v.entry \in Subjects /\ GaveIn(grants, v.entry, v.grant)
VisitsOwned == /\ browser \in [Browsers -> Visits]
               /\ \A b \in Browsers : VisitOwned(browser[b])

ClientsOwned ==
  /\ clients \in Seq(ClientRecords)
  /\ \A c \in 1..Len(clients) : GaveIn(grants, clients[c].subject, clients[c].portal.token[1])
PoolKnown == pool \in Seq(1..Len(clients))

\* The steps at which a call holds a connection, and has a client.
Holding == {"refresh", "store", "acquire", "clientRefresh", "clientStore"}
Calling == {"close", "fresh", "force", "clientRead", "clientRefresh", "clientStore", "send", "resend"}
CallOwned(q) ==
  /\ q.pc # "new" => q.subject \in Subjects
  /\ q.pc \in Holding => Owned(q.held, q.subject)
  /\ q.pc \in Calling => q.client # 0
  /\ q.client # 0 => q.client \in 1..Len(clients) /\ clients[q.client].subject = q.subject
  /\ q.pc \in {"new", "read", "reread", "refresh", "store", "guide", "acquire"} => q.client = 0
  /\ q.victims \subseteq 1..Len(clients)
CallsOwned == /\ req \in [Requests -> Calls]
              /\ \A r \in Requests : CallOwned(req[r])

GrantsKnown == grants \in Seq(GrantRecords)
Inv == GrantsKnown /\ StoreOwned /\ FlowOwned /\ VisitsOwned /\ ClientsOwned /\ PoolKnown /\ CallsOwned

-----------------------------------------------------------------------------
(* HubSpot's grants *)

\* Grants are added, and stay with the person who gave them; gone is gone.
Since(old, new) ==
  /\ new \in Seq(GrantRecords) /\ Len(old) <= Len(new)
  /\ \A g \in 1..Len(old) : /\ new[g].owner = old[g].owner
                            /\ old[g].revoked => new[g].revoked

LEMMA SinceItself == \A gs \in Seq(GrantRecords) : Since(gs, gs)
  BY LenProperties DEF Since

LEMMA GaveSince ==
  ASSUME NEW old \in Seq(GrantRecords), NEW new, Since(old, new)
  PROVE  \A s, g : GaveIn(old, s, g) => GaveIn(new, s, g)
  BY LenProperties DEF Since, GaveIn

LEMMA ChangedGrant ==
  ASSUME NEW gs \in Seq(GrantRecords), NEW g \in 1..Len(gs), NEW e \in GrantRecords,
         e.owner = gs[g].owner, gs[g].revoked => e.revoked
  PROVE  Since(gs, [gs EXCEPT ![g] = e])
  <1>1. /\ [gs EXCEPT ![g] = e] \in Seq(GrantRecords) /\ Len([gs EXCEPT ![g] = e]) = Len(gs)
        /\ \A j \in 1..Len(gs) : [gs EXCEPT ![g] = e][j] = IF j = g THEN e ELSE gs[j]
    BY ExceptSeq
  <1> QED BY <1>1, LenProperties DEF Since

\* What a refresh answers: tokens that are numbers, or no tokens.
LEMMA RefreshOutcomes ==
  ASSUME GrantsKnown, NEW g \in Grants, NEW token, NEW out \in RefreshTokensOnly(g, token)
  PROVE  /\ Since(grants, out.grants)
         /\ out.status \in {"ok", "lost", "busy", "refused"}
         /\ out.status = "ok" => /\ out.body.access \in Nat
                                 /\ out.body.refresh # None => out.body.refresh \in Nat
         /\ out.status = "refused" => ~Honours(g, token)
  <1>0. grants[g] \in GrantRecords
    BY ElementOfSeq DEF Grants, GrantsKnown
  <1>1. CASE ~Honours(g, token)
    <2>1. out = [status |-> "refused", grants |-> grants, body |-> None]
      BY <1>1 DEF RefreshTokensOnly
    <2> QED BY <1>1, <2>1, SinceItself DEF GrantsKnown
  <1>2. CASE Honours(g, token)
    <2>1. \/ \E st \in {"ok", "lost"}, rotate \in Rotates :
               out = [status |-> st, grants |-> Renewed(g, rotate), body |-> RenewedBody(g, rotate)]
          \/ out = [status |-> "busy", grants |-> grants, body |-> None]
      BY <1>2 DEF RefreshTokensOnly
    <2>2. ASSUME NEW rotate \in Rotates PROVE Since(grants, Renewed(g, rotate))
      <3>1. grants[g].refresh \in Nat /\ grants[g].refresh + 1 \in Nat /\ grants[g].issued + 1 \in Nat
        BY <1>0 DEF GrantRecords
      <3>2. PICK m, n : /\ m \in Nat /\ m = grants[g].issued + 1
                        /\ n \in Nat /\ n = IF rotate THEN grants[g].refresh + 1 ELSE grants[g].refresh
        BY <3>1, Zenon
      <3> DEFINE e == [grants[g] EXCEPT !.issued = m, !.refresh = n]
      <3>4. Renewed(g, rotate) = [grants EXCEPT ![g] = e]
        BY <3>2, Zenon DEF Renewed
      <3>5. e \in GrantRecords /\ e.owner = grants[g].owner /\ e.revoked = grants[g].revoked
        BY <1>0, <3>2 DEF GrantRecords
      <3> HIDE DEF e
      <3>6. Since(grants, [grants EXCEPT ![g] = e])
        BY <3>5, ChangedGrant DEF Grants, GrantsKnown
      <3> QED BY <3>4, <3>6
    <2>3. CASE out = [status |-> "busy", grants |-> grants, body |-> None]
      BY <2>3, SinceItself DEF GrantsKnown
    <2>4. ASSUME NEW st \in {"ok", "lost"}, NEW rotate \in Rotates,
                 out = [status |-> st, grants |-> Renewed(g, rotate), body |-> RenewedBody(g, rotate)]
          PROVE  /\ Since(grants, out.grants) /\ out.status \in {"ok", "lost"}
                 /\ out.body.access \in Nat
                 /\ out.body.refresh # None => out.body.refresh \in Nat
      <3>1. out.grants = Renewed(g, rotate) /\ out.body = RenewedBody(g, rotate) /\ out.status = st
        BY <2>4
      <3>2. Since(grants, out.grants)
        BY <2>2, <3>1
      <3>3. out.body.access \in Nat /\ (out.body.refresh # None => out.body.refresh \in Nat)
        BY <1>0, <3>1 DEF RenewedBody, GrantRecords
      <3> QED BY <3>1, <3>2, <3>3
    <2> QED BY <2>1, <2>3, <2>4
  <1> QED BY <1>1, <1>2

-----------------------------------------------------------------------------
(* What a step leaves as it was stays owned *)

LEMMA StoreStays ==
  ASSUME Inv, Since(grants, grants'), UNCHANGED connections
  PROVE  StoreOwned'
  BY GaveSince DEF Inv, GrantsKnown, StoreOwned, Owned

LEMMA StorePutOwned ==
  ASSUME Inv, UNCHANGED grants, NEW c, Owned(c, c.subject), NEW put \in StorePut(c),
         connections' = put.connections
  PROVE  StoreOwned'
  <1>1. c.subject \in Subjects /\ c \in Conns
    BY DEF Owned, Conns
  <1>2. connections' = [connections EXCEPT ![c.subject] = c] \/ connections' = connections
    BY DEF StorePut
  <1>3. StoreOwned
    BY DEF Inv
  <1>4. connections' \in [Subjects -> Conns \union {None}]
    BY <1>1, <1>2, <1>3 DEF StoreOwned
  <1>5. ASSUME NEW s \in Subjects, connections'[s] # None
        PROVE  Owned(connections'[s], s)
    <2>1. connections'[s] = connections[s] \/ (s = c.subject /\ connections'[s] = c)
      BY <1>1, <1>2, <1>3 DEF StoreOwned
    <2>2. CASE connections'[s] = connections[s]
      BY <1>3, <1>5, <2>2 DEF StoreOwned
    <2>3. CASE s = c.subject /\ connections'[s] = c
      BY <2>3
    <2> QED BY <2>1, <2>2, <2>3
  <1>6. ASSUME NEW s \in Subjects, connections'[s] # None
        PROVE  Owned(connections[s], s)'
    BY <1>5, <1>6 DEF Owned
  <1> QED BY <1>4, <1>6 DEF StoreOwned

LEMMA FlowStays ==
  ASSUME Inv, Since(grants, grants'), UNCHANGED flow
  PROVE  FlowOwned' /\ VisitsOwned'
  BY GaveSince DEF Inv, GrantsKnown, flow, FlowOwned, VisitsOwned, VisitOwned

\* Clients are added, and stay with their person.
ClientsGrow == /\ Len(clients) <= Len(clients') /\ Len(clients') \in Nat
               /\ \A c \in 1..Len(clients) : clients'[c].subject = clients[c].subject

LEMMA ClientsStay ==
  ASSUME Inv, Since(grants, grants'), UNCHANGED <<clients, pool>>
  PROVE  ClientsOwned' /\ PoolKnown' /\ ClientsGrow
  BY GaveSince, LenProperties DEF Inv, GrantsKnown, ClientsOwned, PoolKnown, ClientsGrow

LEMMA CallStays ==
  ASSUME Inv, Since(grants, grants'), ClientsGrow, NEW v \in Requests, req'[v] = req[v]
  PROVE  CallOwned(req[v])'
  <1>1. CallOwned(req[v])
    BY DEF Inv, CallsOwned
  <1>2. \A c, s : Owned(c, s) => c \in Conns /\ c.subject = s /\ GaveIn(grants', s, c.grant)
    BY GaveSince DEF Inv, GrantsKnown, Owned
  <1>3. Len(clients) \in Nat
    BY LenProperties DEF Inv, ClientsOwned
  <1> QED BY <1>1, <1>2, <1>3 DEF CallOwned, Owned, ClientsGrow

LEMMA CallsStay ==
  ASSUME Inv, Since(grants, grants'), ClientsGrow, UNCHANGED req
  PROVE  CallsOwned'
  BY CallStays DEF Inv, CallsOwned

\* One call moves, the others stay.
Moves(r) == /\ req' \in [Requests -> Calls]
            /\ \A v \in Requests \ {r} : req'[v] = req[v]
            /\ CallOwned(req[r])'

LEMMA CallMoves ==
  ASSUME Inv, Since(grants, grants'), ClientsGrow, NEW r \in Requests, Moves(r)
  PROVE  CallsOwned'
  BY CallStays DEF Moves, CallsOwned

LEMMA GrantsAndTheCall ==
  ASSUME Inv, Since(grants, grants'), UNCHANGED <<connections, flow, pool, clients>>,
         NEW r \in Requests, Moves(r)
  PROVE  Inv'
  <1>1. GrantsKnown'
    BY DEF Since, GrantsKnown
  <1> QED BY <1>1, StoreStays, FlowStays, ClientsStay, CallMoves DEF Inv

LEMMA OnlyTheCall ==
  ASSUME Inv, UNCHANGED <<grants, connections, flow, pool, clients>>, NEW r \in Requests, Moves(r)
  PROVE  Inv'
  BY SinceItself, GrantsAndTheCall DEF Inv, GrantsKnown

\* Cache entries are added, and stay with their person.
EntriesKept(old, new) == /\ Len(old) <= Len(new) /\ Len(new) \in Nat
                         /\ \A i \in 1..Len(old) : new[i].subject = old[i].subject

FlowKept ==
  /\ tickets' \in Seq(Tickets) /\ states' \in Seq(States)
  /\ EntriesKept(tickets, tickets') /\ EntriesKept(states, states')
  /\ \A k \in 1..Len(states') : /\ states'[k].ticket \in 1..Len(tickets')
                                /\ tickets'[states'[k].ticket].subject = states'[k].subject

LEMMA FlowMoves ==
  ASSUME Inv, Since(grants, grants'), FlowKept
  PROVE  FlowOwned' /\ \A b \in Browsers : browser'[b] = browser[b] => VisitOwned(browser[b])'
  <1>1. FlowOwned'
    BY DEF FlowKept, FlowOwned
  <1>2. ASSUME NEW b \in Browsers, browser'[b] = browser[b] PROVE VisitOwned(browser[b])'
    <2>1. \A s, g : GaveIn(grants, s, g) => GaveIn(grants', s, g)
      BY GaveSince DEF Inv, GrantsKnown
    <2>2. Len(tickets) \in Nat /\ Len(states) \in Nat
      BY LenProperties DEF Inv, FlowOwned
    <2>3. VisitOwned(browser[b])
      BY DEF Inv, VisitsOwned
    <2> QED BY <1>2, <2>1, <2>2, <2>3 DEF VisitOwned, EntriesKept, FlowKept
  <1> QED BY <1>1, <1>2

LEMMA FlowUnchanged ==
  ASSUME Inv, UNCHANGED <<tickets, states>>
  PROVE  FlowKept
  <1>1. Len(tickets) \in Nat /\ Len(states) \in Nat
    BY LenProperties DEF Inv, FlowOwned
  <1> QED BY <1>1 DEF FlowKept, EntriesKept, Inv, FlowOwned

LEMMA TicketIssued ==
  ASSUME Inv, NEW s \in Subjects, IssueTicket(s)
  PROVE  tickets' \in Seq(Tickets) /\ EntriesKept(tickets, tickets')
  <1>1. PICK set \in CacheSet(tickets, [subject |-> s, live |-> TRUE]) : tickets' = set.entries
    BY DEF IssueTicket
  <1>2. PICK e \in Tickets : tickets' = Append(tickets, e)
    <2>1. PICK live \in BOOLEAN :
             set = [ok |-> live, entries |-> Append(tickets, [[subject |-> s, live |-> TRUE] EXCEPT !.live = live])]
      BY <1>1 DEF CacheSet
    <2>2. PICK e : e = [[subject |-> s, live |-> TRUE] EXCEPT !.live = live]
      OBVIOUS
    <2>3. e \in Tickets
      BY <2>2 DEF Tickets
    <2>4. tickets' = Append(tickets, e)
      BY <1>1, <2>1, <2>2
    <2> QED BY <2>3, <2>4
  <1> QED BY <1>2, Appended, LenProperties DEF Inv, FlowOwned, EntriesKept

-----------------------------------------------------------------------------
(* The steps of a call *)

LEMMA KnownCall ==
  ASSUME Inv, NEW r \in Requests
  PROVE  /\ req \in [Requests -> Calls] /\ req[r] \in Calls /\ CallOwned(req[r])
         /\ None \notin Subjects
  BY ConnectionsAssumption DEF Inv, CallsOwned

LEMMA TokensOwned ==
  ASSUME NEW s, NEW c, Owned(c, s), NEW body, body.access \in Nat,
         body.refresh # None => body.refresh \in Nat
  PROVE  Owned(WithTokens(c, body), s)
  <1>1. WithTokens(c, body) \in Conns /\ WithTokens(c, body).subject = c.subject
        /\ WithTokens(c, body).grant = c.grant
    BY DEF Owned, Conns, WithTokens
  <1> QED BY <1>1 DEF Owned

\* The call keeps its person and its client, and holds what it held or what it may.
LEMMA MovesAs ==
  ASSUME Inv, Since(grants, grants'), ClientsGrow, NEW r \in Requests, NEW q \in Calls,
         req' = [req EXCEPT ![r] = q],
         req[r].pc # "new", q.pc # "new",
         q.subject = req[r].subject, q.client = req[r].client, q.victims \subseteq req[r].victims,
         q.pc \in Calling => req[r].client # 0,
         q.pc \in {"reread", "refresh", "store", "guide", "acquire"} => req[r].client = 0,
         q.pc = "read" => req[r].client = 0,
         q.pc \in Holding => \/ req[r].pc \in Holding /\ q.held = req[r].held
                            \/ Owned(q.held, q.subject)
  PROVE  Moves(r)
  <1>1. req' \in [Requests -> Calls] /\ req'[r] = q /\ \A v \in Requests \ {r} : req'[v] = req[v]
    BY KnownCall
  <1>2. \A c, s : Owned(c, s) => c \in Conns /\ c.subject = s /\ GaveIn(grants', s, c.grant)
    BY GaveSince DEF Inv, GrantsKnown, Owned
  <1>3. Len(clients) \in Nat
    BY LenProperties DEF Inv, ClientsOwned
  <1>4. CallOwned(req[r])'
    BY <1>1, <1>2, <1>3, KnownCall DEF CallOwned, Owned, ClientsGrow
  <1> QED BY <1>1, <1>4 DEF Moves

LEMMA Ends ==
  ASSUME Inv, Since(grants, grants'), ClientsGrow, NEW r \in Requests, req[r].pc # "new",
         NEW a \in Answers, Answer(r, a)
  PROVE  Moves(r)
  <1>1. PICK q : q = [req[r] EXCEPT !.pc = "done", !.answer = a]
    OBVIOUS
  <1>2. req' = [req EXCEPT ![r] = q] /\ q \in Calls /\ q.pc = "done"
        /\ q.subject = req[r].subject /\ q.client = req[r].client /\ q.victims = req[r].victims
    BY ZenonT(60), <1>1, KnownCall DEF Answer, Calls, ReqPC
  <1> QED BY <1>2, MovesAs DEF Calling, Holding

LEMMA Goes ==
  ASSUME Inv, Since(grants, grants'), ClientsGrow, NEW r \in Requests, req[r].pc # "new",
         NEW pc \in ReqPC \ {"new"}, Goto(r, pc),
         pc \in Calling => req[r].client # 0,
         pc \in {"read", "reread", "refresh", "store", "guide", "acquire"} => req[r].client = 0,
         pc \in Holding => req[r].pc \in Holding
  PROVE  Moves(r)
  <1>1. PICK q : q = [req[r] EXCEPT !.pc = pc]
    OBVIOUS
  <1>2. req' = [req EXCEPT ![r] = q] /\ q \in Calls /\ q.pc = pc /\ q.held = req[r].held
        /\ q.subject = req[r].subject /\ q.client = req[r].client /\ q.victims = req[r].victims
    BY <1>1, KnownCall DEF Goto, Calls
  <1> QED BY <1>2, MovesAs

LEMMA ArriveInv ==
  ASSUME Inv, NEW r \in Requests, Arrive(r)
  PROVE  Inv'
  <1>1. PICK s, kind, n :
          /\ s \in Subjects /\ kind \in {"read", "write"} /\ n \in Nat
          /\ req' = [req EXCEPT ![r].pc = "read", ![r].subject = s, ![r].kind = kind, ![r].left = n]
    <2>1. PICK s \in Subjects, kind \in {"read", "write"} :
             req' = [req EXCEPT ![r].pc = "read", ![r].subject = s, ![r].kind = kind,
                                ![r].left = IF kind = "read" THEN ReadAttempts ELSE 1]
      BY DEF Arrive
    <2>2. PICK n \in Nat : n = IF kind = "read" THEN ReadAttempts ELSE 1
      BY SessionAssumption
    <2>3. req' = [req EXCEPT ![r].pc = "read", ![r].subject = s, ![r].kind = kind, ![r].left = n]
      BY <2>1, <2>2
    <2> QED BY <2>2, <2>3, Zenon
  <1>2. /\ req' \in [Requests -> Calls] /\ \A v \in Requests \ {r} : req'[v] = req[v]
        /\ req'[r].pc = "read" /\ req'[r].subject = s
        /\ req'[r].client = req[r].client /\ req'[r].victims = req[r].victims
    <2>1. PICK q : q = [req[r] EXCEPT !.pc = "read", !.subject = s, !.kind = kind, !.left = n]
      OBVIOUS
    <2>2. req[r] \in Calls /\ req \in [Requests -> Calls]
      BY KnownCall
    <2>3. /\ q \in Calls /\ q.pc = "read" /\ q.subject = s
          /\ q.client = req[r].client /\ q.victims = req[r].victims
      BY <1>1, <2>1, <2>2 DEF Calls, ReqPC
    <2>4. req' = [req EXCEPT ![r] = q]
      BY <1>1, <2>1, <2>2
    <2> QED BY <2>2, <2>3, <2>4
  <1>3. CallOwned(req[r])'
    BY <1>2, KnownCall DEF CallOwned, Holding, Calling, Arrive, Pc
  <1> QED BY <1>2, <1>3, OnlyTheCall DEF Arrive, Moves

LEMMA ReadConnectionInv ==
  ASSUME Inv, NEW r \in Requests, ReadConnection(r)
  PROVE  Inv'
  <1>1. PICK got \in StoreGet(Subject(r)) :
             \/ ~got.ok /\ Answer(r, "error")
             \/ got.ok /\ got.found = None /\ Goto(r, "guide")
             \/ /\ got.ok /\ got.found # None
                /\ req' = [req EXCEPT ![r].held = got.found, ![r].pc =
                             IF ~IsExpired(got.found) THEN "acquire"
                             ELSE IF Pc(r, "read") THEN "reread" ELSE "refresh"]
    BY DEF ReadConnection
  <1>2. req[r].pc \in {"read", "reread"} /\ req[r].subject \in Subjects /\ req[r].client = 0
    BY KnownCall DEF ReadConnection, CallOwned
  <1>3. got.ok => got.found = connections[req[r].subject]
    BY DEF StoreGet, Subject
  <1>4. Since(grants, grants') /\ ClientsGrow
    BY SinceItself, ClientsStay DEF ReadConnection, Inv, GrantsKnown
  <1>5. CASE ~got.ok /\ Answer(r, "error")
    BY <1>2, <1>4, <1>5, Ends, OnlyTheCall DEF ReadConnection, Answers
  <1>6. CASE got.ok /\ got.found = None /\ Goto(r, "guide")
    BY <1>2, <1>4, <1>6, Goes, OnlyTheCall DEF ReadConnection, ReqPC, Calling, Holding
  <1>7. CASE /\ got.ok /\ got.found # None
             /\ req' = [req EXCEPT ![r].held = got.found, ![r].pc =
                          IF ~IsExpired(got.found) THEN "acquire"
                          ELSE IF Pc(r, "read") THEN "reread" ELSE "refresh"]
    <2>1. Owned(got.found, req[r].subject)
      BY <1>2, <1>3, <1>7 DEF Inv, StoreOwned
    <2>2. PICK pc \in {"acquire", "reread", "refresh"} :
             req' = [req EXCEPT ![r].held = got.found, ![r].pc = pc]
      BY <1>7
    <2>3. PICK q : q = [req[r] EXCEPT !.held = got.found, !.pc = pc]
      OBVIOUS
    <2>4. req' = [req EXCEPT ![r] = q] /\ q \in Calls /\ q.pc = pc /\ q.held = got.found
          /\ q.subject = req[r].subject /\ q.client = req[r].client /\ q.victims = req[r].victims
      <3>1. req[r] \in Calls /\ req \in [Requests -> Calls] /\ got.found \in Conns /\ pc \in ReqPC
        BY <2>1, <2>2, KnownCall DEF ReqPC, Owned
      <3>2. req' = [req EXCEPT ![r] = q]
        BY <2>2, <2>3, <3>1
      <3> QED BY <2>3, <3>1, <3>2 DEF Calls
    <2>5. Moves(r)
      BY <1>2, <1>4, <2>1, <2>4, MovesAs DEF Calling
    <2> QED BY <2>5, OnlyTheCall DEF ReadConnection
  <1> QED BY <1>1, <1>5, <1>6, <1>7

LEMMA RefreshGrantInv ==
  ASSUME Inv, NEW r \in Requests, RefreshGrant(r)
  PROVE  Inv'
  <1>1. PICK out \in RefreshTokensOnly(req[r].held.grant, req[r].held.refresh) :
          /\ grants' = out.grants
          /\ IF out.status = "ok"
               THEN req' = [req EXCEPT ![r].pc = "store", ![r].held = WithTokens(req[r].held, out.body)]
               ELSE IF ReconnectRequired(out.status)
                 THEN req' = [req EXCEPT ![r].pc = "guide", ![r].refused = req[r].held.grant]
                 ELSE Answer(r, "transient")
    BY DEF RefreshGrant
  <1>2. /\ req[r].pc = "refresh" /\ req[r].client = 0 /\ Owned(req[r].held, req[r].subject)
        /\ req[r].held.grant \in Grants /\ req[r].held.grant \in Nat
    BY KnownCall DEF RefreshGrant, Pc, CallOwned, Holding, Owned, GaveIn, Grants, Conns
  <1>3. /\ Since(grants, grants')
        /\ out.status = "ok" => /\ out.body.access \in Nat
                                /\ out.body.refresh # None => out.body.refresh \in Nat
    BY <1>1, <1>2, RefreshOutcomes DEF Inv
  <1>4. ClientsGrow
    BY <1>3, ClientsStay DEF RefreshGrant
  <1>5. CASE out.status = "ok"
    <2>1. PICK c : c = WithTokens(req[r].held, out.body)
      OBVIOUS
    <2>2. Owned(c, req[r].subject)
      BY <1>2, <1>3, <1>5, <2>1, TokensOwned
    <2>3. PICK q : q = [req[r] EXCEPT !.pc = "store", !.held = c]
      OBVIOUS
    <2>4. req' = [req EXCEPT ![r].pc = "store", ![r].held = c]
      BY <1>1, <1>5, <2>1
    <2>5. req' = [req EXCEPT ![r] = q] /\ q \in Calls /\ q.pc = "store" /\ q.held = c
          /\ q.subject = req[r].subject /\ q.client = req[r].client /\ q.victims = req[r].victims
      BY ZenonT(60), <2>2, <2>3, <2>4, KnownCall DEF Calls, ReqPC, Owned
    <2>6. Moves(r)
      BY <1>2, <1>3, <1>4, <2>2, <2>5, MovesAs DEF Calling
    <2> QED BY <1>3, <2>6, GrantsAndTheCall DEF RefreshGrant
  <1>6. CASE out.status # "ok" /\ ReconnectRequired(out.status)
    <2>0. PICK g \in Nat : g = req[r].held.grant
      BY <1>2
    <2>1. PICK q : q = [req[r] EXCEPT !.pc = "guide", !.refused = g]
      OBVIOUS
    <2>2. req' = [req EXCEPT ![r].pc = "guide", ![r].refused = g]
      BY <1>1, <1>6, <2>0
    <2>3. req' = [req EXCEPT ![r] = q] /\ q \in Calls /\ q.pc = "guide"
          /\ q.subject = req[r].subject /\ q.client = req[r].client /\ q.victims = req[r].victims
      BY ZenonT(60), <2>1, <2>2, KnownCall DEF Calls, ReqPC
    <2>4. Moves(r)
      BY <1>2, <1>3, <1>4, <2>3, MovesAs DEF Calling, Holding
    <2> QED BY <1>3, <2>4, GrantsAndTheCall DEF RefreshGrant
  <1>7. CASE out.status # "ok" /\ ~ReconnectRequired(out.status)
    <2>1. Moves(r)
      BY <1>1, <1>2, <1>3, <1>4, <1>7, Ends DEF Answers
    <2> QED BY <1>3, <2>1, GrantsAndTheCall DEF RefreshGrant
  <1> QED BY <1>5, <1>6, <1>7

LEMMA StoreRefreshedInv ==
  ASSUME Inv, NEW r \in Requests, StoreRefreshed(r)
  PROVE  Inv'
  <1>1. PICK put \in StorePut(req[r].held) :
          /\ connections' = put.connections
          /\ IF put.ok THEN Goto(r, "acquire") ELSE Answer(r, "error")
    BY DEF StoreRefreshed
  <1>2. req[r].pc = "store" /\ req[r].client = 0 /\ Owned(req[r].held, req[r].held.subject)
    BY KnownCall DEF StoreRefreshed, Pc, CallOwned, Holding, Owned
  <1>3. Since(grants, grants') /\ GrantsKnown' /\ UNCHANGED grants
    BY SinceItself DEF StoreRefreshed, Inv, GrantsKnown
  <1>4. ClientsOwned' /\ PoolKnown' /\ ClientsGrow
    BY <1>3, ClientsStay DEF StoreRefreshed
  <1>5. StoreOwned'
    BY <1>1, <1>2, <1>3, StorePutOwned
  <1>6. Moves(r)
    <2>1. Goto(r, "acquire") => Moves(r)
      BY <1>2, <1>3, <1>4, Goes DEF ReqPC, Calling, Holding
    <2>2. Answer(r, "error") => Moves(r)
      BY <1>2, <1>3, <1>4, Ends DEF Answers
    <2> QED BY <1>1, <2>1, <2>2
  <1> QED BY <1>3, <1>4, <1>5, <1>6, FlowStays, CallMoves DEF Inv, StoreRefreshed

LEMMA GuideInv ==
  ASSUME Inv, NEW r \in Requests, Guide(r)
  PROVE  Inv'
  <1>1. req[r].pc = "guide" /\ req[r].subject \in Subjects
    BY KnownCall DEF Guide, Pc, CallOwned
  <1>2. Since(grants, grants') /\ GrantsKnown' /\ UNCHANGED <<grants, connections, states, browser, pool, clients>>
    BY SinceItself DEF Guide, Inv, GrantsKnown
  <1>3. StoreOwned' /\ ClientsOwned' /\ PoolKnown' /\ ClientsGrow
    BY <1>2, StoreStays, ClientsStay
  <1>4. tickets' \in Seq(Tickets) /\ EntriesKept(tickets, tickets') /\ EntriesKept(states, states')
    <2>1. EntriesKept(tickets, tickets) /\ tickets \in Seq(Tickets) /\ EntriesKept(states, states)
      BY LenProperties DEF EntriesKept, Inv, FlowOwned
    <2>2. IssueTicket(req[r].subject) \/ UNCHANGED tickets
      BY DEF Guide, Subject
    <2> QED BY <1>1, <1>2, <2>1, <2>2, TicketIssued
  <1>5. states' \in Seq(States)
        /\ \A k \in 1..Len(states') : /\ states'[k].ticket \in 1..Len(tickets')
                                      /\ tickets'[states'[k].ticket].subject = states'[k].subject
    <2>1. Len(tickets) \in Nat
      BY LenProperties DEF Inv, FlowOwned
    <2>2. FlowOwned /\ states' = states
      BY <1>2 DEF Inv
    <2> QED BY <1>4, <2>1, <2>2 DEF EntriesKept, FlowOwned
  <1>6. FlowOwned' /\ VisitsOwned'
    BY <1>2, <1>4, <1>5, FlowMoves DEF Inv, VisitsOwned, FlowKept
  <1>7. Moves(r)
    <2>1. PICK a \in {"link", "nolink"} : Answer(r, a)
      BY DEF Guide
    <2> QED BY <1>1, <1>2, <1>3, <2>1, Ends DEF Answers
  <1> QED BY <1>2, <1>3, <1>6, <1>7, CallMoves DEF Inv

-----------------------------------------------------------------------------
(* The pool *)

\* One entry moved to the end: the same entries.
LEMMA MovedToEnd ==
  ASSUME NEW S, pool \in Seq(S), NEW i \in 1..Len(pool)
  PROVE  /\ Append(Without(i), pool[i]) \in Seq(S)
         /\ \A j \in 1..Len(pool) : \E k \in 1..Len(Append(Without(i), pool[i])) :
              Append(Without(i), pool[i])[k] = pool[j]
  <1> DEFINE a == SubSeq(pool, 1, i - 1)
             b == SubSeq(pool, i + 1, Len(pool))
  <1>1. Len(pool) \in Nat /\ i \in Nat /\ 1 <= i /\ i <= Len(pool) /\ pool[i] \in S
        /\ \A j \in 1..Len(pool) : pool[j] \in S
    BY LenProperties, ElementOfSeq
  <1>2. /\ a \in Seq(S) /\ Len(a) = i - 1
        /\ \A j \in 1..(i - 1) : a[j] = pool[j]
    <2>1. \A j \in 1..(i - 1) : pool[j] \in S
      BY <1>1
    <2>2. /\ a \in Seq(S) /\ Len(a) = (IF 1 <= i - 1 THEN (i - 1) - 1 + 1 ELSE 0)
          /\ \A j \in 1..((i - 1) - 1 + 1) : a[j] = pool[1 + j - 1]
      BY <1>1, <2>1, SubSeqProperties
    <2> QED BY <1>1, <2>2
  <1>3. /\ b \in Seq(S) /\ Len(b) = Len(pool) - i
        /\ \A j \in 1..(Len(pool) - i) : b[j] = pool[i + j]
    <2>1. \A j \in (i + 1)..Len(pool) : pool[j] \in S
      BY <1>1
    <2>2. /\ b \in Seq(S) /\ Len(b) = (IF i + 1 <= Len(pool) THEN Len(pool) - (i + 1) + 1 ELSE 0)
          /\ \A j \in 1..(Len(pool) - (i + 1) + 1) : b[j] = pool[(i + 1) + j - 1]
      BY <1>1, <2>1, SubSeqProperties
    <2> QED BY <1>1, <2>2
  <1> HIDE DEF a, b
  <1>4. /\ a \o b \in Seq(S) /\ Len(a \o b) = Len(pool) - 1
        /\ \A j \in 1..(Len(pool) - 1) : (a \o b)[j] = IF j <= i - 1 THEN a[j] ELSE b[j - (i - 1)]
    <2>1. /\ a \o b \in Seq(S) /\ Len(a \o b) = Len(a) + Len(b)
          /\ \A j \in 1..(Len(a) + Len(b)) : (a \o b)[j] = IF j <= Len(a) THEN a[j] ELSE b[j - Len(a)]
      BY <1>2, <1>3, ConcatProperties
    <2>2. Len(a) = i - 1 /\ Len(a) + Len(b) = Len(pool) - 1
      BY <1>1, <1>2, <1>3
    <2> QED BY <2>1, <2>2
  <1>5. Without(i) = a \o b
    BY DEF Without, a, b
  <1>6. PICK w : w = a \o b
    OBVIOUS
  <1>7. /\ w \in Seq(S) /\ Len(w) = Len(pool) - 1
        /\ \A j \in 1..(i - 1) : w[j] = pool[j]
        /\ \A j \in i..(Len(pool) - 1) : w[j] = pool[j + 1]
    <2>1. ASSUME NEW j \in 1..(i - 1) PROVE w[j] = pool[j]
      BY <1>1, <1>2, <1>4, <1>6
    <2>2. ASSUME NEW j \in i..(Len(pool) - 1) PROVE w[j] = pool[j + 1]
      BY <1>1, <1>3, <1>4, <1>6
    <2> QED BY <1>4, <1>6, <2>1, <2>2
  <1>8. /\ Append(w, pool[i]) \in Seq(S) /\ Len(Append(w, pool[i])) = Len(pool)
        /\ \A k \in 1..(Len(pool) - 1) : Append(w, pool[i])[k] = w[k]
        /\ Append(w, pool[i])[Len(pool)] = pool[i]
    BY <1>1, <1>7, Appended
  <1>9. ASSUME NEW j \in 1..Len(pool)
        PROVE  \E k \in 1..Len(pool) : Append(w, pool[i])[k] = pool[j]
    <2>0. PICK v : v = Append(w, pool[i])
      OBVIOUS
    <2>1. /\ \A k \in 1..(Len(pool) - 1) : v[k] = w[k]
          /\ v[Len(pool)] = pool[i]
      BY <1>8, <2>0
    <2>2. CASE j < i
      <3>1. j \in 1..(i - 1) /\ j \in 1..(Len(pool) - 1)
        BY <1>1, <2>2
      <3>2. v[j] = pool[j]
        BY <1>7, <2>1, <3>1
      <3> QED BY <2>0, <3>2
    <2>3. CASE j = i
      BY <1>1, <2>0, <2>1, <2>3
    <2>4. CASE i < j
      <3>0. j \in Int /\ i \in Int /\ Len(pool) \in Int /\ j <= Len(pool) /\ 1 <= i
        BY <1>1
      <3>1. PICK k \in Int : k + 1 = j
        BY <3>0
      <3>2. k \in i..(Len(pool) - 1) /\ k \in 1..(Len(pool) - 1)
        BY <1>1, <2>4, <3>0, <3>1
      <3>3. v[k] = w[k] /\ w[k] = pool[k + 1]
        BY <1>7, <2>1, <3>2
      <3>4. k \in 1..Len(pool)
        BY <3>0, <3>2
      <3> QED BY <2>0, <3>1, <3>3, <3>4
    <2>5. j < i \/ j = i \/ i < j
      BY <1>1
    <2> QED BY <2>2, <2>3, <2>4, <2>5, Zenon
  <1>10. Append(Without(i), pool[i]) = Append(w, pool[i])
    BY <1>5, <1>6
  <1> QED BY <1>8, <1>9, <1>10, Zenon

\* Entries cut off the front: what is left are entries, and nothing else is lost.
LEMMA CutOff ==
  ASSUME NEW S, NEW q \in Seq(S), NEW n \in Nat, n <= Len(q)
  PROVE  /\ SubSeq(q, n + 1, Len(q)) \in Seq(S)
         /\ \A j \in 1..Len(q) : j > n =>
              \E k \in 1..Len(SubSeq(q, n + 1, Len(q))) : SubSeq(q, n + 1, Len(q))[k] = q[j]
  <1>1. Len(q) \in Nat /\ \A j \in 1..Len(q) : q[j] \in S
    BY LenProperties, ElementOfSeq
  <1>2. \A j \in (n + 1)..Len(q) : q[j] \in S
    BY <1>1
  <1>3. PICK c : c = SubSeq(q, n + 1, Len(q))
    OBVIOUS
  <1>4. /\ c \in Seq(S) /\ Len(c) = (IF n + 1 <= Len(q) THEN Len(q) - (n + 1) + 1 ELSE 0)
        /\ \A k \in 1..(Len(q) - (n + 1) + 1) : c[k] = q[(n + 1) + k - 1]
    BY <1>1, <1>2, <1>3, SubSeqProperties
  <1>5. ASSUME NEW j \in 1..Len(q), j > n PROVE \E k \in 1..Len(c) : c[k] = q[j]
    <2>1. j - n \in 1..Len(c) /\ j - n \in 1..(Len(q) - (n + 1) + 1) /\ (n + 1) + (j - n) - 1 = j
      BY <1>1, <1>4, <1>5
    <2> QED BY <1>4, <2>1
  <1> QED BY <1>3, <1>4, <1>5

-----------------------------------------------------------------------------
(* Steps that change a client *)

LEMMA ClientChanged ==
  ASSUME Inv, Since(grants, grants'), NEW c \in 1..Len(clients), NEW e \in ClientRecords,
         e.subject = clients[c].subject, GaveIn(grants', e.subject, e.portal.token[1]),
         clients' = [clients EXCEPT ![c] = e]
  PROVE  ClientsOwned' /\ ClientsGrow /\ Len(clients') = Len(clients)
  <1>1. /\ clients' \in Seq(ClientRecords) /\ Len(clients') = Len(clients) /\ Len(clients) \in Nat
        /\ \A j \in 1..Len(clients) : clients'[j] = IF j = c THEN e ELSE clients[j]
    BY ExceptSeq, LenProperties DEF Inv, ClientsOwned
  <1>2. \A j \in 1..Len(clients) : GaveIn(grants', clients[j].subject, clients[j].portal.token[1])
    BY GaveSince DEF Inv, GrantsKnown, ClientsOwned
  <1> QED BY <1>1, <1>2 DEF ClientsOwned, ClientsGrow

LEMMA KnownClient ==
  ASSUME Inv, NEW c \in 1..Len(clients)
  PROVE  /\ clients[c] \in ClientRecords /\ clients \in [1..Len(clients) -> ClientRecords]
         /\ GaveIn(grants, clients[c].subject, clients[c].portal.token[1])
  BY ElementOfSeq, SeqIsFunction DEF Inv, ClientsOwned

\* The lock of a client is taken or left, or the client closed.
LEMMA FlagChanged ==
  ASSUME Inv, Since(grants, grants'), NEW c \in 1..Len(clients), NEW v \in Requests \union {None},
         \/ clients' = [clients EXCEPT ![c].lock = v]
         \/ clients' = [clients EXCEPT ![c].open = FALSE]
  PROVE  ClientsOwned' /\ ClientsGrow /\ Len(clients') = Len(clients)
  <1>1. PICK e : /\ e = [clients[c] EXCEPT !.lock = v] \/ e = [clients[c] EXCEPT !.open = FALSE]
                 /\ clients' = [clients EXCEPT ![c] = e]
    BY KnownClient
  <1>2. e \in ClientRecords /\ e.subject = clients[c].subject /\ e.portal = clients[c].portal
    BY <1>1, KnownClient DEF ClientRecords
  <1>3. GaveIn(grants', e.subject, e.portal.token[1])
    BY <1>2, KnownClient, GaveSince DEF Inv, GrantsKnown
  <1> QED BY <1>1, <1>2, <1>3, ClientChanged

LEMMA PoolStays ==
  ASSUME Inv, UNCHANGED pool, Len(clients') = Len(clients)
  PROVE  PoolKnown'
  BY DEF Inv, PoolKnown

LEMMA GrantsClientsAndTheCall ==
  ASSUME Inv, Since(grants, grants'), UNCHANGED <<connections, flow, pool>>, NEW r \in Requests,
         ClientsOwned', ClientsGrow, Len(clients') = Len(clients), Moves(r)
  PROVE  Inv'
  <1>1. GrantsKnown'
    BY DEF Since, GrantsKnown
  <1> QED BY <1>1, StoreStays, FlowStays, PoolStays, CallMoves DEF Inv

LEMMA CloseVictimInv ==
  ASSUME Inv, NEW r \in Requests, CloseVictim(r)
  PROVE  Inv'
  <1>1. PICK c \in req[r].victims :
          /\ clients' = [clients EXCEPT ![c].open = FALSE]
          /\ req' = [req EXCEPT ![r].victims = req[r].victims \ {c},
                                ![r].pc = IF req[r].victims = {c} THEN "fresh" ELSE "close"]
    BY DEF CloseVictim
  <1>2. req[r].pc = "close" /\ req[r].client # 0 /\ c \in 1..Len(clients)
    BY KnownCall DEF CloseVictim, Pc, CallOwned, Calling
  <1>3. Since(grants, grants') /\ ClientsOwned' /\ ClientsGrow /\ Len(clients') = Len(clients)
    BY <1>1, <1>2, FlagChanged, SinceItself DEF CloseVictim, Inv, GrantsKnown
  <1>4. PICK pc, left : /\ pc \in {"fresh", "close"} /\ left = req[r].victims \ {c}
                        /\ req' = [req EXCEPT ![r].victims = left, ![r].pc = pc]
    BY <1>1
  <1>5. left \in SUBSET Nat /\ left \subseteq req[r].victims
    BY <1>4, KnownCall DEF Calls
  <1>6. PICK q : q = [req[r] EXCEPT !.victims = left, !.pc = pc]
    OBVIOUS
  <1>7. req' = [req EXCEPT ![r] = q] /\ q \in Calls /\ q.pc = pc /\ q.held = req[r].held
        /\ q.subject = req[r].subject /\ q.client = req[r].client /\ q.victims = left
    <2>1. req' = [req EXCEPT ![r] = q]
      BY <1>4, <1>6, KnownCall DEF Calls
    <2>2. q.pc = pc /\ q.held = req[r].held
          /\ q.subject = req[r].subject /\ q.client = req[r].client /\ q.victims = left
      BY <1>6, KnownCall DEF Calls
    <2>3. pc \in ReqPC
      BY <1>4 DEF ReqPC
    <2>4. q \in Calls
      BY ZenonT(60), <1>5, <1>6, <2>3, KnownCall DEF Calls
    <2> QED BY <2>1, <2>2, <2>4
  <1>8. Moves(r)
    BY <1>2, <1>3, <1>4, <1>5, <1>7, MovesAs DEF Holding
  <1> QED BY <1>3, <1>8, GrantsClientsAndTheCall DEF CloseVictim

\* A call takes the lock of its client to fetch new tokens.
LEMMA LocksClient ==
  ASSUME Inv, NEW r \in Requests, req[r].pc \in {"fresh", "force"},
         \/ req' = [req EXCEPT ![r].pc = "clientRead", ![r].forced = FALSE]
         \/ req' = [req EXCEPT ![r].pc = "clientRead", ![r].forced = TRUE],
         clients' = [clients EXCEPT ![req[r].client].lock = r],
         UNCHANGED <<grants, connections, flow, pool>>
  PROVE  Inv'
  <1>1. req[r].client # 0 /\ req[r].client \in 1..Len(clients)
    BY KnownCall DEF CallOwned, Calling
  <1>2. Since(grants, grants') /\ ClientsOwned' /\ ClientsGrow /\ Len(clients') = Len(clients)
    BY <1>1, FlagChanged, SinceItself DEF Inv, GrantsKnown
  <1>3. PICK q : /\ \/ q = [req[r] EXCEPT !.pc = "clientRead", !.forced = FALSE]
                    \/ q = [req[r] EXCEPT !.pc = "clientRead", !.forced = TRUE]
                 /\ req' = [req EXCEPT ![r] = q]
    BY ZenonT(60), KnownCall DEF Calls
  <1>4. /\ q \in Calls /\ q.pc = "clientRead"
        /\ q.subject = req[r].subject /\ q.client = req[r].client /\ q.victims = req[r].victims
    BY <1>3, KnownCall DEF Calls, ReqPC
  <1>5. Moves(r)
    BY <1>1, <1>2, <1>3, <1>4, MovesAs DEF Holding
  <1> QED BY <1>2, <1>5, GrantsClientsAndTheCall

LEMMA FreshTokenInv ==
  ASSUME Inv, NEW r \in Requests, FreshToken(r)
  PROVE  Inv'
  <1>1. req[r].pc = "fresh" /\ req[r].client # 0
    BY KnownCall DEF FreshToken, Pc, CallOwned, Calling
  <1>2. CASE Goto(r, "send") /\ UNCHANGED clients
    <2>1. Since(grants, grants') /\ ClientsGrow
      BY <1>2, SinceItself, ClientsStay DEF FreshToken, Inv, GrantsKnown
    <2>2. Moves(r)
      BY <1>1, <1>2, <2>1, Goes DEF ReqPC, Calling, Holding
    <2> QED BY <1>2, <2>2, OnlyTheCall DEF FreshToken
  <1>3. CASE /\ req' = [req EXCEPT ![r].pc = "clientRead", ![r].forced = FALSE]
             /\ clients' = [clients EXCEPT ![req[r].client].lock = r]
    BY <1>1, <1>3, LocksClient DEF FreshToken
  <1> QED BY <1>2, <1>3 DEF FreshToken

LEMMA ForceRefreshInv ==
  ASSUME Inv, NEW r \in Requests, ForceRefresh(r)
  PROVE  Inv'
  BY LocksClient DEF ForceRefresh, Pc

\* A call that fails under the lock leaves it, and ends.
LEMMA EndsUnlocked ==
  ASSUME Inv, Since(grants, grants'), NEW r \in Requests, NEW a \in Answers, Answer(r, a),
         req[r].pc \in Calling, clients' = Unlocked(r), UNCHANGED <<connections, flow, pool>>
  PROVE  Inv'
  <1>1. req[r].client \in 1..Len(clients) /\ req[r].pc # "new"
    BY KnownCall DEF CallOwned, Calling
  <1>2. ClientsOwned' /\ ClientsGrow /\ Len(clients') = Len(clients)
    BY <1>1, FlagChanged DEF Unlocked
  <1>3. Moves(r)
    BY <1>1, <1>2, Ends
  <1> QED BY <1>2, <1>3, GrantsClientsAndTheCall

LEMMA ClientReadsInv ==
  ASSUME Inv, NEW r \in Requests, ClientReads(r)
  PROVE  Inv'
  <1>1. PICK got \in StoreGet(Subject(r)) :
          IF got.found # None
            THEN /\ req' = [req EXCEPT ![r].pc = "clientRefresh", ![r].held = got.found]
                 /\ UNCHANGED clients
            ELSE Answer(r, "error") /\ clients' = Unlocked(r)
    BY DEF ClientReads
  <1>2. req[r].pc = "clientRead" /\ req[r].client # 0 /\ req[r].subject \in Subjects
    BY KnownCall DEF ClientReads, Pc, CallOwned, Calling
  <1>3. got.found # None => got.found = connections[req[r].subject]
    BY DEF StoreGet, Subject
  <1>4. Since(grants, grants') /\ UNCHANGED <<grants, connections, flow, pool>>
    BY SinceItself DEF ClientReads, Inv, GrantsKnown
  <1>5. CASE got.found # None
    <2>1. Owned(got.found, req[r].subject)
      BY <1>2, <1>3, <1>5 DEF Inv, StoreOwned
    <2>c. PICK c \in Conns : c = got.found
      BY <2>1 DEF Owned
    <2>2. PICK q : q = [req[r] EXCEPT !.pc = "clientRefresh", !.held = c]
      OBVIOUS
    <2>3. req' = [req EXCEPT ![r] = q] /\ UNCHANGED clients
      BY <1>1, <1>5, <2>2, <2>c, KnownCall DEF Calls
    <2>4. /\ q \in Calls /\ q.pc = "clientRefresh" /\ q.held = got.found
          /\ q.subject = req[r].subject /\ q.client = req[r].client /\ q.victims = req[r].victims
      <3>1. q \in Calls
        BY ZenonT(60), <2>2, KnownCall DEF Calls, ReqPC
      <3> QED BY <2>2, <2>c, <3>1, KnownCall DEF Calls
    <2>5. ClientsGrow
      BY <1>4, <2>3, ClientsStay
    <2>6. Moves(r)
      BY <1>2, <1>4, <2>1, <2>3, <2>4, <2>5, MovesAs
    <2> QED BY <1>4, <2>3, <2>6, OnlyTheCall
  <1>6. CASE got.found = None
    BY <1>1, <1>2, <1>4, <1>6, EndsUnlocked DEF Answers, Calling
  <1> QED BY <1>5, <1>6

LEMMA ClientRefreshesInv ==
  ASSUME Inv, NEW r \in Requests, ClientRefreshes(r)
  PROVE  Inv'
  <1>1. PICK out \in RefreshTokensOnly(req[r].held.grant, req[r].held.refresh) :
          /\ grants' = out.grants
          /\ IF out.status = "ok"
               THEN /\ req' = [req EXCEPT ![r].pc = "clientStore", ![r].held = WithTokens(req[r].held, out.body)]
                    /\ UNCHANGED clients
               ELSE Answer(r, "error") /\ clients' = Unlocked(r)
    BY DEF ClientRefreshes
  <1>2. /\ req[r].pc = "clientRefresh" /\ req[r].client # 0 /\ Owned(req[r].held, req[r].subject)
        /\ req[r].held.grant \in Grants
    BY KnownCall DEF ClientRefreshes, Pc, CallOwned, Holding, Calling, Owned, GaveIn, Grants, Conns
  <1>3. /\ Since(grants, grants')
        /\ out.status = "ok" => /\ out.body.access \in Nat
                                /\ out.body.refresh # None => out.body.refresh \in Nat
    BY <1>1, <1>2, RefreshOutcomes DEF Inv
  <1>4. UNCHANGED <<connections, flow, pool>>
    BY DEF ClientRefreshes
  <1>5. CASE out.status = "ok"
    <2>1. PICK c : c = WithTokens(req[r].held, out.body)
      OBVIOUS
    <2>2. Owned(c, req[r].subject)
      BY <1>2, <1>3, <1>5, <2>1, TokensOwned
    <2>3. PICK q : q = [req[r] EXCEPT !.pc = "clientStore", !.held = c]
      OBVIOUS
    <2>4. req' = [req EXCEPT ![r].pc = "clientStore", ![r].held = c] /\ UNCHANGED clients
      BY <1>1, <1>5, <2>1
    <2>5. req' = [req EXCEPT ![r] = q]
      BY <2>3, <2>4, KnownCall DEF Calls
    <2>6. /\ q \in Calls /\ q.pc = "clientStore" /\ q.held = c
          /\ q.subject = req[r].subject /\ q.client = req[r].client /\ q.victims = req[r].victims
      BY ZenonT(60), <2>2, <2>3, KnownCall DEF Calls, ReqPC, Owned
    <2>7. ClientsGrow
      BY <1>3, <1>4, <2>4, ClientsStay
    <2>8. Moves(r)
      BY <1>2, <1>3, <2>2, <2>5, <2>6, <2>7, MovesAs
    <2> QED BY <1>3, <1>4, <2>4, <2>8, GrantsAndTheCall
  <1>6. CASE out.status # "ok"
    BY <1>1, <1>2, <1>3, <1>4, <1>6, EndsUnlocked DEF Answers, Calling
  <1> QED BY <1>5, <1>6

LEMMA ClientAdopts ==
  ASSUME Inv, NEW r \in Requests, req[r].pc = "clientStore", UNCHANGED grants,
         clients' = Adopted(r)
  PROVE  ClientsOwned' /\ ClientsGrow /\ Len(clients') = Len(clients)
  <1>1. /\ req[r].client \in 1..Len(clients) /\ clients[req[r].client].subject = req[r].subject
        /\ Owned(req[r].held, req[r].subject)
    BY KnownCall DEF CallOwned, Calling, Holding
  <1>2. PICK c \in 1..Len(clients) : c = req[r].client
    BY <1>1
  <1>3. PICK a, b : /\ a = <<req[r].held.grant, req[r].held.access>> /\ a \in Nat \X Nat
                    /\ b = <<req[r].held.grant, req[r].held.refresh>> /\ b \in Nat \X Nat
    <2>1. req[r].held.grant \in Nat /\ req[r].held.access \in Nat /\ req[r].held.refresh \in Nat
      BY <1>1 DEF Owned, Conns
    <2>2. PICK a : a = <<req[r].held.grant, req[r].held.access>>
      OBVIOUS
    <2>3. PICK b : b = <<req[r].held.grant, req[r].held.refresh>>
      OBVIOUS
    <2> QED BY <2>1, <2>2, <2>3
  <1>4. PICK e : e = [clients[c] EXCEPT !.portal.token = a, !.portal.refresh = b, !.lock = None]
    OBVIOUS
  <1>5. e \in ClientRecords /\ e.subject = clients[c].subject /\ e.portal.token = a
    <2>1. clients[c] \in ClientRecords
      BY KnownClient
    <2> QED BY <1>3, <1>4, <2>1 DEF ClientRecords, Portals
  <1>6. clients' = [clients EXCEPT ![c] = e]
    <2>1. clients' = [clients EXCEPT ![c].portal.token = a, ![c].portal.refresh = b, ![c].lock = None]
      BY <1>2, <1>3 DEF Adopted, ToPortalConfig
    <2> QED BY <1>4, <2>1, KnownClient DEF ClientRecords
  <1>7. GaveIn(grants', e.subject, e.portal.token[1]) /\ Since(grants, grants')
    BY <1>1, <1>2, <1>3, <1>5, SinceItself DEF Owned, Inv, GrantsKnown
  <1> QED BY <1>5, <1>6, <1>7, ClientChanged

LEMMA ClientStoresInv ==
  ASSUME Inv, NEW r \in Requests, ClientStores(r)
  PROVE  Inv'
  <1>1. PICK put \in StorePut(req[r].held) :
          /\ connections' = put.connections
          /\ clients' = IF put.ok THEN Adopted(r) ELSE Unlocked(r)
          /\ \/ Answer(r, "error") \/ Answer(r, "auth")
             \/ Goto(r, "send") \/ Goto(r, "resend")
    BY DEF ClientStores
  <1>2. /\ req[r].pc = "clientStore" /\ req[r].client \in 1..Len(clients) /\ req[r].client # 0
        /\ Owned(req[r].held, req[r].held.subject)
    BY KnownCall DEF ClientStores, Pc, CallOwned, Holding, Calling, Owned
  <1>3. Since(grants, grants') /\ GrantsKnown' /\ UNCHANGED <<grants, flow, pool>>
    BY SinceItself DEF ClientStores, Inv, GrantsKnown
  <1>4. StoreOwned'
    BY <1>1, <1>2, <1>3, StorePutOwned
  <1>5. ClientsOwned' /\ ClientsGrow /\ Len(clients') = Len(clients)
    <2>1. clients' = Unlocked(r) => ClientsOwned' /\ ClientsGrow /\ Len(clients') = Len(clients)
      BY <1>2, <1>3, FlagChanged DEF Unlocked
    <2>2. clients' = Adopted(r) => ClientsOwned' /\ ClientsGrow /\ Len(clients') = Len(clients)
      BY <1>2, <1>3, ClientAdopts
    <2> QED BY <1>1, <2>1, <2>2
  <1>6. Moves(r)
    <2>1. \A a \in {"error", "auth"} : Answer(r, a) => Moves(r)
      BY <1>2, <1>3, <1>5, Ends DEF Answers
    <2>2. \A pc \in {"send", "resend"} : Goto(r, pc) => Moves(r)
      BY <1>2, <1>3, <1>5, Goes DEF ReqPC, Calling, Holding
    <2> QED BY <1>1, <2>1, <2>2
  <1>7. PoolKnown'
    BY <1>3, <1>5, PoolStays
  <1> QED BY <1>3, <1>4, <1>5, <1>6, <1>7, FlowStays, CallMoves DEF Inv

-----------------------------------------------------------------------------
(* Steps that send, and the step that hands out a client *)

\* What a send makes of a call.
SentAs(r, q) == \/ \E a \in Answers : q = [Sent(r) EXCEPT !.pc = "done", !.answer = a]
                \/ q = [Sent(r) EXCEPT !.pc = "force"]
                \/ /\ req[r].kind = "read" /\ req[r].left > 1
                   /\ q = [Sent(r) EXCEPT !.pc = "fresh", !.left = req[r].left - 1]

LEMMA SentCalls ==
  ASSUME Inv, NEW r \in Requests, NEW q, SentAs(r, q)
  PROVE  /\ q \in Calls /\ q.pc \in {"done", "force", "fresh"} /\ q.sent = req[r].sent + 1
         /\ q.kind = req[r].kind /\ q.refused = req[r].refused
         /\ q.pc = "fresh" => req[r].kind = "read"
         /\ q.subject = req[r].subject /\ q.client = req[r].client /\ q.victims = req[r].victims
  <1>1. req[r] \in Calls /\ req[r].sent \in Nat /\ req[r].left \in Nat
    BY KnownCall DEF Calls
  <1>2. PICK n \in Nat : n = req[r].sent + 1
    BY <1>1
  <1>3. PICK s : s = [req[r] EXCEPT !.sent = n]
    OBVIOUS
  <1>4. s = Sent(r)
    BY <1>2, <1>3 DEF Sent
  <1>5. /\ s \in Calls /\ s.sent = n /\ s.kind = req[r].kind /\ s.refused = req[r].refused
        /\ s.subject = req[r].subject /\ s.client = req[r].client /\ s.victims = req[r].victims
    BY <1>1, <1>3 DEF Calls
  <1>6. CASE \E a \in Answers : q = [s EXCEPT !.pc = "done", !.answer = a]
    BY <1>2, <1>5, <1>6 DEF Calls, ReqPC
  <1>7. CASE q = [s EXCEPT !.pc = "force"]
    BY <1>2, <1>5, <1>7 DEF Calls, ReqPC
  <1>8. CASE /\ req[r].kind = "read" /\ req[r].left > 1
             /\ q = [s EXCEPT !.pc = "fresh", !.left = req[r].left - 1]
    <2>1. PICK l \in Nat : l = req[r].left - 1
      BY <1>1, <1>8
    <2>2. q = [s EXCEPT !.pc = "fresh", !.left = l]
      BY <1>8, <2>1
    <2>3. q \in Calls
      BY <1>5, <2>2 DEF Calls, ReqPC
    <2> QED BY <1>2, <1>5, <1>8, <2>2, <2>3 DEF Calls
  <1> QED BY <1>4, <1>6, <1>7, <1>8 DEF SentAs

LEMMA Sends ==
  ASSUME Inv, NEW r \in Requests, NEW q, SentAs(r, q), req' = [req EXCEPT ![r] = q],
         req[r].pc \in {"send", "resend"}, UNCHANGED <<grants, connections, flow, pool, clients>>
  PROVE  Inv'
  <1>1. Since(grants, grants') /\ ClientsGrow /\ req[r].client # 0
    BY SinceItself, ClientsStay, KnownCall DEF Inv, GrantsKnown, CallOwned, Calling
  <1>2. Moves(r)
    BY <1>1, SentCalls, MovesAs DEF Holding
  <1> QED BY <1>2, OnlyTheCall

LEMMA SendMoves ==
  ASSUME NEW r \in Requests, Send(r) \/ Resend(r)
  PROVE  /\ req[r].pc \in {"send", "resend"} /\ UNCHANGED <<grants, connections, flow, pool, clients>>
         /\ \E q : SentAs(r, q) /\ req' = [req EXCEPT ![r] = q]
  <1>1. \/ \E a \in Answers : Finish(r, a)
        \/ req' = [req EXCEPT ![r] = [Sent(r) EXCEPT !.pc = "force"]]
        \/ RateLimited(r)
    BY DEF Send, Resend, Answers
  <1>2. RateLimited(r) => \E q : SentAs(r, q) /\ req' = [req EXCEPT ![r] = q]
    <2>1. CASE req[r].kind = "read" /\ req[r].left > 1
      BY <2>1, Zenon DEF RateLimited, SentAs
    <2>2. CASE ~(req[r].kind = "read" /\ req[r].left > 1)
      BY <2>2, Zenon DEF RateLimited, SentAs, Finish, Answers
    <2> QED BY <2>1, <2>2
  <1>3. (\E a \in Answers : Finish(r, a)) => \E q : SentAs(r, q) /\ req' = [req EXCEPT ![r] = q]
    BY Zenon DEF SentAs, Finish
  <1>4. req[r].pc \in {"send", "resend"} /\ UNCHANGED <<grants, connections, flow, pool, clients>>
    BY DEF Send, Resend, Pc
  <1>5. req' = [req EXCEPT ![r] = [Sent(r) EXCEPT !.pc = "force"]]
          => \E q : SentAs(r, q) /\ req' = [req EXCEPT ![r] = q]
    BY Zenon DEF SentAs
  <1> QED BY <1>1, <1>2, <1>3, <1>4, <1>5

LEMMA SendInv ==
  ASSUME Inv, NEW r \in Requests, Send(r) \/ Resend(r)
  PROVE  Inv'
  BY SendMoves, Sends

LEMMA SendOnClosedInv ==
  ASSUME Inv, NEW r \in Requests, SendOnClosed(r)
  PROVE  Inv'
  <1>1. Since(grants, grants') /\ ClientsGrow
    BY SinceItself, ClientsStay DEF SendOnClosed, Inv, GrantsKnown
  <1>2. Moves(r)
    BY <1>1, Ends DEF SendOnClosed, Answers
  <1> QED BY <1>2, OnlyTheCall DEF SendOnClosed

LEMMA SeqInLarger ==
  ASSUME NEW S, NEW T, S \subseteq T, NEW q \in Seq(S)
  PROVE  q \in Seq(T)
  BY SeqIsFunction, FunctionIsSeq

LEMMA PoolInNat ==
  ASSUME Inv
  PROVE  pool \in Seq(Nat)
  <1>1. 1..Len(clients) \subseteq Nat
    BY LenProperties DEF Inv, ClientsOwned
  <1> QED BY <1>1, SeqInLarger DEF Inv, PoolKnown

\* The two ways a call gets its client: the pooled one, moved to the end, or a new one.
TakesPooled(r, i) ==
  /\ i \in Pooled(Subject(r))
  /\ pool' = Append(Without(i), pool[i])
  /\ clients' = [clients EXCEPT ![pool[i]].portal = ToPortalConfig(req[r].held)]
  /\ req' = [req EXCEPT ![r].pc = "fresh", ![r].client = pool[i]]
Grown == Append(pool, Len(clients) + 1)
TakesNew(r, over) ==
  /\ over \in Nat /\ over <= Len(Grown)
  /\ clients' = Append(clients, NewClient(Subject(r), ToPortalConfig(req[r].held)))
  /\ pool' = SubSeq(Grown, over + 1, Len(Grown))
  /\ \E pc \in {"fresh", "close"} :
       /\ pc = "fresh" <=> over = 0
       /\ req' = [req EXCEPT ![r].pc = pc, ![r].client = Len(clients) + 1,
                             ![r].victims = {Grown[i] : i \in 1..over}]

LEMMA AcquireTakes ==
  ASSUME Inv, NEW r \in Requests, Acquire(r)
  PROVE  (\E i : TakesPooled(r, i)) \/ (\E over : TakesNew(r, over))
  <1>1. CASE \E i \in Pooled(Subject(r)) :
               /\ pool' = Append(Without(i), pool[i])
               /\ clients' = [clients EXCEPT ![pool[i]].portal = ToPortalConfig(req[r].held)]
               /\ req' = [req EXCEPT ![r].pc = "fresh", ![r].client = pool[i]]
    BY <1>1 DEF TakesPooled
  <1>2. CASE ~\E i \in Pooled(Subject(r)) :
               /\ pool' = Append(Without(i), pool[i])
               /\ clients' = [clients EXCEPT ![pool[i]].portal = ToPortalConfig(req[r].held)]
               /\ req' = [req EXCEPT ![r].pc = "fresh", ![r].client = pool[i]]
    <2> DEFINE cut == IF Len(Grown) > MaxPooled THEN Len(Grown) - MaxPooled ELSE 0
    <2>1. /\ clients' = Append(clients, NewClient(Subject(r), ToPortalConfig(req[r].held)))
          /\ pool' = SubSeq(Grown, cut + 1, Len(Grown))
          /\ req' = [req EXCEPT ![r].pc = IF cut = 0 THEN "fresh" ELSE "close",
                                ![r].client = Len(clients) + 1,
                                ![r].victims = {Grown[i] : i \in 1..cut}]
      BY <1>2 DEF Acquire, Grown
    <2>2. Len(Grown) \in Nat
      <3>1. pool \in Seq(Nat) /\ Len(clients) + 1 \in Nat
        BY LenProperties, PoolInNat DEF Inv, ClientsOwned
      <3> QED BY <3>1, Appended, LenProperties DEF Grown
    <2>3. cut \in Nat /\ cut <= Len(Grown)
      BY <2>2, SessionAssumption
    <2>4. PICK over : over = cut
      OBVIOUS
    <2>5. PICK pc : pc = IF cut = 0 THEN "fresh" ELSE "close"
      OBVIOUS
    <2>6. pc \in {"fresh", "close"} /\ (pc = "fresh" <=> cut = 0)
      BY <2>5
    <2> HIDE DEF cut
    <2> QED BY <2>1, <2>3, <2>4, <2>5, <2>6 DEF TakesNew
  <1> QED BY <1>1, <1>2

LEMMA GetsClient ==
  ASSUME Inv, UNCHANGED <<grants, connections, flow>>, NEW r \in Requests, NEW q \in Calls,
         req' = [req EXCEPT ![r] = q], q.pc \in {"fresh", "close"}, q.subject \in Subjects,
         q.client # 0, q.client \in 1..Len(clients'), clients'[q.client].subject = q.subject,
         q.victims \subseteq 1..Len(clients'), ClientsOwned', ClientsGrow, PoolKnown'
  PROVE  Inv'
  <1>1. req' \in [Requests -> Calls] /\ req'[r] = q /\ \A v \in Requests \ {r} : req'[v] = req[v]
    BY KnownCall
  <1>2. CallOwned(req[r])'
    BY <1>1 DEF CallOwned, Holding
  <1>3. Moves(r)
    BY <1>1, <1>2 DEF Moves
  <1>4. Since(grants, grants') /\ GrantsKnown'
    BY SinceItself DEF Inv, GrantsKnown
  <1> QED BY <1>3, <1>4, StoreStays, FlowStays, CallMoves DEF Inv

LEMMA AcquireInv ==
  ASSUME Inv, NEW r \in Requests, Acquire(r)
  PROVE  Inv'
  <1>0. /\ req[r].pc = "acquire" /\ req[r].subject \in Subjects /\ Owned(req[r].held, req[r].subject)
        /\ UNCHANGED <<grants, connections, flow>>
    BY KnownCall DEF Acquire, Pc, CallOwned, Holding
  <1>1. /\ Since(grants, grants') /\ Len(clients) \in Nat /\ Len(pool) \in Nat
        /\ \A i \in 1..Len(pool) : pool[i] \in 1..Len(clients)
    BY <1>0, SinceItself, LenProperties, ElementOfSeq DEF Inv, GrantsKnown, ClientsOwned, PoolKnown
  <1>2. PICK portal \in Portals : /\ portal = ToPortalConfig(req[r].held)
                                  /\ GaveIn(grants, req[r].subject, portal.token[1])
    <2>1. PICK c \in Conns : c = req[r].held /\ GaveIn(grants, req[r].subject, c.grant)
      BY <1>0 DEF Owned
    <2>2. ToPortalConfig(c) \in Portals /\ ToPortalConfig(c).token[1] = c.grant
      BY DEF ToPortalConfig, Portals, Conns
    <2> QED BY <2>1, <2>2
  <1>3. ASSUME NEW i, TakesPooled(r, i) PROVE Inv'
    <2>1. i \in 1..Len(pool) /\ clients[pool[i]].subject = req[r].subject
      BY <1>3 DEF TakesPooled, Pooled, Subject
    <2>2. PICK c \in 1..Len(clients) : c = pool[i]
      BY <1>1, <2>1
    <2>3. PICK e : e = [clients[c] EXCEPT !.portal = portal]
      OBVIOUS
    <2>4. e \in ClientRecords /\ e.subject = clients[c].subject /\ e.portal = portal
      BY <2>3, KnownClient DEF ClientRecords
    <2>5. clients' = [clients EXCEPT ![c] = e]
      BY <1>2, <1>3, <2>2, <2>3, KnownClient DEF TakesPooled
    <2>6. ClientsOwned' /\ ClientsGrow /\ Len(clients') = Len(clients)
      BY <1>0, <1>1, <1>2, <2>1, <2>2, <2>4, <2>5, ClientChanged
    <2>7. PoolKnown'
      BY <1>3, <2>1, <2>6, MovedToEnd DEF TakesPooled, Inv, PoolKnown
    <2>8. PICK q : q = [req[r] EXCEPT !.pc = "fresh", !.client = c]
      OBVIOUS
    <2>9. req' = [req EXCEPT ![r] = q]
      BY <1>3, <2>2, <2>8, KnownCall DEF Calls, TakesPooled
    <2>10. q \in Calls
      <3>1. c \in Nat
        BY <1>1
      <3> QED BY ZenonT(60), <2>8, <3>1, KnownCall DEF Calls, ReqPC
    <2>11. q.pc = "fresh" /\ q.subject = req[r].subject /\ q.client = c /\ q.victims = req[r].victims
      BY <2>8, KnownCall DEF Calls
    <2>12. q.victims \subseteq 1..Len(clients') /\ clients'[q.client].subject = q.subject
           /\ q.client # 0 /\ q.client \in 1..Len(clients')
      BY <1>1, <2>1, <2>2, <2>6, <2>11, KnownCall DEF CallOwned, ClientsGrow
    <2> QED BY <1>0, <1>1, <2>6, <2>7, <2>9, <2>10, <2>11, <2>12, GetsClient
  <1>4. ASSUME NEW over, TakesNew(r, over) PROVE Inv'
    <2>1. PICK e : e = NewClient(req[r].subject, portal)
      OBVIOUS
    <2>2. e \in ClientRecords /\ e.subject = req[r].subject /\ e.portal = portal
      BY <1>0, <2>1 DEF NewClient, ClientRecords
    <2>3. clients' = Append(clients, e)
      BY <1>2, <1>4, <2>1 DEF TakesNew, Subject
    <2>4. /\ clients' \in Seq(ClientRecords) /\ Len(clients') = Len(clients) + 1
          /\ \A j \in 1..Len(clients) : clients'[j] = clients[j]
          /\ clients'[Len(clients) + 1] = e
      BY <2>2, <2>3, Appended DEF Inv, ClientsOwned
    <2>5. \A j \in 1..Len(clients) : GaveIn(grants, clients[j].subject, clients[j].portal.token[1])
      BY DEF Inv, ClientsOwned
    <2>6. ClientsOwned' /\ ClientsGrow
      <3>1. ASSUME NEW j \in 1..Len(clients')
            PROVE  GaveIn(grants', clients'[j].subject, clients'[j].portal.token[1])
        BY <1>0, <1>1, <1>2, <2>2, <2>4, <2>5
      <3> QED BY <1>1, <2>4, <3>1 DEF ClientsOwned, ClientsGrow
    <2>7. Grown \in Seq(1..Len(clients'))
      <3>1. pool \in Seq(1..Len(clients'))
        BY <1>1, <2>4, SeqInLarger DEF Inv, PoolKnown
      <3> QED BY <1>1, <2>4, <3>1, Appended DEF Grown
    <2>8. PoolKnown'
      BY <1>4, <2>7, CutOff DEF PoolKnown, TakesNew
    <2>9. PICK n, vs : n = Len(clients) + 1 /\ n \in Nat /\ n # 0 /\ vs = {Grown[i] : i \in 1..over}
      <3>1. PICK n : n = Len(clients) + 1 /\ n \in Nat /\ n # 0
        BY <1>1
      <3>2. PICK vs : vs = {Grown[i] : i \in 1..over}
        OBVIOUS
      <3> QED BY <3>1, <3>2
    <2>10. vs \subseteq 1..Len(clients') /\ vs \in SUBSET Nat
      <3>1. \A i \in 1..over : Grown[i] \in 1..Len(clients')
        BY <1>4, <2>7, LenProperties, ElementOfSeq DEF TakesNew
      <3> QED BY <2>9, <3>1
    <2>11. PICK pc \in {"fresh", "close"} :
             req' = [req EXCEPT ![r].pc = pc, ![r].client = n, ![r].victims = vs]
      BY <1>4, <2>9 DEF TakesNew
    <2>12. PICK q : q = [req[r] EXCEPT !.pc = pc, !.client = n, !.victims = vs]
      OBVIOUS
    <2>13. req' = [req EXCEPT ![r] = q]
      BY <2>11, <2>12, KnownCall DEF Calls
    <2>14. q.pc = pc /\ q.subject = req[r].subject /\ q.client = n /\ q.victims = vs
      BY <2>12, KnownCall DEF Calls
    <2>15. q \in Calls
      <3>1. pc \in ReqPC
        BY DEF ReqPC
      <3> QED BY ZenonT(60), <2>9, <2>10, <2>12, <3>1, KnownCall DEF Calls
    <2>16. n \in 1..Len(clients') /\ clients'[n].subject = q.subject
      BY <1>1, <2>2, <2>4, <2>9, <2>14
    <2> QED BY <1>0, <2>6, <2>8, <2>9, <2>10, <2>13, <2>14, <2>15, <2>16, GetsClient
  <1> QED BY <1>3, <1>4, AcquireTakes

-----------------------------------------------------------------------------
(* The steps of a browser *)

LEMMA SessionStays ==
  ASSUME Inv, Since(grants, grants'), UNCHANGED session
  PROVE  ClientsOwned' /\ PoolKnown' /\ CallsOwned'
  BY ClientsStay, CallsStay DEF session

\* One visit moves, the others and the calls stay.
LEMMA BrowserMoves ==
  ASSUME Inv, Since(grants, grants'), UNCHANGED session, StoreOwned', FlowKept,
         NEW b \in Browsers, NEW v \in Visits, browser' = [browser EXCEPT ![b] = v],
         VisitOwned(browser[b])'
  PROVE  Inv'
  <1>1. browser' \in [Browsers -> Visits] /\ \A x \in Browsers \ {b} : browser'[x] = browser[x]
    BY DEF Inv, VisitsOwned
  <1>2. VisitsOwned'
    BY <1>1, FlowMoves DEF VisitsOwned
  <1>3. GrantsKnown'
    BY DEF Since, GrantsKnown
  <1> QED BY <1>2, <1>3, FlowMoves, SessionStays DEF Inv

LEMMA KnownVisit ==
  ASSUME Inv, NEW b \in Browsers
  PROVE  browser \in [Browsers -> Visits] /\ browser[b] \in Visits /\ VisitOwned(browser[b])
  BY DEF Inv, VisitsOwned

\* A visit that moves on, with what it names and holds.
LEMMA MovesOn ==
  ASSUME Inv, NEW b \in Browsers, NEW pc \in BrowserPC, Move(b, pc)
  PROVE  \E v \in Visits : /\ browser' = [browser EXCEPT ![b] = v] /\ browser'[b] = v
                           /\ v.pc = pc /\ v.item = browser[b].item
                           /\ v.entry = browser[b].entry /\ v.grant = browser[b].grant
  <1>1. PICK v : v = [browser[b] EXCEPT !.pc = pc]
    OBVIOUS
  <1>2. v \in Visits /\ v.pc = pc /\ v.item = browser[b].item
        /\ v.entry = browser[b].entry /\ v.grant = browser[b].grant
    BY <1>1, KnownVisit DEF Visits
  <1>3. browser' = [browser EXCEPT ![b] = v] /\ browser'[b] = v
    BY <1>1, KnownVisit DEF Move, Visits
  <1> QED BY <1>2, <1>3

LEMMA MovesToItem ==
  ASSUME Inv, NEW b \in Browsers, NEW pc \in BrowserPC, NEW i \in Nat, MoveTo(b, pc, i)
  PROVE  \E v \in Visits : /\ browser' = [browser EXCEPT ![b] = v] /\ browser'[b] = v
                           /\ v.pc = pc /\ v.item = i
                           /\ v.entry = browser[b].entry /\ v.grant = browser[b].grant
  <1>1. PICK v : v = [browser[b] EXCEPT !.pc = pc, !.item = i]
    OBVIOUS
  <1>2. v \in Visits /\ v.pc = pc /\ v.item = i
        /\ v.entry = browser[b].entry /\ v.grant = browser[b].grant
    BY <1>1, KnownVisit DEF Visits
  <1>3. browser' = [browser EXCEPT ![b] = v] /\ browser'[b] = v
    BY <1>1, KnownVisit DEF MoveTo, Visits
  <1> QED BY <1>2, <1>3

LEMMA QuietStore ==
  ASSUME Inv, UNCHANGED <<grants, connections>>
  PROVE  Since(grants, grants') /\ StoreOwned'
  BY SinceItself, StoreStays DEF Inv, GrantsKnown

LEMMA OpenLinkInv ==
  ASSUME Inv, NEW b \in Browsers, OpenLink(b), UNCHANGED session
  PROVE  Inv'
  <1>1. PICK i \in 1..Len(tickets) : MoveTo(b, "ticket", i)
    BY DEF OpenLink
  <1>2. i \in Nat
    BY LenProperties DEF Inv, FlowOwned
  <1>3. UNCHANGED <<tickets, states, grants, connections>>
    BY DEF OpenLink
  <1>4. PICK v \in Visits : /\ browser' = [browser EXCEPT ![b] = v] /\ browser'[b] = v
                            /\ v.pc = "ticket" /\ v.item = i
    BY <1>1, <1>2, MovesToItem DEF BrowserPC
  <1>5. VisitOwned(browser[b])'
    BY <1>3, <1>4 DEF VisitOwned
  <1> QED BY <1>3, <1>4, <1>5, BrowserMoves, QuietStore, FlowUnchanged

LEMMA ReloadCallbackInv ==
  ASSUME Inv, NEW b \in Browsers, ReloadCallback(b), UNCHANGED session
  PROVE  Inv'
  <1>1. PICK i \in 1..Len(states) : MoveTo(b, "state", i)
    BY DEF ReloadCallback
  <1>2. i \in Nat
    BY LenProperties DEF Inv, FlowOwned
  <1>3. UNCHANGED <<tickets, states, grants, connections>>
    BY DEF ReloadCallback
  <1>4. PICK v \in Visits : /\ browser' = [browser EXCEPT ![b] = v] /\ browser'[b] = v
                            /\ v.pc = "state" /\ v.item = i
    BY <1>1, <1>2, MovesToItem DEF BrowserPC
  <1>5. VisitOwned(browser[b])'
    BY <1>3, <1>4 DEF VisitOwned
  <1> QED BY <1>3, <1>4, <1>5, BrowserMoves, QuietStore, FlowUnchanged

LEMMA DeclineInv ==
  ASSUME Inv, NEW b \in Browsers, Decline(b), UNCHANGED session
  PROVE  Inv'
  <1>1. UNCHANGED <<tickets, states, grants, connections>>
    BY DEF Decline
  <1>2. PICK v \in Visits : browser' = [browser EXCEPT ![b] = v] /\ browser'[b] = v /\ v.pc = "done"
    BY MovesOn DEF Decline, BrowserPC
  <1>3. VisitOwned(browser[b])'
    BY <1>2 DEF VisitOwned
  <1> QED BY <1>1, <1>2, <1>3, BrowserMoves, QuietStore, FlowUnchanged

LEMMA ResolveHubIdInv ==
  ASSUME Inv, NEW b \in Browsers, ResolveHubId(b), UNCHANGED session
  PROVE  Inv'
  <1>1. UNCHANGED <<tickets, states, grants, connections>> /\ browser[b].pc = "hub"
    BY DEF ResolveHubId, At
  <1>2. PICK pc \in {"put", "done"} : Move(b, pc)
    BY DEF ResolveHubId
  <1>3. PICK v \in Visits : /\ browser' = [browser EXCEPT ![b] = v] /\ browser'[b] = v /\ v.pc = pc
                            /\ v.entry = browser[b].entry /\ v.grant = browser[b].grant
    BY <1>2, MovesOn DEF BrowserPC
  <1>4. VisitOwned(browser[b])'
    BY <1>1, <1>2, <1>3, KnownVisit DEF VisitOwned
  <1> QED BY <1>1, <1>3, <1>4, BrowserMoves, QuietStore, FlowUnchanged

\* ConnectFlow._take, reading: the visit takes the person of the entry it names.
LEMMA TakesEntry ==
  ASSUME Inv, NEW b \in Browsers, NEW entries, NEW next \in BrowserPC, TakeGet(b, entries, next),
         entries[browser[b].item].subject \in Subjects
  PROVE  \E v \in Visits : /\ browser' = [browser EXCEPT ![b] = v] /\ browser'[b] = v
                           /\ v.pc \in {next, "done"} /\ v.item = browser[b].item
                           /\ v.entry = entries[browser[b].item].subject
  <1>1. PICK pc, s : /\ pc \in {next, "done"} /\ s = entries[browser[b].item].subject
                     /\ browser' = [browser EXCEPT ![b].pc = pc, ![b].entry = s]
    <2>1. PICK got \in CacheGet(entries, browser[b].item) :
             browser' = [browser EXCEPT ![b].pc = IF got.found THEN next ELSE "done",
                                       ![b].entry = entries[browser[b].item].subject]
      BY DEF TakeGet
    <2>2. PICK pc : pc = IF got.found THEN next ELSE "done"
      OBVIOUS
    <2> QED BY <2>1, <2>2
  <1>2. PICK v : v = [browser[b] EXCEPT !.pc = pc, !.entry = s]
    OBVIOUS
  <1>3. pc \in BrowserPC /\ s \in Subjects
    BY <1>1 DEF BrowserPC
  <1>4. v \in Visits /\ v.pc = pc /\ v.item = browser[b].item /\ v.entry = s
    BY <1>2, <1>3, KnownVisit DEF Visits
  <1>5. browser' = [browser EXCEPT ![b] = v] /\ browser'[b] = v
    BY <1>1, <1>2, KnownVisit DEF Visits
  <1> QED BY <1>1, <1>4, <1>5

LEMMA TakeTicketInv ==
  ASSUME Inv, NEW b \in Browsers, TakeTicket(b), UNCHANGED session
  PROVE  Inv'
  <1>1. UNCHANGED <<tickets, states, grants, connections>> /\ browser[b].item \in 1..Len(tickets)
    BY KnownVisit DEF TakeTicket, At, VisitOwned
  <1>2. tickets[browser[b].item].subject \in Subjects
    <2>1. tickets \in Seq(Tickets)
      BY DEF Inv, FlowOwned
    <2>2. tickets[browser[b].item] \in Tickets
      BY <1>1, <2>1, ElementOfSeq
    <2> QED BY <2>2 DEF Tickets
  <1>3. PICK v \in Visits : /\ browser' = [browser EXCEPT ![b] = v] /\ browser'[b] = v
                            /\ v.pc \in {"deleteTicket", "done"} /\ v.item = browser[b].item
                            /\ v.entry = tickets[browser[b].item].subject
    BY <1>2, TakesEntry DEF TakeTicket, BrowserPC
  <1>4. VisitOwned(browser[b])'
    BY <1>1, <1>3 DEF VisitOwned
  <1> QED BY <1>1, <1>3, <1>4, BrowserMoves, QuietStore, FlowUnchanged

LEMMA TakeStateInv ==
  ASSUME Inv, NEW b \in Browsers, TakeState(b), UNCHANGED session
  PROVE  Inv'
  <1>1. UNCHANGED <<tickets, states, grants, connections>> /\ browser[b].item \in 1..Len(states)
    BY KnownVisit DEF TakeState, At, VisitOwned
  <1>2. states[browser[b].item].subject \in Subjects
    <2>1. states \in Seq(States)
      BY DEF Inv, FlowOwned
    <2>2. states[browser[b].item] \in States
      BY <1>1, <2>1, ElementOfSeq
    <2> QED BY <2>2 DEF States
  <1>3. PICK v \in Visits : /\ browser' = [browser EXCEPT ![b] = v] /\ browser'[b] = v
                            /\ v.pc \in {"deleteState", "done"} /\ v.item = browser[b].item
                            /\ v.entry = states[browser[b].item].subject
    BY <1>2, TakesEntry DEF TakeState, BrowserPC
  <1>4. VisitOwned(browser[b])'
    BY <1>1, <1>3 DEF VisitOwned
  <1> QED BY <1>1, <1>3, <1>4, BrowserMoves, QuietStore, FlowUnchanged

\* A cache entry dies, or a state goes on with HubSpot's code: all keep their person.
LEMMA TicketDies ==
  ASSUME Inv, NEW i \in 1..Len(tickets), tickets' = [tickets EXCEPT ![i].live = FALSE], UNCHANGED states
  PROVE  FlowKept
  <1>1. tickets \in Seq(Tickets) /\ tickets[i] \in Tickets /\ Len(tickets) \in Nat
        /\ tickets \in [1..Len(tickets) -> Tickets]
    BY LenProperties, ElementOfSeq, SeqIsFunction DEF Inv, FlowOwned
  <1>2. PICK e : e = [tickets[i] EXCEPT !.live = FALSE]
    OBVIOUS
  <1>3. e \in Tickets /\ e.subject = tickets[i].subject /\ tickets' = [tickets EXCEPT ![i] = e]
    BY <1>1, <1>2 DEF Tickets
  <1>4. /\ tickets' \in Seq(Tickets) /\ Len(tickets') = Len(tickets)
        /\ \A j \in 1..Len(tickets) : tickets'[j].subject = tickets[j].subject
    <2>1. /\ tickets' \in Seq(Tickets) /\ Len(tickets') = Len(tickets)
          /\ \A j \in 1..Len(tickets) : tickets'[j] = IF j = i THEN e ELSE tickets[j]
      <3>1. tickets \in Seq(Tickets) /\ e \in Tickets /\ tickets' = [tickets EXCEPT ![i] = e]
        BY <1>1, <1>3, Zenon
      <3>2. /\ [tickets EXCEPT ![i] = e] \in Seq(Tickets) /\ Len([tickets EXCEPT ![i] = e]) = Len(tickets)
            /\ \A j \in 1..Len(tickets) : [tickets EXCEPT ![i] = e][j] = IF j = i THEN e ELSE tickets[j]
        BY <3>1, ExceptSeq
      <3> QED BY <3>1, <3>2, Zenon
    <2> QED BY <1>3, <2>1
  <1>5. Len(states) \in Nat
    BY LenProperties DEF Inv, FlowOwned
  <1> QED BY <1>1, <1>4, <1>5 DEF FlowKept, EntriesKept, Inv, FlowOwned

LEMMA StateChanges ==
  ASSUME Inv, NEW k \in 1..Len(states), UNCHANGED tickets,
         \/ states' = [states EXCEPT ![k].live = FALSE]
         \/ states' = [states EXCEPT ![k].code = "ready"]
         \/ states' = [states EXCEPT ![k].code = "used"]
  PROVE  FlowKept /\ Len(states') = Len(states)
  <1>1. states \in Seq(States) /\ states[k] \in States /\ Len(states) \in Nat
        /\ states \in [1..Len(states) -> States]
    BY LenProperties, ElementOfSeq, SeqIsFunction DEF Inv, FlowOwned
  <1>2. PICK e : /\ \/ e = [states[k] EXCEPT !.live = FALSE]
                    \/ e = [states[k] EXCEPT !.code = "ready"]
                    \/ e = [states[k] EXCEPT !.code = "used"]
                 /\ states' = [states EXCEPT ![k] = e]
    BY <1>1 DEF States
  <1>3. e \in States /\ e.subject = states[k].subject /\ e.ticket = states[k].ticket
    BY <1>1, <1>2 DEF States
  <1>4. /\ states' \in Seq(States) /\ Len(states') = Len(states)
        /\ \A j \in 1..Len(states) : /\ states'[j].subject = states[j].subject
                                    /\ states'[j].ticket = states[j].ticket
    BY <1>1, <1>2, <1>3, ExceptSeq
  <1>5. Len(tickets) \in Nat
    BY LenProperties DEF Inv, FlowOwned
  <1> QED BY <1>1, <1>4, <1>5 DEF FlowKept, EntriesKept, Inv, FlowOwned

LEMMA DeleteTicketInv ==
  ASSUME Inv, NEW b \in Browsers, DeleteTicket(b), UNCHANGED session
  PROVE  Inv'
  <1>1. /\ UNCHANGED <<states, grants, connections>> /\ browser[b].pc = "deleteTicket"
        /\ browser[b].item \in 1..Len(tickets)
        /\ browser[b].entry = tickets[browser[b].item].subject
    BY KnownVisit DEF DeleteTicket, At, VisitOwned
  <1>2. PICK i \in 1..Len(tickets) : i = browser[b].item
    BY <1>1
  <1>3. tickets' = [tickets EXCEPT ![i].live = FALSE] \/ tickets' = tickets
    BY <1>2 DEF DeleteTicket, CacheDelete
  <1>4. FlowKept
    BY <1>1, <1>3, TicketDies, FlowUnchanged
  <1>5. PICK v \in Visits : /\ browser' = [browser EXCEPT ![b] = v] /\ browser'[b] = v /\ v.pc = "mint"
                            /\ v.item = i /\ v.entry = browser[b].entry
    BY <1>2, MovesOn DEF DeleteTicket, BrowserPC
  <1>6. VisitOwned(browser[b])'
    <2>1. Len(tickets) \in Nat
      BY LenProperties DEF Inv, FlowOwned
    <2> QED BY <1>1, <1>2, <1>4, <1>5, <2>1 DEF VisitOwned, FlowKept, EntriesKept
  <1> QED BY <1>1, <1>4, <1>5, <1>6, BrowserMoves, QuietStore

LEMMA DeleteStateInv ==
  ASSUME Inv, NEW b \in Browsers, DeleteState(b), UNCHANGED session
  PROVE  Inv'
  <1>1. /\ UNCHANGED <<tickets, grants, connections>> /\ browser[b].pc = "deleteState"
        /\ browser[b].item \in 1..Len(states)
        /\ browser[b].entry = states[browser[b].item].subject
    BY KnownVisit DEF DeleteState, At, VisitOwned
  <1>2. PICK i \in 1..Len(states) : i = browser[b].item
    BY <1>1
  <1>3. states' = [states EXCEPT ![i].live = FALSE] \/ states' = states
    BY <1>2 DEF DeleteState, CacheDelete
  <1>4. FlowKept
    BY <1>1, <1>3, StateChanges, FlowUnchanged
  <1>5. PICK v \in Visits : /\ browser' = [browser EXCEPT ![b] = v] /\ browser'[b] = v /\ v.pc = "exchange"
                            /\ v.item = i /\ v.entry = browser[b].entry
    BY <1>2, MovesOn DEF DeleteState, BrowserPC
  <1>6. VisitOwned(browser[b])'
    <2>1. Len(states) \in Nat
      BY LenProperties DEF Inv, FlowOwned
    <2> QED BY <1>1, <1>2, <1>4, <1>5, <2>1 DEF VisitOwned, FlowKept, EntriesKept
  <1> QED BY <1>1, <1>4, <1>5, <1>6, BrowserMoves, QuietStore

LEMMA ConsentInv ==
  ASSUME Inv, NEW b \in Browsers, Consent(b), UNCHANGED session
  PROVE  Inv'
  <1>1. /\ UNCHANGED <<tickets, grants, connections>> /\ browser[b].pc = "consent"
        /\ browser[b].item \in 1..Len(states)
    BY KnownVisit DEF Consent, At, VisitOwned
  <1>2. PICK i \in 1..Len(states) : i = browser[b].item
    BY <1>1
  <1>3. states' = [states EXCEPT ![i].code = "ready"]
    BY <1>2 DEF Consent
  <1>4. FlowKept /\ Len(states') = Len(states)
    BY <1>1, <1>3, StateChanges
  <1>5. PICK v \in Visits : browser' = [browser EXCEPT ![b] = v] /\ browser'[b] = v /\ v.pc = "state" /\ v.item = i
    BY <1>2, MovesOn DEF Consent, BrowserPC
  <1>6. VisitOwned(browser[b])'
    BY <1>4, <1>5 DEF VisitOwned
  <1> QED BY <1>1, <1>4, <1>5, <1>6, BrowserMoves, QuietStore

\* ConnectFlow.begin: the state it mints is for the person whose ticket it took.
LEMMA MintStateInv ==
  ASSUME Inv, NEW b \in Browsers, MintState(b), UNCHANGED session
  PROVE  Inv'
  <1>1. /\ UNCHANGED <<tickets, grants, connections>> /\ browser[b].pc = "mint"
        /\ browser[b].item \in 1..Len(tickets)
        /\ browser[b].entry = tickets[browser[b].item].subject
    BY KnownVisit DEF MintState, At, VisitOwned
  <1>2. /\ Len(tickets) \in Nat /\ Len(states) \in Nat
        /\ tickets \in Seq(Tickets) /\ states \in Seq(States)
    BY LenProperties DEF Inv, FlowOwned
  <1>3. PICK i \in 1..Len(tickets) : i = browser[b].item
    BY <1>1
  <1>4. PICK s \in Subjects : s = browser[b].entry
    <2>1. tickets[i] \in Tickets
      BY <1>2, ElementOfSeq
    <2> QED BY <1>1, <1>3, <2>1 DEF Tickets
  <1>5. PICK e \in States : e.subject = s /\ e.ticket = i /\ states' = Append(states, e)
    <2>1. PICK set \in CacheSet(states, [subject |-> s, live |-> TRUE, ticket |-> i, code |-> "none"]) :
             states' = set.entries
      BY <1>3, <1>4 DEF MintState
    <2>2. PICK live \in BOOLEAN : set.entries =
             Append(states, [[subject |-> s, live |-> TRUE, ticket |-> i, code |-> "none"] EXCEPT !.live = live])
      <3>1. PICK live \in BOOLEAN : set = [ok |-> live, entries |->
               Append(states, [[subject |-> s, live |-> TRUE, ticket |-> i, code |-> "none"] EXCEPT !.live = live])]
        BY <2>1 DEF CacheSet
      <3> QED BY <3>1
    <2>3. PICK e : e = [[subject |-> s, live |-> TRUE, ticket |-> i, code |-> "none"] EXCEPT !.live = live]
      OBVIOUS
    <2>4. e \in States /\ e.subject = s /\ e.ticket = i
      <3>1. i \in Nat
        BY <1>2
      <3>2. CASE live = TRUE
        BY <2>3, <3>1, <3>2 DEF States
      <3>3. CASE live = FALSE
        BY <2>3, <3>1, <3>3 DEF States
      <3> QED BY <3>2, <3>3
    <2>5. states' = Append(states, e)
      BY <2>1, <2>2, <2>3
    <2> QED BY <2>4, <2>5
  <1>6. /\ states' \in Seq(States) /\ Len(states') = Len(states) + 1
        /\ \A k \in 1..Len(states) : states'[k] = states[k]
        /\ states'[Len(states) + 1] = e
    BY <1>2, <1>5, Appended
  <1>7. FlowKept
    <2>1. ASSUME NEW k \in 1..Len(states')
          PROVE  states'[k].ticket \in 1..Len(tickets) /\ tickets[states'[k].ticket].subject = states'[k].subject
      <3>1. CASE k \in 1..Len(states)
        BY <1>6, <3>1 DEF Inv, FlowOwned
      <3>2. CASE k = Len(states) + 1
        BY <1>1, <1>3, <1>4, <1>5, <1>6, <3>2
      <3> QED BY <1>2, <1>6, <3>1, <3>2
    <2> QED BY <1>1, <1>2, <1>6, <2>1 DEF FlowKept, EntriesKept
  <1>8. PICK v \in Visits : /\ browser' = [browser EXCEPT ![b] = v] /\ browser'[b] = v
                            /\ v.pc = "consent" /\ v.item = Len(states) + 1
    <2>1. Len(states) + 1 \in Nat /\ MoveTo(b, "consent", Len(states) + 1)
      BY <1>2 DEF MintState
    <2> QED BY <2>1, MovesToItem DEF BrowserPC
  <1>9. VisitOwned(browser[b])'
    BY <1>2, <1>6, <1>8 DEF VisitOwned
  <1> QED BY <1>1, <1>7, <1>8, <1>9, BrowserMoves, QuietStore

\* A new grant leaves the others as they were.
LEMMA AddedGrant ==
  ASSUME NEW gs \in Seq(GrantRecords), NEW e \in GrantRecords
  PROVE  /\ Since(gs, Append(gs, e)) /\ Len(gs) + 1 \in Nat
         /\ GaveIn(Append(gs, e), e.owner, Len(gs) + 1)
  <1>1. /\ Append(gs, e) \in Seq(GrantRecords) /\ Len(Append(gs, e)) = Len(gs) + 1 /\ Len(gs) \in Nat
        /\ \A i \in 1..Len(gs) : Append(gs, e)[i] = gs[i]
        /\ Append(gs, e)[Len(gs) + 1] = e
    BY Appended, LenProperties
  <1> QED BY <1>1 DEF Since, GaveIn

\* ConnectFlow.complete: consent was given by the person the state is for.
LEMMA ExchangeInv ==
  ASSUME Inv, NEW b \in Browsers, Exchange(b), UNCHANGED session
  PROVE  Inv'
  <1>1. /\ UNCHANGED <<tickets, connections>> /\ browser[b].pc = "exchange"
        /\ browser[b].item \in 1..Len(states)
        /\ browser[b].entry = states[browser[b].item].subject
    BY KnownVisit DEF Exchange, At, VisitOwned
  <1>2. PICK k \in 1..Len(states) : k = browser[b].item
    BY <1>1
  <1>3. CASE Move(b, "done") /\ UNCHANGED <<states, grants>>
    <2>1. PICK v \in Visits : browser' = [browser EXCEPT ![b] = v] /\ browser'[b] = v /\ v.pc = "done"
      BY <1>3, MovesOn DEF BrowserPC
    <2>2. VisitOwned(browser[b])'
      BY <2>1 DEF VisitOwned
    <2> QED BY <1>1, <1>3, <2>1, <2>2, BrowserMoves, QuietStore, FlowUnchanged
  <1>4. CASE /\ states' = [states EXCEPT ![k].code = "used"]
             /\ grants' = ExchangeCodeOnly(tickets[states[k].ticket].subject)
             /\ browser' = [browser EXCEPT ![b].pc = "hub", ![b].grant = Len(grants) + 1]
    <2>1. PICK s \in Subjects : /\ s = browser[b].entry /\ s = states[k].subject
                               /\ s = tickets[states[k].ticket].subject
      <3>1. states[k] \in States /\ tickets[states[k].ticket].subject = states[k].subject
        BY ElementOfSeq DEF Inv, FlowOwned
      <3> QED BY <1>1, <1>2, <3>1 DEF States
    <2>2. PICK e \in GrantRecords : e.owner = s /\ grants' = Append(grants, e)
      <3>1. NewGrant(s) \in GrantRecords /\ NewGrant(s).owner = s
        BY DEF NewGrant, GrantRecords
      <3> QED BY <1>4, <2>1, <3>1 DEF ExchangeCodeOnly
    <2>3. Since(grants, grants') /\ Len(grants) + 1 \in Nat /\ GaveIn(grants', s, Len(grants) + 1)
      BY <2>2, AddedGrant DEF Inv, GrantsKnown
    <2>4. PICK g \in Nat : g = Len(grants) + 1
      BY <2>3
    <2>5. PICK v : v = [browser[b] EXCEPT !.pc = "hub", !.grant = g]
      OBVIOUS
    <2>6. v \in Visits /\ v.pc = "hub" /\ v.entry = s /\ v.grant = g
      BY <2>1, <2>5, KnownVisit DEF Visits, BrowserPC
    <2>7. browser' = [browser EXCEPT ![b] = v] /\ browser'[b] = v
      BY <1>4, <2>4, <2>5, KnownVisit DEF Visits
    <2>8. VisitOwned(browser[b])'
      BY <2>3, <2>4, <2>6, <2>7 DEF VisitOwned
    <2>9. FlowKept
      BY <1>1, <1>4, StateChanges
    <2>10. StoreOwned'
      BY <1>1, <2>3, StoreStays
    <2> QED BY <2>3, <2>6, <2>7, <2>8, <2>9, <2>10, BrowserMoves
  <1> QED BY <1>2, <1>3, <1>4 DEF Exchange

LEMMA PutConnectionInv ==
  ASSUME Inv, NEW b \in Browsers, PutConnection(b), UNCHANGED session
  PROVE  Inv'
  <1>1. /\ UNCHANGED <<tickets, states, grants>> /\ browser[b].entry \in Subjects
        /\ GaveIn(grants, browser[b].entry, browser[b].grant) /\ browser[b].grant \in Nat
    BY KnownVisit DEF PutConnection, At, VisitOwned, Visits
  <1>2. PICK c : c = Connection(browser[b].entry, browser[b].grant, 1, 1)
    OBVIOUS
  <1>3. Owned(c, c.subject)
    BY <1>1, <1>2 DEF Connection, Owned, Conns
  <1>4. StoreOwned'
    BY <1>1, <1>2, <1>3, StorePutOwned DEF PutConnection
  <1>5. PICK v \in Visits : browser' = [browser EXCEPT ![b] = v] /\ browser'[b] = v /\ v.pc = "done"
    BY MovesOn DEF PutConnection, BrowserPC
  <1>6. VisitOwned(browser[b])'
    BY <1>5 DEF VisitOwned
  <1>7. Since(grants, grants')
    BY <1>1, SinceItself DEF Inv, GrantsKnown
  <1> QED BY <1>1, <1>4, <1>5, <1>6, <1>7, BrowserMoves, FlowUnchanged

LEMMA ExpireEntryInv ==
  ASSUME Inv, ExpireEntry, UNCHANGED session
  PROVE  Inv'
  <1>1. UNCHANGED <<browser, grants, connections>>
    BY DEF ExpireEntry
  <1>2. FlowKept
    <2>1. \/ \E t \in 1..Len(tickets) : tickets' = [tickets EXCEPT ![t].live = FALSE] /\ UNCHANGED states
          \/ \E k \in 1..Len(states) : states' = [states EXCEPT ![k].live = FALSE] /\ UNCHANGED tickets
      BY DEF ExpireEntry, Live
    <2> QED BY <2>1, TicketDies, StateChanges
  <1>3. VisitsOwned' /\ FlowOwned'
    BY <1>1, <1>2, FlowMoves, QuietStore DEF Inv, VisitsOwned
  <1>4. GrantsKnown'
    BY <1>1 DEF Inv, GrantsKnown
  <1> QED BY <1>1, <1>3, <1>4, QuietStore, SessionStays DEF Inv

-----------------------------------------------------------------------------
(* What happens at HubSpot, and the end of the lifespan *)

LEMMA AgedOrRevoked ==
  ASSUME GrantsKnown, NEW g \in Grants, Age(g) \/ Revoke(g)
  PROVE  Since(grants, grants') /\ UNCHANGED connections
  <1>1. grants \in Seq(GrantRecords) /\ grants \in [1..Len(grants) -> GrantRecords]
        /\ grants[g] \in GrantRecords /\ g \in 1..Len(grants)
    BY ElementOfSeq, SeqIsFunction DEF GrantsKnown, Grants
  <1>2. PICK e : /\ \/ e = [grants[g] EXCEPT !.aged = grants[g].issued]
                    \/ e = [grants[g] EXCEPT !.revoked = TRUE]
                 /\ grants' = [grants EXCEPT ![g] = e]
    BY <1>1 DEF Age, Revoke
  <1>3. e \in GrantRecords /\ e.owner = grants[g].owner /\ (grants[g].revoked => e.revoked)
    BY <1>1, <1>2 DEF GrantRecords
  <1> QED BY <1>1, <1>2, <1>3, ChangedGrant DEF Age, Revoke

LEMMA ElsewhereInv ==
  ASSUME Inv, Elsewhere
  PROVE  Inv'
  <1>1. Since(grants, grants') /\ UNCHANGED connections
    BY AgedOrRevoked DEF Elsewhere, Inv
  <1>2. UNCHANGED flow /\ UNCHANGED session
    BY DEF Elsewhere
  <1>3. GrantsKnown'
    BY <1>1 DEF Since, GrantsKnown
  <1> QED BY <1>1, <1>2, <1>3, StoreStays, FlowStays, SessionStays DEF Inv

LEMMA ShutdownInv ==
  ASSUME Inv, Shutdown
  PROVE  Inv'
  <1>1. UNCHANGED <<grants, connections, flow, req, pool, clients>>
    BY DEF Shutdown
  <1>2. Since(grants, grants') /\ GrantsKnown'
    BY <1>1, SinceItself DEF Inv, GrantsKnown
  <1> QED BY <1>1, <1>2, StoreStays, FlowStays, ClientsStay, CallsStay DEF Inv

LEMMA CloseAllInv ==
  ASSUME Inv, CloseAll
  PROVE  Inv'
  <1>1. UNCHANGED <<grants, connections, flow, req>> /\ pool' = <<>>
    BY DEF CloseAll
  <1>2. Since(grants, grants') /\ GrantsKnown'
    BY <1>1, SinceItself DEF Inv, GrantsKnown
  <1>3. DOMAIN clients = 1..Len(clients) /\ Len(clients) \in Nat
    BY LenProperties DEF Inv, ClientsOwned
  <1>4. \A c \in 1..Len(clients) :
          /\ clients'[c] \in ClientRecords /\ clients'[c].subject = clients[c].subject
          /\ clients'[c].portal = clients[c].portal
    <2>1. ASSUME NEW c \in 1..Len(clients)
          PROVE  /\ clients'[c] \in ClientRecords /\ clients'[c].subject = clients[c].subject
                 /\ clients'[c].portal = clients[c].portal
      <3>1. clients[c] \in ClientRecords
        BY KnownClient
      <3>2. clients'[c] = [clients[c] EXCEPT !.open = clients[c].open /\ c \notin {pool[i] : i \in DOMAIN pool}]
        BY <1>3 DEF CloseAll
      <3>3. clients'[c] = [clients[c] EXCEPT !.open = TRUE] \/ clients'[c] = [clients[c] EXCEPT !.open = FALSE]
        BY <3>2, Zenon
      <3> QED BY <3>1, <3>3 DEF ClientRecords
    <2> QED BY <2>1
  <1>5. clients' \in Seq(ClientRecords) /\ Len(clients') = Len(clients)
    <2>1. clients' \in [1..Len(clients) -> ClientRecords]
      BY <1>3, <1>4 DEF CloseAll
    <2> QED BY <1>3, <2>1, FunctionIsSeq
  <1>6. ClientsOwned' /\ ClientsGrow
    BY <1>1, <1>3, <1>4, <1>5, KnownClient DEF ClientsOwned, ClientsGrow
  <1>7. PoolKnown'
    BY <1>1, EmptySeq DEF PoolKnown
  <1> QED BY <1>1, <1>2, <1>6, <1>7, StoreStays, FlowStays, CallsStay DEF Inv

-----------------------------------------------------------------------------
(* Nobody acts on a grant another person gave *)

LEMMA InitInv == Init => Inv
  <1> SUFFICES ASSUME Init PROVE Inv
    OBVIOUS
  <1>1. PICK n \in 0..Len(Earlier) :
          /\ grants = [i \in 1..n |-> NewGrant(Earlier[i])]
          /\ connections = [s \in Subjects |->
               IF \E i \in 1..n : Earlier[i] = s
                 THEN Connection(s, CHOOSE i \in 1..n : Earlier[i] = s, 1, 1) ELSE None]
    BY DEF Init
  <1>2. n \in Nat /\ \A i \in 1..n : Earlier[i] \in Subjects
    BY SessionAssumption, LenProperties, ElementOfSeq
  <1>3. /\ grants \in Seq(GrantRecords) /\ Len(grants) = n
        /\ \A i \in 1..n : grants[i].owner = Earlier[i]
    <2>1. \A i \in 1..n : NewGrant(Earlier[i]) \in GrantRecords /\ NewGrant(Earlier[i]).owner = Earlier[i]
      BY <1>2 DEF NewGrant, GrantRecords
    <2>2. grants \in [1..n -> GrantRecords]
      BY <1>1, <2>1
    <2> QED BY <1>1, <1>2, <2>1, <2>2, FunctionIsSeq
  <1>4. ASSUME NEW s \in Subjects
        PROVE  connections[s] = None \/ Owned(connections[s], s)
    <2>1. CASE \E i \in 1..n : Earlier[i] = s
      <3>1. PICK i \in 1..n : i = (CHOOSE j \in 1..n : Earlier[j] = s) /\ Earlier[i] = s
        BY <2>1
      <3>2. connections[s] = Connection(s, i, 1, 1)
        BY <1>1, <2>1, <3>1
      <3>3. i \in Nat /\ i \in 1..Len(grants) /\ grants[i].owner = s
        BY <1>2, <1>3, <3>1
      <3> QED BY <3>2, <3>3 DEF Connection, Owned, Conns, GaveIn
    <2>2. CASE ~\E i \in 1..n : Earlier[i] = s
      BY <1>1, <2>2
    <2> QED BY <2>1, <2>2
  <1>5. StoreOwned
    <2>1. DOMAIN connections = Subjects /\ connections = [s \in Subjects |-> connections[s]]
      BY <1>1
    <2>2. \A s \in Subjects : connections[s] \in Conns \union {None}
      BY <1>4 DEF Owned
    <2>3. connections \in [Subjects -> Conns \union {None}]
      BY <2>1, <2>2
    <2> QED BY <1>4, <2>3 DEF StoreOwned
  <1>6. FlowOwned
    BY EmptySeq DEF Init, FlowInit, FlowOwned
  <1>7. VisitsOwned
    BY DEF Init, FlowInit, VisitsOwned, Visits, VisitOwned, BrowserPC
  <1>8. ClientsOwned /\ PoolKnown /\ clients = <<>>
    BY EmptySeq DEF Init, SessionInit, ClientsOwned, PoolKnown
  <1>9. CallsOwned
    <2>1. \A r \in Requests : req[r] = NewRequest
      BY DEF Init, SessionInit
    <2>2. NewRequest \in Calls
      BY DEF NewRequest, Calls, ReqPC, Answers
    <2>3. req \in [Requests -> Calls]
      BY <2>2 DEF Init, SessionInit
    <2>4. CallOwned(NewRequest)
      BY DEF NewRequest, CallOwned, Holding, Calling
    <2> QED BY <2>1, <2>3, <2>4 DEF CallsOwned
  <1> QED BY <1>3, <1>5, <1>6, <1>7, <1>8, <1>9 DEF Inv, GrantsKnown

LEMMA StepInv ==
  ASSUME Inv, NEW r \in Requests, Arrive(r) \/ Step(r)
  PROVE  Inv'
  BY ArriveInv, ReadConnectionInv, RefreshGrantInv, StoreRefreshedInv, GuideInv, AcquireInv,
     CloseVictimInv, FreshTokenInv, ForceRefreshInv, ClientReadsInv, ClientRefreshesInv,
     ClientStoresInv, SendInv, SendOnClosedInv DEF Step

LEMMA BrowserInv ==
  ASSUME Inv, NEW b \in Browsers, BrowserSteps(b), UNCHANGED session
  PROVE  Inv'
  BY OpenLinkInv, ConsentInv, DeclineInv, ReloadCallbackInv, TakeTicketInv, DeleteTicketInv,
     MintStateInv, TakeStateInv, DeleteStateInv, ExchangeInv, ResolveHubIdInv, PutConnectionInv
     DEF BrowserSteps, BrowserServed

LEMMA NextInv == Inv /\ [Next]_vars => Inv'
  <1> SUFFICES ASSUME Inv, [Next]_vars PROVE Inv'
    OBVIOUS
  <1>1. CASE UNCHANGED vars
    <2>1. UNCHANGED <<grants, connections, flow, req, pool, clients>>
      BY <1>1 DEF vars, session
    <2>2. Since(grants, grants') /\ GrantsKnown'
      BY <2>1, SinceItself DEF Inv, GrantsKnown
    <2> QED BY <2>1, <2>2, StoreStays, FlowStays, ClientsStay, CallsStay DEF Inv
  <1>2. CASE Next
    BY <1>2, StepInv, BrowserInv, ExpireEntryInv, ElsewhereInv, ShutdownInv, CloseAllInv DEF Next
  <1> QED BY <1>1, <1>2

LEMMA OwnedIsOwn == Inv => OwnGrantOnly
  <1> SUFFICES ASSUME Inv PROVE OwnGrantOnly
    OBVIOUS
  <1>1. ASSUME NEW s \in Subjects, connections[s] # None
        PROVE  connections[s].subject = s /\ grants[connections[s].grant].owner = s
    BY <1>1 DEF Inv, StoreOwned, Owned, GaveIn
  <1>2. ASSUME NEW c \in DOMAIN clients
        PROVE  grants[clients[c].portal.token[1]].owner = clients[c].subject
    <2>1. c \in 1..Len(clients)
      BY LenProperties DEF Inv, ClientsOwned
    <2> QED BY <2>1 DEF Inv, ClientsOwned, GaveIn
  <1>3. ASSUME NEW r \in Requests, req[r].client # 0
        PROVE  Client(r).subject = Subject(r)
    BY <1>3, KnownCall DEF CallOwned, Client, Subject
  <1> QED BY <1>1, <1>2, <1>3 DEF OwnGrantOnly

\* For any people, calls and browsers, however their awaits interleave: the stored
\* connection, the client a call holds and the token that client sends all go back to
\* a grant of the caller (hosted_session.py:15).
THEOREM OnlyOneself == Spec => []OwnGrantOnly
  <1>1. Spec => []Inv
    BY InitInv, NextInv, PTL DEF Spec
  <1> QED BY <1>1, OwnedIsOwn, PTL

-----------------------------------------------------------------------------
(* What a step makes of a call *)

\* The call with which nothing happens but where it is and what it holds.
Becomes(r, q) ==
  /\ q \in Calls /\ req' = [req EXCEPT ![r] = q] /\ req'[r] = q
  /\ q.kind = req[r].kind /\ q.sent = req[r].sent /\ q.victims = req[r].victims

LEMMA AnswerBecomes ==
  ASSUME Inv, NEW r \in Requests, NEW a \in Answers, Answer(r, a)
  PROVE  \E q : Becomes(r, q) /\ q.pc = "done" /\ q.refused = req[r].refused
  <1>1. PICK q : q = [req[r] EXCEPT !.pc = "done", !.answer = a]
    OBVIOUS
  <1>2. q \in Calls /\ q.pc = "done" /\ q.refused = req[r].refused
        /\ q.kind = req[r].kind /\ q.sent = req[r].sent /\ q.victims = req[r].victims
    BY ZenonT(60), <1>1, KnownCall DEF Calls, ReqPC
  <1>3. req' = [req EXCEPT ![r] = q] /\ req'[r] = q
    BY <1>1, KnownCall DEF Answer, Calls
  <1> QED BY <1>2, <1>3 DEF Becomes

LEMMA GotoBecomes ==
  ASSUME Inv, NEW r \in Requests, NEW pc \in ReqPC, Goto(r, pc)
  PROVE  \E q : Becomes(r, q) /\ q.pc = pc /\ q.refused = req[r].refused /\ q.held = req[r].held
  <1>1. PICK q : q = [req[r] EXCEPT !.pc = pc]
    OBVIOUS
  <1>2. q \in Calls /\ q.pc = pc /\ q.refused = req[r].refused /\ q.held = req[r].held
        /\ q.kind = req[r].kind /\ q.sent = req[r].sent /\ q.victims = req[r].victims
    BY <1>1, KnownCall DEF Calls
  <1>3. req' = [req EXCEPT ![r] = q] /\ req'[r] = q
    BY <1>1, KnownCall DEF Goto, Calls
  <1> QED BY <1>2, <1>3 DEF Becomes

Hold(r, pc, c) == req' = [req EXCEPT ![r].pc = pc, ![r].held = c]

LEMMA HoldBecomes ==
  ASSUME Inv, NEW r \in Requests, NEW pc \in ReqPC, NEW c \in Conns, Hold(r, pc, c)
  PROVE  \E q : Becomes(r, q) /\ q.pc = pc /\ q.refused = req[r].refused /\ q.held = c
                /\ q.forced = req[r].forced
  <1>1. PICK q : q = [req[r] EXCEPT !.pc = pc, !.held = c]
    OBVIOUS
  <1>2. q \in Calls /\ q.pc = pc /\ q.refused = req[r].refused /\ q.held = c /\ q.forced = req[r].forced
        /\ q.kind = req[r].kind /\ q.sent = req[r].sent /\ q.victims = req[r].victims
    BY <1>1, KnownCall DEF Calls
  <1>3. req' = [req EXCEPT ![r] = q] /\ req'[r] = q
    BY <1>1, KnownCall DEF Calls, Hold
  <1> QED BY <1>2, <1>3 DEF Becomes

Lock(r) ==
  \/ req[r].pc = "fresh" /\ req' = [req EXCEPT ![r].pc = "clientRead", ![r].forced = FALSE]
  \/ req[r].pc = "force" /\ req' = [req EXCEPT ![r].pc = "clientRead", ![r].forced = TRUE]

LEMMA LockBecomes ==
  ASSUME Inv, NEW r \in Requests, Lock(r)
  PROVE  \E q : Becomes(r, q) /\ q.pc = "clientRead" /\ q.refused = req[r].refused
                /\ (req[r].pc = "force" => q.forced)
  <1>1. PICK q : /\ \/ req[r].pc = "fresh" /\ q = [req[r] EXCEPT !.pc = "clientRead", !.forced = FALSE]
                    \/ req[r].pc = "force" /\ q = [req[r] EXCEPT !.pc = "clientRead", !.forced = TRUE]
                 /\ req' = [req EXCEPT ![r] = q]
    <2>1. CASE req[r].pc = "fresh" /\ req' = [req EXCEPT ![r].pc = "clientRead", ![r].forced = FALSE]
      <3>1. req' = [req EXCEPT ![r] = [req[r] EXCEPT !.pc = "clientRead", !.forced = FALSE]]
        BY <2>1, KnownCall DEF Calls
      <3> QED BY <2>1, <3>1
    <2>2. CASE req[r].pc = "force" /\ req' = [req EXCEPT ![r].pc = "clientRead", ![r].forced = TRUE]
      <3>1. req' = [req EXCEPT ![r] = [req[r] EXCEPT !.pc = "clientRead", !.forced = TRUE]]
        BY <2>2, KnownCall DEF Calls
      <3> QED BY <2>2, <3>1
    <2> QED BY <2>1, <2>2 DEF Lock
  <1>2. q \in Calls /\ q.pc = "clientRead" /\ q.refused = req[r].refused
        /\ q.kind = req[r].kind /\ q.sent = req[r].sent /\ q.victims = req[r].victims
    BY ZenonT(60), <1>1, KnownCall DEF Calls, ReqPC
  <1>3. req' = [req EXCEPT ![r] = q] /\ req'[r] = q
    BY <1>1, KnownCall
  <1>4. req[r].pc = "force" => q.forced
    BY <1>1, KnownCall DEF Calls
  <1> QED BY <1>2, <1>3, <1>4 DEF Becomes

\* What the refresh of a grant hands a call.
LEMMA RefreshedHeld ==
  ASSUME Inv, NEW r \in Requests, req[r].pc \in {"refresh", "clientRefresh"},
         NEW out \in RefreshTokensOnly(req[r].held.grant, req[r].held.refresh), out.status = "ok"
  PROVE  WithTokens(req[r].held, out.body) \in Conns
  <1>1. Owned(req[r].held, req[r].subject) /\ req[r].held.grant \in Grants
    BY KnownCall DEF CallOwned, Holding, Owned, GaveIn, Grants
  <1>2. out.body.access \in Nat /\ (out.body.refresh # None => out.body.refresh \in Nat)
    BY <1>1, RefreshOutcomes DEF Inv
  <1>3. Owned(WithTokens(req[r].held, out.body), req[r].subject)
    BY <1>1, <1>2, TokensOwned
  <1> QED BY <1>3 DEF Owned

LEMMA GuideBecomes ==
  ASSUME Inv, NEW r \in Requests, req[r].held.grant \in Nat,
         req' = [req EXCEPT ![r].pc = "guide", ![r].refused = req[r].held.grant]
  PROVE  \E q : Becomes(r, q) /\ q.pc = "guide" /\ q.refused = req[r].held.grant
  <1>1. PICK g \in Nat : g = req[r].held.grant
    OBVIOUS
  <1>2. PICK q : q = [req[r] EXCEPT !.pc = "guide", !.refused = g]
    OBVIOUS
  <1>3. req' = [req EXCEPT ![r] = q] /\ req'[r] = q
    BY <1>1, <1>2, KnownCall DEF Calls
  <1>4. q \in Calls /\ q.pc = "guide" /\ q.refused = g
        /\ q.kind = req[r].kind /\ q.sent = req[r].sent /\ q.victims = req[r].victims
    BY ZenonT(60), <1>2, KnownCall DEF Calls, ReqPC
  <1> QED BY <1>1, <1>3, <1>4 DEF Becomes

LEMMA ReadConnectionShape ==
  ASSUME Inv, NEW r \in Requests, ReadConnection(r)
  PROVE  \E got \in StoreGet(Subject(r)) :
             \/ ~got.ok /\ Answer(r, "error")
             \/ got.ok /\ got.found = None /\ Goto(r, "guide")
             \/ /\ got.ok /\ got.found # None
                /\ \E pc \in {"acquire", "reread", "refresh"} :
                     req' = [req EXCEPT ![r].pc = pc, ![r].held = got.found]
  <1>1. PICK got \in StoreGet(Subject(r)) :
             \/ ~got.ok /\ Answer(r, "error")
             \/ got.ok /\ got.found = None /\ Goto(r, "guide")
             \/ /\ got.ok /\ got.found # None
                /\ req' = [req EXCEPT ![r].held = got.found, ![r].pc =
                             IF ~IsExpired(got.found) THEN "acquire"
                             ELSE IF Pc(r, "read") THEN "reread" ELSE "refresh"]
    BY DEF ReadConnection
  <1>2. PICK pc \in {"acquire", "reread", "refresh"} :
           pc = IF ~IsExpired(got.found) THEN "acquire" ELSE IF Pc(r, "read") THEN "reread" ELSE "refresh"
    OBVIOUS
  <1>3. PICK h : h = got.found
    OBVIOUS
  <1>4. [req EXCEPT ![r].held = h, ![r].pc = pc] = [req EXCEPT ![r].pc = pc, ![r].held = h]
    BY KnownCall DEF Calls
  <1> QED BY <1>1, <1>2, <1>3, <1>4

\* The steps that send nothing and leave the pool alone.
Plain(r) ==
  \/ ReadConnection(r) \/ RefreshGrant(r) \/ StoreRefreshed(r) \/ Guide(r)
  \/ FreshToken(r) \/ ForceRefresh(r) \/ ClientReads(r) \/ ClientRefreshes(r) \/ ClientStores(r)
  \/ SendOnClosed(r)

\* The steps at which a call has sent nothing: before its request, or fetching new
\* tokens for the first one.
Before == {"new", "read", "reread", "refresh", "store", "guide", "acquire", "close", "fresh", "send"}
Unsent(q) == \/ q.pc \in Before
             \/ q.pc \in {"clientRead", "clientRefresh", "clientStore"} /\ ~q.forced
Follows(p, q) == /\ p.pc # "close" /\ p.pc # "new" /\ q.pc \notin {"new", "close"}
                 /\ Unsent(q) => Unsent(p)
                 /\ q.pc = "resend" => q.kind = "read"

LEMMA EndFollows ==
  ASSUME Inv, NEW r \in Requests, NEW a \in Answers, Answer(r, a), req[r].pc \notin {"new", "close"}
  PROVE  \E q : Becomes(r, q) /\ Follows(req[r], q)
  BY AnswerBecomes DEF Follows, Unsent, Before

LEMMA ReadFollows ==
  ASSUME Inv, NEW r \in Requests, ReadConnection(r)
  PROVE  \E q : Becomes(r, q) /\ Follows(req[r], q)
  <1>1. PICK got \in StoreGet(Subject(r)) :
             \/ ~got.ok /\ Answer(r, "error")
             \/ got.ok /\ got.found = None /\ Goto(r, "guide")
             \/ /\ got.ok /\ got.found # None
                /\ \E pc \in {"acquire", "reread", "refresh"} :
                     req' = [req EXCEPT ![r].pc = pc, ![r].held = got.found]
    BY ReadConnectionShape
  <1>2. req[r].pc \in {"read", "reread"} /\ req[r].subject \in Subjects
    BY KnownCall DEF ReadConnection, CallOwned
  <1>3. CASE Answer(r, "error")
    BY <1>2, <1>3, EndFollows DEF Answers
  <1>4. CASE Goto(r, "guide")
    BY <1>2, <1>4, GotoBecomes DEF Follows, Unsent, Before, ReqPC
  <1>5. CASE /\ got.ok /\ got.found # None
             /\ \E pc \in {"acquire", "reread", "refresh"} :
                  req' = [req EXCEPT ![r].pc = pc, ![r].held = got.found]
    <2>1. got.found \in Conns
      BY <1>2, <1>5 DEF StoreGet, Subject, Inv, StoreOwned
    <2>2. PICK c \in Conns, pc \in {"acquire", "reread", "refresh"} :
             Hold(r, pc, c)
      BY <1>5, <2>1 DEF Hold
    <2>3. pc \in ReqPC
      BY DEF ReqPC
    <2>4. PICK q : Becomes(r, q) /\ q.pc = pc
      BY <2>2, <2>3, HoldBecomes
    <2> QED BY <1>2, <2>4 DEF Follows, Unsent, Before
  <1> QED BY <1>1, <1>3, <1>4, <1>5

LEMMA RefreshFollows ==
  ASSUME Inv, NEW r \in Requests, RefreshGrant(r)
  PROVE  \E q : Becomes(r, q) /\ Follows(req[r], q)
  <1>1. PICK out \in RefreshTokensOnly(req[r].held.grant, req[r].held.refresh) :
          IF out.status = "ok"
            THEN req' = [req EXCEPT ![r].pc = "store", ![r].held = WithTokens(req[r].held, out.body)]
            ELSE IF ReconnectRequired(out.status)
              THEN req' = [req EXCEPT ![r].pc = "guide", ![r].refused = req[r].held.grant]
              ELSE Answer(r, "transient")
    BY DEF RefreshGrant
  <1>2. req[r].pc = "refresh" /\ req[r].held.grant \in Nat
    BY KnownCall DEF RefreshGrant, Pc, CallOwned, Holding, Owned, Conns
  <1>3. CASE out.status = "ok"
    <2>1. PICK c \in Conns : c = WithTokens(req[r].held, out.body)
      BY <1>2, <1>3, RefreshedHeld
    <2>2. Hold(r, "store", c)
      BY <1>1, <1>3, <2>1 DEF Hold
    <2>3. PICK q : Becomes(r, q) /\ q.pc = "store"
      BY <2>2, HoldBecomes DEF ReqPC
    <2> QED BY <1>2, <2>3 DEF Follows, Unsent, Before
  <1>4. CASE out.status # "ok" /\ ReconnectRequired(out.status)
    <2>1. PICK q : Becomes(r, q) /\ q.pc = "guide"
      BY <1>1, <1>2, <1>4, GuideBecomes
    <2> QED BY <1>2, <2>1 DEF Follows, Unsent, Before
  <1>5. CASE out.status # "ok" /\ ~ReconnectRequired(out.status)
    BY <1>1, <1>2, <1>5, EndFollows DEF Answers
  <1> QED BY <1>3, <1>4, <1>5

LEMMA LockFollows ==
  ASSUME Inv, NEW r \in Requests, FreshToken(r) \/ ForceRefresh(r)
  PROVE  \E q : Becomes(r, q) /\ Follows(req[r], q)
  <1>1. CASE FreshToken(r) /\ Goto(r, "send")
    BY <1>1, GotoBecomes DEF FreshToken, Pc, Follows, Unsent, Before, ReqPC
  <1>2. CASE Lock(r)
    <2>1. PICK q : Becomes(r, q) /\ q.pc = "clientRead" /\ (req[r].pc = "force" => q.forced)
      BY <1>2, LockBecomes
    <2> QED BY <1>2, <2>1 DEF Lock, Follows, Unsent, Before
  <1> QED BY <1>1, <1>2 DEF FreshToken, ForceRefresh, Pc, Lock

LEMMA ClientReadsFollows ==
  ASSUME Inv, NEW r \in Requests, ClientReads(r)
  PROVE  \E q : Becomes(r, q) /\ Follows(req[r], q)
  <1>1. PICK got \in StoreGet(Subject(r)) :
          IF got.found # None
            THEN req' = [req EXCEPT ![r].pc = "clientRefresh", ![r].held = got.found]
            ELSE Answer(r, "error")
    BY DEF ClientReads
  <1>2. req[r].pc = "clientRead" /\ req[r].subject \in Subjects
    BY KnownCall DEF ClientReads, Pc, CallOwned
  <1>3. CASE got.found # None
    <2>1. got.found \in Conns
      BY <1>2, <1>3 DEF StoreGet, Subject, Inv, StoreOwned
    <2>2. PICK c \in Conns : Hold(r, "clientRefresh", c)
      BY <1>1, <1>3, <2>1 DEF Hold
    <2>3. PICK q : Becomes(r, q) /\ q.pc = "clientRefresh" /\ q.forced = req[r].forced
      BY <2>2, HoldBecomes DEF ReqPC
    <2> QED BY <1>2, <2>3 DEF Follows, Unsent, Before
  <1>4. CASE got.found = None
    BY <1>1, <1>2, <1>4, EndFollows DEF Answers
  <1> QED BY <1>3, <1>4

LEMMA ClientRefreshesFollows ==
  ASSUME Inv, NEW r \in Requests, ClientRefreshes(r)
  PROVE  \E q : Becomes(r, q) /\ Follows(req[r], q)
  <1>1. PICK out \in RefreshTokensOnly(req[r].held.grant, req[r].held.refresh) :
          IF out.status = "ok"
            THEN req' = [req EXCEPT ![r].pc = "clientStore", ![r].held = WithTokens(req[r].held, out.body)]
            ELSE Answer(r, "error")
    BY DEF ClientRefreshes
  <1>2. req[r].pc = "clientRefresh"
    BY DEF ClientRefreshes, Pc
  <1>3. CASE out.status = "ok"
    <2>1. PICK c \in Conns : c = WithTokens(req[r].held, out.body)
      BY <1>2, <1>3, RefreshedHeld
    <2>2. Hold(r, "clientStore", c)
      BY <1>1, <1>3, <2>1 DEF Hold
    <2>3. PICK q : Becomes(r, q) /\ q.pc = "clientStore" /\ q.forced = req[r].forced
      BY <2>2, HoldBecomes DEF ReqPC
    <2> QED BY <1>2, <2>3 DEF Follows, Unsent, Before
  <1>4. CASE out.status # "ok"
    BY <1>1, <1>2, <1>4, EndFollows DEF Answers
  <1> QED BY <1>3, <1>4

LEMMA StoreFollows ==
  ASSUME Inv, NEW r \in Requests, StoreRefreshed(r) \/ ClientStores(r)
  PROVE  \E q : Becomes(r, q) /\ Follows(req[r], q)
  <1>1. \/ /\ req[r].pc \in {"store", "clientStore"}
           /\ Answer(r, "error") \/ Answer(r, "auth")
        \/ req[r].pc = "store" /\ Goto(r, "acquire")
        \/ req[r].pc = "clientStore" /\ ~req[r].forced /\ Goto(r, "send")
        \/ req[r].pc = "clientStore" /\ req[r].kind = "read" /\ Goto(r, "resend")
    BY DEF StoreRefreshed, ClientStores, Pc, Resends
  <1>2. CASE req[r].pc \in {"store", "clientStore"} /\ (Answer(r, "error") \/ Answer(r, "auth"))
    BY <1>2, EndFollows DEF Answers
  <1>3. CASE req[r].pc = "store" /\ Goto(r, "acquire")
    BY <1>3, GotoBecomes DEF Follows, Unsent, Before, ReqPC
  <1>4. CASE req[r].pc = "clientStore" /\ ~req[r].forced /\ Goto(r, "send")
    BY <1>4, GotoBecomes DEF Follows, Unsent, Before, ReqPC
  <1>5. CASE req[r].pc = "clientStore" /\ req[r].kind = "read" /\ Goto(r, "resend")
    BY <1>5, GotoBecomes DEF Follows, Unsent, Before, ReqPC, Becomes
  <1> QED BY <1>1, <1>2, <1>3, <1>4, <1>5

LEMMA PlainFollows ==
  ASSUME Inv, NEW r \in Requests, Plain(r)
  PROVE  \E q : Becomes(r, q) /\ Follows(req[r], q)
  <1>1. CASE Guide(r)
    <2>1. PICK a \in {"link", "nolink"} : Answer(r, a)
      BY <1>1 DEF Guide
    <2> QED BY <1>1, <2>1, EndFollows DEF Answers, Guide, Pc
  <1>2. CASE SendOnClosed(r)
    BY <1>2, EndFollows DEF Answers, SendOnClosed
  <1> QED BY <1>1, <1>2, ReadFollows, RefreshFollows, LockFollows, ClientReadsFollows,
             ClientRefreshesFollows, StoreFollows DEF Plain

LEMMA ArriveShape ==
  ASSUME Inv, NEW r \in Requests, Arrive(r)
  PROVE  /\ req[r].pc = "new" /\ req'[r].pc = "read" /\ req'[r].sent = req[r].sent
         /\ req'[r].victims = req[r].victims /\ req'[r].refused = req[r].refused
         /\ \A v \in Requests \ {r} : req'[v] = req[v]
  <1>1. PICK s, kind, n :
          req' = [req EXCEPT ![r].pc = "read", ![r].subject = s, ![r].kind = kind, ![r].left = n]
    BY DEF Arrive
  <1> QED BY <1>1, KnownCall DEF Calls, Arrive, Pc

Hand(r, pc, n, vs) == req' = [req EXCEPT ![r].pc = pc, ![r].client = n, ![r].victims = vs]

LEMMA AcquireShape ==
  ASSUME Inv, NEW r \in Requests, Acquire(r)
  PROVE  /\ req[r].pc = "acquire" /\ req'[r].pc \in {"fresh", "close"}
         /\ req'[r].sent = req[r].sent /\ req'[r].kind = req[r].kind
         /\ req'[r].refused = req[r].refused
         /\ \A v \in Requests \ {r} : req'[v] = req[v]
  <1>1. ASSUME NEW i, TakesPooled(r, i)
        PROVE  /\ req'[r].pc \in {"fresh", "close"} /\ req'[r].sent = req[r].sent
               /\ req'[r].kind = req[r].kind /\ req'[r].refused = req[r].refused
               /\ \A v \in Requests \ {r} : req'[v] = req[v]
    BY <1>1, KnownCall DEF TakesPooled, Calls
  <1>2. ASSUME NEW over, TakesNew(r, over)
        PROVE  /\ req'[r].pc \in {"fresh", "close"} /\ req'[r].sent = req[r].sent
               /\ req'[r].kind = req[r].kind /\ req'[r].refused = req[r].refused
               /\ \A v \in Requests \ {r} : req'[v] = req[v]
    <2>1. PICK pc, n, vs : pc \in {"fresh", "close"} /\ Hand(r, pc, n, vs)
      <3>1. PICK pc \in {"fresh", "close"} :
               req' = [req EXCEPT ![r].pc = pc, ![r].client = Len(clients) + 1,
                                  ![r].victims = {Grown[i] : i \in 1..over}]
        BY <1>2 DEF TakesNew
      <3>2. PICK n, vs : n = Len(clients) + 1 /\ vs = {Grown[i] : i \in 1..over}
        <4>1. PICK vs : vs = {Grown[i] : i \in 1..over}
          OBVIOUS
        <4> QED BY <4>1
      <3>3. Hand(r, pc, n, vs)
        BY <3>1, <3>2, Zenon DEF Hand
      <3>4. pc \in {"fresh", "close"}
        OBVIOUS
      <3> QED BY <3>3, <3>4
    <2> QED BY <2>1, KnownCall DEF Calls, Hand
  <1>3. req[r].pc = "acquire"
    BY DEF Acquire, Pc
  <1> QED BY <1>1, <1>2, <1>3, AcquireTakes

LEMMA CloseShape ==
  ASSUME Inv, NEW r \in Requests, CloseVictim(r)
  PROVE  \E c \in req[r].victims :
           /\ req[r].pc = "close" /\ req'[r].victims = req[r].victims \ {c}
           /\ req'[r].pc \in {"fresh", "close"} /\ (req'[r].pc = "fresh" => req[r].victims = {c})
           /\ req'[r].sent = req[r].sent /\ req'[r].kind = req[r].kind
           /\ req'[r].refused = req[r].refused
           /\ \A v \in Requests \ {r} : req'[v] = req[v]
           /\ clients' = [clients EXCEPT ![c].open = FALSE] /\ UNCHANGED pool
  <1>1. PICK c \in req[r].victims :
          /\ clients' = [clients EXCEPT ![c].open = FALSE] /\ UNCHANGED pool /\ req[r].pc = "close"
          /\ req' = [req EXCEPT ![r].victims = req[r].victims \ {c},
                                ![r].pc = IF req[r].victims = {c} THEN "fresh" ELSE "close"]
    BY DEF CloseVictim, Pc
  <1>2. PICK pc : pc = IF req[r].victims = {c} THEN "fresh" ELSE "close"
    OBVIOUS
  <1>3. PICK vs : vs = req[r].victims \ {c}
    OBVIOUS
  <1>4. req' = [req EXCEPT ![r].victims = vs, ![r].pc = pc]
    BY <1>1, <1>2, <1>3
  <1>5. /\ req'[r].victims = vs /\ req'[r].pc = pc /\ req'[r].sent = req[r].sent
        /\ req'[r].kind = req[r].kind /\ req'[r].refused = req[r].refused
        /\ \A v \in Requests \ {r} : req'[v] = req[v]
    BY <1>4, KnownCall DEF Calls
  <1> QED BY <1>1, <1>2, <1>3, <1>5

\* Everything else leaves the calls as they are.
CallsIdle == (\E b \in Browsers : BrowserSteps(b) /\ UNCHANGED session)
             \/ (ExpireEntry /\ UNCHANGED session) \/ Elsewhere \/ Shutdown \/ CloseAll \/ UNCHANGED vars
LEMMA NextCases ==
  ASSUME [Next]_vars
  PROVE  \/ \E r \in Requests : \/ Arrive(r) \/ Acquire(r) \/ CloseVictim(r) \/ Plain(r)
                                \/ Send(r) \/ Resend(r)
         \/ CallsIdle
  BY DEF Next, Step, Plain, CallsIdle
LEMMA IdleCalls ==
  ASSUME CallsIdle
  PROVE  UNCHANGED req
  BY DEF CallsIdle, session, Elsewhere, Shutdown, CloseAll, vars

-----------------------------------------------------------------------------
(* A write is sent once *)

SentOnce(q) == /\ q.pc = "new" => q.sent = 0
               /\ q.kind = "write" => /\ q.sent <= 1 /\ q.pc # "resend"
                                      /\ Unsent(q) => q.sent = 0
SentInv == \A r \in Requests : SentOnce(req[r])

LEMMA SentInvStays ==
  ASSUME Inv, SentInv, NEW r \in Requests, SentOnce(req'[r]),
         \A v \in Requests \ {r} : req'[v] = req[v]
  PROVE  SentInv'
  <1>1. ASSUME NEW v \in Requests PROVE SentOnce(req'[v])
    BY DEF SentInv
  <1> QED BY <1>1 DEF SentInv, SentOnce, Unsent

LEMMA SentInvNext == Inv /\ SentInv /\ [Next]_vars => SentInv'
  <1> SUFFICES ASSUME Inv, SentInv, [Next]_vars PROVE SentInv'
    OBVIOUS
  <1>1. ASSUME NEW r \in Requests, Arrive(r) PROVE SentInv'
    <2>1. SentOnce(req[r])
      BY DEF SentInv
    <2>2. SentOnce(req'[r])
      BY <1>1, <2>1, ArriveShape DEF SentOnce
    <2> QED BY <1>1, <2>2, ArriveShape, SentInvStays
  <1>2. ASSUME NEW r \in Requests, Acquire(r) PROVE SentInv'
    <2>1. SentOnce(req[r]) /\ Unsent(req[r])
      BY <1>2, AcquireShape DEF SentInv, Unsent, Before
    <2>2. SentOnce(req'[r])
      BY <1>2, <2>1, AcquireShape DEF SentOnce
    <2> QED BY <1>2, <2>2, AcquireShape, SentInvStays
  <1>3. ASSUME NEW r \in Requests, CloseVictim(r) PROVE SentInv'
    <2>1. SentOnce(req[r]) /\ (req[r].pc = "close" => Unsent(req[r]))
      BY DEF SentInv, Unsent, Before
    <2>2. SentOnce(req'[r])
      BY <1>3, <2>1, CloseShape DEF SentOnce
    <2> QED BY <1>3, <2>2, CloseShape, SentInvStays
  <1>4. ASSUME NEW r \in Requests, Plain(r) PROVE SentInv'
    <2>1. PICK q : Becomes(r, q) /\ Follows(req[r], q)
      BY <1>4, PlainFollows
    <2>2. SentOnce(req[r]) /\ req[r].sent \in Nat
      BY KnownCall DEF SentInv, Calls
    <2>3. SentOnce(q)
      BY <2>1, <2>2 DEF SentOnce, Becomes, Follows
    <2> QED BY <2>1, <2>3, SentInvStays, KnownCall DEF Becomes
  <1>5. ASSUME NEW r \in Requests, Send(r) \/ Resend(r) PROVE SentInv'
    <2>1. PICK q : SentAs(r, q) /\ req' = [req EXCEPT ![r] = q]
      BY <1>5, SendMoves
    <2>2. /\ q.pc \in {"done", "force", "fresh"} /\ q.sent = req[r].sent + 1 /\ q.kind = req[r].kind
          /\ (q.pc = "fresh" => q.kind # "write") /\ req[r].pc \in {"send", "resend"}
      BY <1>5, <2>1, SentCalls, SendMoves
    <2>3. SentOnce(req[r]) /\ (req[r].pc = "send" => Unsent(req[r]))
      BY DEF SentInv, Unsent, Before
    <2>4. SentOnce(q)
      <3>1. q.kind = "write" => req[r].sent = 0 /\ q.sent = 1
        BY <2>2, <2>3 DEF SentOnce
      <3> QED BY <2>2, <3>1 DEF SentOnce, Unsent, Before
    <2> QED BY <2>1, <2>4, SentInvStays, KnownCall
  <1>6. CASE CallsIdle
    BY <1>6, IdleCalls DEF SentInv, SentOnce, Unsent
  <1> QED BY <1>1, <1>2, <1>3, <1>4, <1>5, <1>6, NextCases

\* A write reaches HubSpot at most once, whatever the 401, the 429 or the refresh, for
\* any number of calls sharing clients (client.py:203).
THEOREM WritesGoOutOnce == Spec => []WriteSentOnce
  <1>1. Init => SentInv
    BY DEF Init, SessionInit, NewRequest, SentInv, SentOnce
  <1>2. SentInv => WriteSentOnce
    BY DEF SentInv, SentOnce, WriteSentOnce
  <1> QED BY <1>1, <1>2, InitInv, NextInv, SentInvNext, PTL DEF Spec

-----------------------------------------------------------------------------
(* No client is left open *)

\* Only a call that is closing what it pushed out of the pool has victims.
OnlyClosing == \A r \in Requests : req[r].pc # "close" => req[r].victims = {}
SameOpen == /\ UNCHANGED pool /\ Len(clients') = Len(clients)
            /\ \A c \in 1..Len(clients) : clients'[c].open = clients[c].open

LEMMA ClientDomain ==
  ASSUME Inv
  PROVE  Len(clients) \in Nat /\ DOMAIN clients = 1..Len(clients) /\ DOMAIN pool = 1..Len(pool)
  BY LenProperties DEF Inv, ClientsOwned, PoolKnown

LEMMA LockOpen ==
  ASSUME Inv, NEW c \in 1..Len(clients), NEW v, clients' = [clients EXCEPT ![c].lock = v], UNCHANGED pool
  PROVE  SameOpen
  <1>1. \A j \in 1..Len(clients) : clients'[j].open = clients[j].open
    BY KnownClient DEF ClientRecords
  <1>2. Len(clients') = Len(clients)
    BY KnownClient, ClientDomain
  <1> QED BY <1>1, <1>2 DEF SameOpen

LEMMA AdoptOpen ==
  ASSUME Inv, NEW r \in Requests, req[r].client \in 1..Len(clients), clients' = Adopted(r), UNCHANGED pool
  PROVE  SameOpen
  <1>1. PICK c, a, b : /\ c \in 1..Len(clients)
                       /\ clients' = [clients EXCEPT ![c].portal.token = a, ![c].portal.refresh = b, ![c].lock = None]
    BY DEF Adopted
  <1>2. PICK e : e = [clients[c] EXCEPT !.portal.token = a, !.portal.refresh = b, !.lock = None]
    OBVIOUS
  <1>3. clients[c] \in ClientRecords /\ DOMAIN clients = 1..Len(clients) /\ Len(clients) \in Nat
    BY <1>1, KnownClient, ClientDomain
  <1>4. clients' = [clients EXCEPT ![c] = e]
    BY <1>1, <1>2, <1>3 DEF ClientRecords
  <1>5. e.open = clients[c].open
    BY <1>2, <1>3 DEF ClientRecords
  <1>6. \A j \in 1..Len(clients) : clients'[j].open = clients[j].open
    BY <1>3, <1>4, <1>5
  <1>7. Len(clients') = Len(clients)
    BY <1>1, <1>4, <1>3, KnownClient
  <1> QED BY <1>6, <1>7 DEF SameOpen

LEMMA PlainOpen ==
  ASSUME Inv, NEW r \in Requests, Plain(r)
  PROVE  SameOpen
  <1>1. UNCHANGED pool
    BY DEF Plain, ReadConnection, RefreshGrant, StoreRefreshed, Guide, FreshToken, ForceRefresh,
           ClientReads, ClientRefreshes, ClientStores, SendOnClosed
  <1>2. \/ UNCHANGED clients
        \/ /\ req[r].pc \in Calling
           /\ \/ \E v : clients' = [clients EXCEPT ![req[r].client].lock = v]
              \/ clients' = Adopted(r)
    BY DEF Plain, ReadConnection, RefreshGrant, StoreRefreshed, Guide, FreshToken, ForceRefresh,
           ClientReads, ClientRefreshes, ClientStores, SendOnClosed, Unlocked, Calling, Pc
  <1>3. req[r].pc \in Calling => req[r].client \in 1..Len(clients)
    BY KnownCall DEF CallOwned
  <1>4. UNCHANGED clients => SameOpen
    BY <1>1 DEF SameOpen
  <1> QED BY <1>1, <1>2, <1>3, <1>4, LockOpen, AdoptOpen

LEMMA SameOpenKeeps ==
  ASSUME Inv, Inv', NoClientLeak, SameOpen, \A r \in Requests : req'[r].victims = req[r].victims
  PROVE  NoClientLeak'
  <1>1. DOMAIN clients' = 1..Len(clients) /\ DOMAIN clients = 1..Len(clients)
    BY LenProperties DEF Inv, ClientsOwned, SameOpen
  <1> QED BY <1>1 DEF NoClientLeak, SameOpen

LEMMA OneCallCloses ==
  ASSUME OnlyClosing, NEW r \in Requests, req'[r].pc # "close" => req'[r].victims = {},
         \A v \in Requests \ {r} : req'[v] = req[v]
  PROVE  OnlyClosing'
  BY DEF OnlyClosing

LEMMA CloseVictimLeaks ==
  ASSUME Inv, Inv', NoClientLeak, OnlyClosing, NEW r \in Requests, CloseVictim(r)
  PROVE  NoClientLeak' /\ OnlyClosing'
  <1>1. PICK c \in req[r].victims :
           /\ req[r].pc = "close" /\ req'[r].victims = req[r].victims \ {c}
           /\ req'[r].pc \in {"fresh", "close"} /\ (req'[r].pc = "fresh" => req[r].victims = {c})
           /\ \A v \in Requests \ {r} : req'[v] = req[v]
           /\ clients' = [clients EXCEPT ![c].open = FALSE] /\ UNCHANGED pool
    BY CloseShape
  <1>2. c \in 1..Len(clients)
    BY KnownCall DEF CallOwned
  <1>3. OnlyClosing'
    BY <1>1, OneCallCloses
  <1>4. /\ DOMAIN clients' = 1..Len(clients) /\ DOMAIN clients = 1..Len(clients) /\ ~clients'[c].open
        /\ \A j \in 1..Len(clients) : j # c => clients'[j].open = clients[j].open
    BY <1>1, <1>2, KnownClient, ClientDomain DEF ClientRecords
  <1>5. ASSUME NEW j \in 1..Len(clients), clients'[j].open
        PROVE  (\E i \in DOMAIN pool' : pool'[i] = j) \/ \E v \in Requests : j \in req'[v].victims
    <2>1. clients[j].open /\ j # c
      BY <1>4, <1>5
    <2>2. CASE \E i \in DOMAIN pool : pool[i] = j
      BY <1>1, <2>2
    <2>3. CASE \E v \in Requests : j \in req[v].victims
      <3>1. PICK v \in Requests : j \in req[v].victims
        BY <2>3
      <3>2. j \in req'[v].victims
        BY <1>1, <2>1, <3>1
      <3> QED BY <3>2
    <2> QED BY <1>4, <2>1, <2>2, <2>3 DEF NoClientLeak
  <1> QED BY <1>3, <1>4, <1>5 DEF NoClientLeak

LEMMA TakesPooledLeaks ==
  ASSUME Inv, Inv', NoClientLeak, OnlyClosing, NEW r \in Requests, req[r].pc = "acquire",
         NEW i, TakesPooled(r, i)
  PROVE  NoClientLeak' /\ OnlyClosing'
  <1>1. i \in 1..Len(pool) /\ pool[i] \in 1..Len(clients)
    BY ElementOfSeq DEF TakesPooled, Pooled, Inv, PoolKnown
  <1>2. /\ req'[r].victims = req[r].victims /\ req'[r].pc = "fresh"
        /\ \A v \in Requests \ {r} : req'[v] = req[v]
    BY KnownCall DEF TakesPooled, Calls
  <1>3. OnlyClosing'
    BY <1>2, OneCallCloses DEF OnlyClosing
  <1>4. PICK c, portal : c \in 1..Len(clients) /\ clients' = [clients EXCEPT ![c].portal = portal]
    BY <1>1 DEF TakesPooled
  <1>5. /\ DOMAIN clients' = 1..Len(clients) /\ DOMAIN clients = 1..Len(clients)
        /\ \A j \in 1..Len(clients) : clients'[j].open = clients[j].open
    BY <1>4, KnownClient, ClientDomain DEF ClientRecords
  <1>6. pool \in Seq(Nat) /\ DOMAIN pool = 1..Len(pool)
    BY PoolInNat, ClientDomain
  <1>7. DOMAIN pool' = 1..Len(pool')
    BY LenProperties DEF Inv, PoolKnown
  <1>8. \A j \in 1..Len(pool) : \E k \in DOMAIN pool' : pool'[k] = pool[j]
    BY <1>1, <1>6, <1>7, MovedToEnd DEF TakesPooled
  <1>9. ASSUME NEW j \in 1..Len(clients), clients[j].open
        PROVE  (\E k \in DOMAIN pool' : pool'[k] = j) \/ \E v \in Requests : j \in req'[v].victims
    <2>1. CASE \E k \in DOMAIN pool : pool[k] = j
      BY <1>6, <1>8, <2>1
    <2>2. CASE \E v \in Requests : j \in req[v].victims
      BY <1>2, <2>2
    <2> QED BY <1>5, <1>9, <2>1, <2>2 DEF NoClientLeak
  <1> QED BY <1>3, <1>5, <1>9 DEF NoClientLeak

LEMMA TakesNewLeaks ==
  ASSUME Inv, Inv', NoClientLeak, OnlyClosing, NEW r \in Requests, req[r].pc = "acquire",
         NEW over, TakesNew(r, over)
  PROVE  NoClientLeak' /\ OnlyClosing'
  <1>1. /\ Len(clients) \in Nat /\ DOMAIN clients = 1..Len(clients) /\ DOMAIN pool = 1..Len(pool)
        /\ pool \in Seq(Nat) /\ Len(clients) + 1 \in Nat /\ over \in Nat /\ over <= Len(Grown)
    BY ClientDomain, PoolInNat DEF TakesNew
  <1>2. PICK vs : vs = {Grown[i] : i \in 1..over}
    OBVIOUS
  <1>3. PICK pc \in {"fresh", "close"} : (pc = "fresh" <=> over = 0) /\ Hand(r, pc, Len(clients) + 1, vs)
    BY <1>2 DEF TakesNew, Hand
  <1>4. /\ req'[r].victims = vs /\ req'[r].pc = pc
        /\ \A v \in Requests \ {r} : req'[v] = req[v]
    BY <1>3, KnownCall DEF Hand, Calls
  <1>5. OnlyClosing'
    <2>1. over = 0 => vs = {}
      BY <1>2
    <2> QED BY <1>3, <1>4, <2>1, OneCallCloses
  <1>6. /\ DOMAIN clients' = 1..(Len(clients) + 1)
        /\ \A j \in 1..Len(clients) : clients'[j] = clients[j]
    <2>1. PICK e : clients' = Append(clients, e)
      BY DEF TakesNew
    <2> QED BY <1>1, <2>1
  <1>7. /\ Grown \in Seq(Nat) /\ Len(Grown) = Len(pool) + 1 /\ Grown[Len(pool) + 1] = Len(clients) + 1
        /\ \A j \in 1..Len(pool) : Grown[j] = pool[j]
    BY <1>1, Appended DEF Grown
  <1>8. ASSUME NEW j \in 1..Len(Grown)
        PROVE  (\E k \in DOMAIN pool' : pool'[k] = Grown[j]) \/ Grown[j] \in vs
    <2>0. j \in Nat /\ 1 <= j
      BY <1>7, LenProperties
    <2>1. CASE j <= over
      BY <1>1, <1>2, <2>0, <2>1
    <2>2. CASE over < j
      <3>1. \E k \in 1..Len(pool') : pool'[k] = Grown[j]
        <4>1. PICK q \in Seq(Nat) : q = Grown
          BY <1>7
        <4>2. pool' = SubSeq(q, over + 1, Len(q)) /\ over <= Len(q) /\ j \in 1..Len(q) /\ j > over
          BY <1>1, <2>0, <2>2, <4>1 DEF TakesNew
        <4>3. \E k \in 1..Len(SubSeq(q, over + 1, Len(q))) : SubSeq(q, over + 1, Len(q))[k] = q[j]
          BY <1>1, <4>2, CutOff
        <4> QED BY <4>1, <4>2, <4>3
      <3>2. DOMAIN pool' = 1..Len(pool')
        BY LenProperties DEF Inv, PoolKnown
      <3> QED BY <3>1, <3>2
    <2> QED BY <1>1, <2>0, <2>1, <2>2
  <1>9. ASSUME NEW c \in 1..(Len(clients) + 1), clients'[c].open
        PROVE  (\E k \in DOMAIN pool' : pool'[k] = c) \/ \E v \in Requests : c \in req'[v].victims
    <2>1. CASE \E j \in 1..Len(Grown) : Grown[j] = c
      BY <1>4, <1>8, <2>1
    <2>2. CASE c = Len(clients) + 1
      <3>1. Len(pool) \in Nat
        BY LenProperties DEF Inv, PoolKnown
      <3>2. Len(pool) + 1 \in 1..Len(Grown)
        BY <1>7, <3>1
      <3> QED BY <1>7, <2>1, <2>2, <3>2
    <2>3. CASE c \in 1..Len(clients)
      <3>1. clients[c].open
        BY <1>6, <1>9, <2>3
      <3>2. CASE \E j \in DOMAIN pool : pool[j] = c
        <4>1. Len(pool) \in Nat
          BY LenProperties DEF Inv, PoolKnown
        <4> QED BY <1>1, <1>7, <2>1, <3>2, <4>1
      <3>3. CASE \E v \in Requests : c \in req[v].victims
        <4>1. req[r].victims = {}
          BY DEF OnlyClosing
        <4> QED BY <1>4, <3>3, <4>1
      <3> QED BY <1>1, <2>3, <3>1, <3>2, <3>3 DEF NoClientLeak
    <2> QED BY <1>1, <2>2, <2>3
  <1> QED BY <1>5, <1>6, <1>9 DEF NoClientLeak

LEMMA CloseAllLeaks ==
  ASSUME Inv, Inv', NoClientLeak, OnlyClosing, CloseAll
  PROVE  NoClientLeak' /\ OnlyClosing'
  <1>1. UNCHANGED req /\ DOMAIN clients' = DOMAIN clients
        /\ \A c \in DOMAIN clients : clients'[c] =
             [clients[c] EXCEPT !.open = clients[c].open /\ c \notin {pool[i] : i \in DOMAIN pool}]
    BY DEF CloseAll
  <1>2. ASSUME NEW c \in DOMAIN clients, clients'[c].open
        PROVE  clients[c].open /\ ~\E i \in DOMAIN pool : pool[i] = c
    <2>1. clients[c] \in ClientRecords
      BY ClientDomain, KnownClient
    <2>2. clients'[c].open = (clients[c].open /\ c \notin {pool[i] : i \in DOMAIN pool})
      BY <1>1, <2>1, Zenon DEF ClientRecords
    <2> QED BY <1>2, <2>2
  <1> QED BY <1>1, <1>2 DEF NoClientLeak, OnlyClosing

LEMMA SessionIdleLeaks ==
  ASSUME NoClientLeak, OnlyClosing, UNCHANGED <<req, pool, clients>>
  PROVE  NoClientLeak' /\ OnlyClosing'
  BY DEF NoClientLeak, OnlyClosing

LEMMA LeakNext == Inv /\ NoClientLeak /\ OnlyClosing /\ [Next]_vars => NoClientLeak' /\ OnlyClosing'
  <1> SUFFICES ASSUME Inv, NoClientLeak, OnlyClosing, [Next]_vars PROVE NoClientLeak' /\ OnlyClosing'
    OBVIOUS
  <1>0. Inv'
    BY NextInv
  <1>1. ASSUME NEW r \in Requests, Arrive(r) PROVE NoClientLeak' /\ OnlyClosing'
    <2>1. UNCHANGED pool /\ UNCHANGED clients
      BY <1>1 DEF Arrive
    <2>2. /\ req'[r].pc # "close" /\ req'[r].victims = req[r].victims /\ req[r].victims = {}
          /\ \A v \in Requests \ {r} : req'[v] = req[v]
      BY <1>1, ArriveShape DEF OnlyClosing
    <2>3. SameOpen
      BY <2>1 DEF SameOpen
    <2> QED BY <1>0, <2>2, <2>3, SameOpenKeeps, OneCallCloses
  <1>2. ASSUME NEW r \in Requests, Acquire(r) PROVE NoClientLeak' /\ OnlyClosing'
    <2>1. req[r].pc = "acquire"
      BY <1>2 DEF Acquire, Pc
    <2>2. (\E i : TakesPooled(r, i)) \/ (\E over : TakesNew(r, over))
      BY <1>2, AcquireTakes
    <2> QED BY <1>0, <2>1, <2>2, TakesPooledLeaks, TakesNewLeaks
  <1>3. ASSUME NEW r \in Requests, CloseVictim(r) PROVE NoClientLeak' /\ OnlyClosing'
    BY <1>0, <1>3, CloseVictimLeaks
  <1>4. ASSUME NEW r \in Requests, Plain(r) PROVE NoClientLeak' /\ OnlyClosing'
    <2>1. PICK q : Becomes(r, q) /\ Follows(req[r], q)
      BY <1>4, PlainFollows
    <2>2. /\ req'[r].victims = req[r].victims /\ req'[r].pc # "close" /\ req[r].pc # "close"
          /\ \A v \in Requests \ {r} : req'[v] = req[v]
      BY <2>1, KnownCall DEF Becomes, Follows
    <2>3. req[r].victims = {}
      BY <2>2 DEF OnlyClosing
    <2>4. SameOpen
      BY <1>4, PlainOpen
    <2> QED BY <1>0, <2>2, <2>3, <2>4, SameOpenKeeps, OneCallCloses
  <1>5. ASSUME NEW r \in Requests, Send(r) \/ Resend(r) PROVE NoClientLeak' /\ OnlyClosing'
    <2>1. PICK q : SentAs(r, q) /\ req' = [req EXCEPT ![r] = q]
      BY <1>5, SendMoves
    <2>2. /\ q.pc \in {"done", "force", "fresh"} /\ q.victims = req[r].victims
          /\ req[r].pc \in {"send", "resend"}
      BY <1>5, <2>1, SentCalls, SendMoves
    <2>3. UNCHANGED pool /\ UNCHANGED clients
      BY <1>5 DEF Send, Resend
    <2>4. /\ req'[r].victims = req[r].victims /\ req'[r].pc # "close" /\ req[r].victims = {}
          /\ \A v \in Requests \ {r} : req'[v] = req[v]
      BY <2>1, <2>2, KnownCall DEF OnlyClosing
    <2>5. SameOpen
      BY <2>3 DEF SameOpen
    <2> QED BY <1>0, <2>4, <2>5, SameOpenKeeps, OneCallCloses
  <1>6. CASE CallsIdle
    <2>1. CASE CloseAll
      BY <1>0, <2>1, CloseAllLeaks
    <2>2. CASE UNCHANGED <<req, pool, clients>>
      BY <2>2, SessionIdleLeaks
    <2> QED BY <1>6, <2>1, <2>2 DEF CallsIdle, session, vars, Elsewhere, Shutdown
  <1> QED BY <1>1, <1>2, <1>3, <1>4, <1>5, <1>6, NextCases

\* For any pool size and any calls: an open client is in the pool, or a call that
\* pushed it out is about to close it (hosted_session.py:36), also when the call that
\* closes is overtaken by others at every await.
THEOREM NoneLeftOpen == Spec => []NoClientLeak
  <1>1. Init => NoClientLeak /\ OnlyClosing
    BY DEF Init, SessionInit, NewRequest, NoClientLeak, OnlyClosing
  <1> QED BY <1>1, InitInv, NextInv, LeakNext, PTL DEF Spec

-----------------------------------------------------------------------------
(* Only a grant that is gone costs its owner a new authorisation *)

\* HubSpot keeps a refresh token for the life of its grant.
KeepsTokens == Rotates = {FALSE}

AllOne(gs) == \A g \in 1..Len(gs) : gs[g].refresh = 1
StoreOne == \A s \in Subjects : connections[s] # None => connections[s].refresh = 1
CallOne(q) == /\ q.pc \in Holding => q.held.refresh = 1
              /\ q.refused # None => q.refused \in Grants /\ grants[q.refused].revoked
\* There is one refresh token per grant, and whatever is stored or held has it; a
\* call was refused only over a grant that HubSpot has dropped.
OneInv == AllOne(grants) /\ StoreOne /\ \A r \in Requests : CallOne(req[r])

LEMMA RefreshOne ==
  ASSUME KeepsTokens, GrantsKnown, AllOne(grants), NEW g \in Grants, NEW out \in RefreshTokensOnly(g, 1)
  PROVE  /\ AllOne(out.grants)
         /\ out.status = "ok" => out.body.refresh = None
         /\ out.status = "refused" => grants[g].revoked /\ out.grants = grants
  <1>1. CASE ~Honours(g, 1)
    <2>1. out = [status |-> "refused", grants |-> grants, body |-> None]
      BY <1>1 DEF RefreshTokensOnly
    <2>2. grants[g].revoked
      BY <1>1 DEF Honours, AllOne, Grants
    <2> QED BY <2>1, <2>2
  <1>2. CASE Honours(g, 1)
    <2>1. \/ \E st \in {"ok", "lost"} :
               out = [status |-> st, grants |-> Renewed(g, FALSE), body |-> RenewedBody(g, FALSE)]
          \/ out = [status |-> "busy", grants |-> grants, body |-> None]
      <3>1. \/ \E st \in {"ok", "lost"}, rotate \in Rotates :
                 out = [status |-> st, grants |-> Renewed(g, rotate), body |-> RenewedBody(g, rotate)]
            \/ out = [status |-> "busy", grants |-> grants, body |-> None]
        BY <1>2 DEF RefreshTokensOnly
      <3>2. \A rotate \in Rotates : rotate = FALSE
        BY DEF KeepsTokens
      <3> QED BY <3>1, <3>2
    <2>2. AllOne(Renewed(g, FALSE))
      <3>1. PICK n : n = grants[g].issued + 1
        OBVIOUS
      <3>2. PICK e : e = [grants[g] EXCEPT !.issued = n, !.refresh = grants[g].refresh]
        OBVIOUS
      <3>3. Renewed(g, FALSE) = [grants EXCEPT ![g] = e]
        BY <3>1, <3>2, Zenon DEF Renewed
      <3>4. e.refresh = grants[g].refresh
        <4>1. grants[g] \in GrantRecords
          BY ElementOfSeq DEF GrantsKnown, Grants
        <4> QED BY <3>2, <4>1 DEF GrantRecords
      <3>5. DOMAIN grants = 1..Len(grants) /\ Len(grants) \in Nat
        BY LenProperties DEF GrantsKnown
      <3>6. Len([grants EXCEPT ![g] = e]) = Len(grants)
        BY <3>5
      <3> QED BY <3>3, <3>4, <3>5, <3>6 DEF AllOne, Grants
    <2>3. RenewedBody(g, FALSE).refresh = None
      BY DEF RenewedBody
    <2>4. CASE out = [status |-> "busy", grants |-> grants, body |-> None]
      BY <2>4
    <2>5. ASSUME NEW st \in {"ok", "lost"},
                 out = [status |-> st, grants |-> Renewed(g, FALSE), body |-> RenewedBody(g, FALSE)]
          PROVE  AllOne(out.grants) /\ out.body.refresh = None /\ out.status # "refused"
      <3>1. out.grants = Renewed(g, FALSE) /\ out.body = RenewedBody(g, FALSE) /\ out.status = st
        BY <2>5
      <3> QED BY <2>2, <2>3, <3>1
    <2> QED BY <2>1, <2>4, <2>5
  <1> QED BY <1>1, <1>2

\* A call that moves: what the others hold, and were refused over, stays true.
LEMMA OneMoves ==
  ASSUME Inv, OneInv, Since(grants, grants'), AllOne(grants'), StoreOne', NEW r \in Requests,
         CallOne(req[r])', \A v \in Requests \ {r} : req'[v] = req[v]
  PROVE  OneInv'
  <1>1. ASSUME NEW v \in Requests, req'[v] = req[v] PROVE CallOne(req[v])'
    <2>1. CallOne(req[v])
      BY DEF OneInv
    <2>2. Len(grants) \in Nat
      BY LenProperties DEF Inv, GrantsKnown
    <2> QED BY <1>1, <2>1, <2>2 DEF CallOne, Since, Grants
  <1>2. \A v \in Requests : CallOne(req[v])'
    BY <1>1
  <1> QED BY <1>2 DEF OneInv

LEMMA OneStays ==
  ASSUME Inv, OneInv, Since(grants, grants'), AllOne(grants'), StoreOne', UNCHANGED req
  PROVE  OneInv'
  <1>1. ASSUME NEW v \in Requests PROVE CallOne(req[v])'
    <2>1. CallOne(req[v])
      BY DEF OneInv
    <2>2. Len(grants) \in Nat
      BY LenProperties DEF Inv, GrantsKnown
    <2> QED BY <2>1, <2>2 DEF CallOne, Since, Grants
  <1> QED BY <1>1 DEF OneInv

\* The call keeps what it was refused over, and holds nothing but the one token.
Quiet(r) == /\ req'[r].refused = req[r].refused
            /\ req'[r].pc \in Holding => req'[r].held.refresh = 1
            /\ \A v \in Requests \ {r} : req'[v] = req[v]

LEMMA OneQuiet ==
  ASSUME Inv, OneInv, Since(grants, grants'), AllOne(grants'), StoreOne', NEW r \in Requests, Quiet(r)
  PROVE  OneInv'
  <1>1. CallOne(req[r]) /\ Len(grants) \in Nat
    BY LenProperties DEF OneInv, Inv, GrantsKnown
  <1>2. CallOne(req[r])'
    BY <1>1 DEF Quiet, CallOne, Since, Grants
  <1> QED BY <1>2, OneMoves DEF Quiet

LEMMA QuietAnswer ==
  ASSUME Inv, NEW r \in Requests, NEW a \in Answers, Answer(r, a)
  PROVE  Quiet(r)
  <1>1. PICK q : Becomes(r, q) /\ q.pc = "done" /\ q.refused = req[r].refused
    BY AnswerBecomes
  <1> QED BY <1>1, KnownCall DEF Becomes, Quiet, Holding

LEMMA QuietGoto ==
  ASSUME Inv, OneInv, NEW r \in Requests, NEW pc \in ReqPC, Goto(r, pc),
         pc \in Holding => req[r].pc \in Holding
  PROVE  Quiet(r)
  <1>1. PICK q : Becomes(r, q) /\ q.pc = pc /\ q.refused = req[r].refused /\ q.held = req[r].held
    BY GotoBecomes
  <1> QED BY <1>1, KnownCall DEF Becomes, Quiet, OneInv, CallOne

LEMMA QuietHold ==
  ASSUME Inv, NEW r \in Requests, NEW pc \in ReqPC, NEW c \in Conns, c.refresh = 1, Hold(r, pc, c)
  PROVE  Quiet(r)
  <1>1. PICK q : Becomes(r, q) /\ q.pc = pc /\ q.refused = req[r].refused /\ q.held = c
    BY HoldBecomes
  <1> QED BY <1>1, KnownCall DEF Becomes, Quiet

LEMMA QuietStored ==
  ASSUME Inv, OneInv, NEW r \in Requests, req[r].subject \in Subjects,
         NEW got \in StoreGet(Subject(r)), got.found # None
  PROVE  got.found \in Conns /\ got.found.refresh = 1
  BY DEF StoreGet, Subject, Inv, StoreOwned, OneInv, StoreOne

-----------------------------------------------------------------------------
(* ... one step of a call at a time *)

LEMMA Unrefreshed ==
  ASSUME Inv, OneInv, UNCHANGED <<grants, connections>>
  PROVE  Since(grants, grants') /\ AllOne(grants') /\ StoreOne'
  BY SinceItself DEF Inv, GrantsKnown, OneInv, StoreOne

LEMMA ReadOne ==
  ASSUME Inv, OneInv, NEW r \in Requests, ReadConnection(r)
  PROVE  OneInv'
  <1>1. PICK got \in StoreGet(Subject(r)) :
             \/ ~got.ok /\ Answer(r, "error")
             \/ got.ok /\ got.found = None /\ Goto(r, "guide")
             \/ /\ got.ok /\ got.found # None
                /\ \E pc \in {"acquire", "reread", "refresh"} :
                     req' = [req EXCEPT ![r].pc = pc, ![r].held = got.found]
    BY ReadConnectionShape
  <1>2. req[r].pc \in {"read", "reread"} /\ req[r].subject \in Subjects
    BY KnownCall DEF ReadConnection, CallOwned
  <1>3. UNCHANGED <<grants, connections>>
    BY DEF ReadConnection
  <1>4. CASE Answer(r, "error")
    BY <1>3, <1>4, QuietAnswer, Unrefreshed, OneQuiet DEF Answers
  <1>5. CASE Goto(r, "guide")
    <2>1. "guide" \in ReqPC /\ "guide" \notin Holding
      BY DEF ReqPC, Holding
    <2> QED BY <1>3, <1>5, <2>1, QuietGoto, Unrefreshed, OneQuiet
  <1>6. CASE /\ got.ok /\ got.found # None
             /\ \E pc \in {"acquire", "reread", "refresh"} :
                  req' = [req EXCEPT ![r].pc = pc, ![r].held = got.found]
    <2>1. PICK c \in Conns, pc \in {"acquire", "reread", "refresh"} : c.refresh = 1 /\ Hold(r, pc, c)
      BY <1>2, <1>6, QuietStored DEF Hold
    <2>2. pc \in ReqPC
      BY DEF ReqPC
    <2> QED BY <1>3, <2>1, <2>2, QuietHold, Unrefreshed, OneQuiet
  <1> QED BY <1>1, <1>4, <1>5, <1>6

\* What both refreshes ask HubSpot with, and get.
LEMMA HeldOne ==
  ASSUME KeepsTokens, Inv, OneInv, NEW r \in Requests, req[r].pc \in {"refresh", "clientRefresh"},
         NEW out \in RefreshTokensOnly(req[r].held.grant, req[r].held.refresh), grants' = out.grants,
         UNCHANGED connections
  PROVE  /\ req[r].held.grant \in Nat /\ req[r].held.grant \in Grants
         /\ Since(grants, grants') /\ AllOne(grants') /\ StoreOne'
         /\ out.status = "ok" => /\ WithTokens(req[r].held, out.body) \in Conns
                                 /\ WithTokens(req[r].held, out.body).refresh = 1
         /\ out.status = "refused" => grants'[req[r].held.grant].revoked
  <1>1. /\ req[r].held \in Conns /\ req[r].held.grant \in Nat /\ req[r].held.grant \in Grants
        /\ req[r].held.refresh = 1 /\ req[r].pc \in Holding
    BY KnownCall DEF CallOwned, Holding, Owned, GaveIn, Grants, Conns, OneInv, CallOne
  <1>2. PICK g \in Grants : g = req[r].held.grant /\ out \in RefreshTokensOnly(g, 1)
    BY <1>1
  <1>3. /\ AllOne(grants') /\ (out.status = "ok" => out.body.refresh = None)
        /\ (out.status = "refused" => grants[g].revoked /\ grants' = grants)
    BY <1>2, RefreshOne DEF Inv, OneInv
  <1>4. Since(grants, grants')
    BY <1>2, RefreshOutcomes DEF Inv
  <1>5. ASSUME out.status = "ok"
        PROVE  WithTokens(req[r].held, out.body) \in Conns /\ WithTokens(req[r].held, out.body).refresh = 1
    <2>1. WithTokens(req[r].held, out.body) \in Conns
      BY <1>5, RefreshedHeld
    <2>2. WithTokens(req[r].held, out.body).refresh = req[r].held.refresh
      BY <1>1, <1>3, <1>5 DEF WithTokens, Conns
    <2> QED BY <1>1, <2>1, <2>2
  <1>6. StoreOne'
    BY DEF OneInv, StoreOne
  <1> QED BY <1>1, <1>2, <1>3, <1>4, <1>5, <1>6

LEMMA RefreshGrantOne ==
  ASSUME KeepsTokens, Inv, OneInv, NEW r \in Requests, RefreshGrant(r)
  PROVE  OneInv'
  <1>1. PICK out \in RefreshTokensOnly(req[r].held.grant, req[r].held.refresh) :
          /\ grants' = out.grants
          /\ IF out.status = "ok"
               THEN req' = [req EXCEPT ![r].pc = "store", ![r].held = WithTokens(req[r].held, out.body)]
               ELSE IF ReconnectRequired(out.status)
                 THEN req' = [req EXCEPT ![r].pc = "guide", ![r].refused = req[r].held.grant]
                 ELSE Answer(r, "transient")
    BY DEF RefreshGrant
  <1>2. req[r].pc \in {"refresh", "clientRefresh"} /\ UNCHANGED connections
    BY DEF RefreshGrant, Pc
  <1>3. /\ req[r].held.grant \in Nat /\ req[r].held.grant \in Grants
        /\ Since(grants, grants') /\ AllOne(grants') /\ StoreOne'
        /\ out.status = "ok" => /\ WithTokens(req[r].held, out.body) \in Conns
                                /\ WithTokens(req[r].held, out.body).refresh = 1
        /\ out.status = "refused" => grants'[req[r].held.grant].revoked
    BY <1>1, <1>2, HeldOne
  <1>4. CASE out.status = "ok"
    <2>1. PICK c \in Conns : c.refresh = 1 /\ Hold(r, "store", c)
      BY <1>1, <1>3, <1>4 DEF Hold
    <2> QED BY <1>3, <2>1, QuietHold, OneQuiet DEF ReqPC
  <1>5. CASE out.status # "ok" /\ ReconnectRequired(out.status)
    <2>1. PICK q : Becomes(r, q) /\ q.pc = "guide" /\ q.refused = req[r].held.grant
      BY <1>1, <1>3, <1>5, GuideBecomes
    <2>2. req[r].held.grant \in 1..Len(grants') /\ grants'[req[r].held.grant].revoked
      <3>1. Len(grants) \in Nat
        BY LenProperties DEF Inv, GrantsKnown
      <3>2. Len(grants') \in Nat
        BY <1>3, LenProperties DEF Since
      <3> QED BY <1>3, <1>5, <3>1, <3>2 DEF ReconnectRequired, Since, Grants
    <2>3. CallOne(req[r])'
      BY <2>1, <2>2 DEF Becomes, CallOne, Holding, Grants
    <2>4. \A v \in Requests \ {r} : req'[v] = req[v]
      BY <2>1, KnownCall DEF Becomes
    <2> QED BY <1>3, <2>3, <2>4, OneMoves
  <1>6. CASE out.status # "ok" /\ ~ReconnectRequired(out.status)
    BY <1>1, <1>3, <1>6, QuietAnswer, OneQuiet DEF Answers
  <1> QED BY <1>4, <1>5, <1>6

LEMMA ClientRefreshesOne ==
  ASSUME KeepsTokens, Inv, OneInv, NEW r \in Requests, ClientRefreshes(r)
  PROVE  OneInv'
  <1>1. PICK out \in RefreshTokensOnly(req[r].held.grant, req[r].held.refresh) :
          /\ grants' = out.grants
          /\ IF out.status = "ok"
               THEN req' = [req EXCEPT ![r].pc = "clientStore", ![r].held = WithTokens(req[r].held, out.body)]
               ELSE Answer(r, "error")
    BY DEF ClientRefreshes
  <1>2. req[r].pc \in {"refresh", "clientRefresh"} /\ UNCHANGED connections
    BY DEF ClientRefreshes, Pc
  <1>3. /\ Since(grants, grants') /\ AllOne(grants') /\ StoreOne'
        /\ out.status = "ok" => /\ WithTokens(req[r].held, out.body) \in Conns
                                /\ WithTokens(req[r].held, out.body).refresh = 1
    BY <1>1, <1>2, HeldOne
  <1>4. CASE out.status = "ok"
    <2>1. PICK c \in Conns : c.refresh = 1 /\ Hold(r, "clientStore", c)
      BY <1>1, <1>3, <1>4 DEF Hold
    <2> QED BY <1>3, <2>1, QuietHold, OneQuiet DEF ReqPC
  <1>5. CASE out.status # "ok"
    BY <1>1, <1>3, <1>5, QuietAnswer, OneQuiet DEF Answers
  <1> QED BY <1>4, <1>5

LEMMA ClientReadsOne ==
  ASSUME Inv, OneInv, NEW r \in Requests, ClientReads(r)
  PROVE  OneInv'
  <1>1. PICK got \in StoreGet(Subject(r)) :
          IF got.found # None
            THEN req' = [req EXCEPT ![r].pc = "clientRefresh", ![r].held = got.found]
            ELSE Answer(r, "error")
    BY DEF ClientReads
  <1>2. req[r].subject \in Subjects /\ UNCHANGED <<grants, connections>>
    BY KnownCall DEF ClientReads, Pc, CallOwned
  <1>3. CASE got.found # None
    <2>1. PICK c \in Conns : c.refresh = 1 /\ Hold(r, "clientRefresh", c)
      BY <1>1, <1>2, <1>3, QuietStored DEF Hold
    <2> QED BY <1>2, <2>1, QuietHold, Unrefreshed, OneQuiet DEF ReqPC
  <1>4. CASE got.found = None
    BY <1>1, <1>2, <1>4, QuietAnswer, Unrefreshed, OneQuiet DEF Answers
  <1> QED BY <1>3, <1>4

\* A connection that is put has the one token of its grant.
LEMMA PutOne ==
  ASSUME Inv, OneInv, NEW c, c \in Conns, c.refresh = 1, NEW put \in StorePut(c),
         connections' = put.connections
  PROVE  StoreOne'
  <1>1. connections' = [connections EXCEPT ![c.subject] = c] \/ connections' = connections
    BY DEF StorePut
  <1>2. connections \in [Subjects -> Conns \union {None}] /\ StoreOne
    BY DEF Inv, StoreOwned, OneInv
  <1> QED BY <1>1, <1>2 DEF StoreOne

LEMMA StoresOne ==
  ASSUME Inv, OneInv, NEW r \in Requests, StoreRefreshed(r) \/ ClientStores(r)
  PROVE  OneInv'
  <1>1. /\ req[r].pc \in {"store", "clientStore"} /\ UNCHANGED grants
        /\ \E put \in StorePut(req[r].held) : connections' = put.connections
    BY DEF StoreRefreshed, ClientStores, Pc
  <1>2. req[r].held \in Conns /\ req[r].held.refresh = 1 /\ req[r].pc \in Holding
    BY <1>1, KnownCall DEF CallOwned, Holding, Owned, OneInv, CallOne
  <1>3. StoreOne'
    BY <1>1, <1>2, PutOne
  <1>4. Since(grants, grants') /\ AllOne(grants')
    BY <1>1, SinceItself DEF Inv, GrantsKnown, OneInv
  <1>5. \/ Answer(r, "error") \/ Answer(r, "auth")
        \/ Goto(r, "acquire") \/ Goto(r, "send") \/ Goto(r, "resend")
    BY DEF StoreRefreshed, ClientStores
  <1>6. Quiet(r)
    <2>1. CASE Answer(r, "error") \/ Answer(r, "auth")
      BY <2>1, QuietAnswer DEF Answers
    <2>2. CASE Goto(r, "acquire") \/ Goto(r, "send") \/ Goto(r, "resend")
      BY <1>2, <2>2, QuietGoto DEF ReqPC
    <2> QED BY <1>5, <2>1, <2>2
  <1> QED BY <1>3, <1>4, <1>6, OneQuiet

\* The steps that touch neither the grants nor the store.
LEMMA AloneOne ==
  ASSUME Inv, OneInv, NEW r \in Requests,
         Guide(r) \/ FreshToken(r) \/ ForceRefresh(r) \/ SendOnClosed(r)
  PROVE  OneInv'
  <1>1. UNCHANGED <<grants, connections>>
    BY DEF Guide, FreshToken, ForceRefresh, SendOnClosed
  <1>2. (\E a \in Answers : Answer(r, a)) \/ Goto(r, "send") \/ Lock(r)
    BY DEF Guide, FreshToken, ForceRefresh, SendOnClosed, Answers, Lock, Pc
  <1>3. Quiet(r)
    <2>1. CASE \E a \in Answers : Answer(r, a)
      BY <2>1, QuietAnswer
    <2>2. CASE Goto(r, "send")
      BY <2>2, QuietGoto DEF ReqPC, Holding
    <2>3. CASE Lock(r)
      <3>1. PICK q : Becomes(r, q) /\ q.pc = "clientRead" /\ q.refused = req[r].refused
        BY <2>3, LockBecomes
      <3> QED BY <3>1, KnownCall DEF Becomes, Quiet, Holding
    <2> QED BY <1>2, <2>1, <2>2, <2>3
  <1> QED BY <1>1, <1>3, Unrefreshed, OneQuiet

LEMMA PlainOne ==
  ASSUME KeepsTokens, Inv, OneInv, NEW r \in Requests, Plain(r)
  PROVE  OneInv'
  BY ReadOne, RefreshGrantOne, ClientRefreshesOne, ClientReadsOne, StoresOne, AloneOne DEF Plain

LEMMA OthersOne ==
  ASSUME Inv, OneInv, NEW r \in Requests,
         Arrive(r) \/ Acquire(r) \/ CloseVictim(r) \/ Send(r) \/ Resend(r)
  PROVE  OneInv'
  <1>1. UNCHANGED <<grants, connections>>
    BY DEF Arrive, Acquire, CloseVictim, Send, Resend
  <1>2. Quiet(r)
    <2>1. CASE Arrive(r)
      BY <2>1, ArriveShape DEF Quiet, Holding
    <2>2. CASE Acquire(r)
      BY <2>2, AcquireShape DEF Quiet, Holding
    <2>3. CASE CloseVictim(r)
      BY <2>3, CloseShape DEF Quiet, Holding
    <2>4. CASE Send(r) \/ Resend(r)
      <3>1. PICK q : SentAs(r, q) /\ req' = [req EXCEPT ![r] = q]
        BY <2>4, SendMoves
      <3>2. q.pc \in {"done", "force", "fresh"} /\ q.refused = req[r].refused
        BY <3>1, SentCalls
      <3>3. req'[r] = q /\ \A v \in Requests \ {r} : req'[v] = req[v]
        BY <3>1, KnownCall
      <3> QED BY <3>2, <3>3 DEF Quiet, Holding
    <2> QED BY <2>1, <2>2, <2>3, <2>4
  <1> QED BY <1>1, <1>2, Unrefreshed, OneQuiet

-----------------------------------------------------------------------------
(* ... and what happens elsewhere *)

LEMMA AgedOne ==
  ASSUME Inv, OneInv, Elsewhere
  PROVE  OneInv'
  <1>1. PICK g \in Grants : Age(g) \/ Revoke(g)
    BY DEF Elsewhere
  <1>2. Since(grants, grants') /\ UNCHANGED connections /\ UNCHANGED req
    BY <1>1, AgedOrRevoked DEF Inv, Elsewhere, session
  <1>3. AllOne(grants')
    <2>1. grants[g] \in GrantRecords /\ DOMAIN grants = 1..Len(grants) /\ Len(grants) \in Nat
      BY ElementOfSeq, LenProperties DEF Inv, GrantsKnown, Grants
    <2>2. PICK e : /\ \/ e = [grants[g] EXCEPT !.aged = grants[g].issued]
                      \/ e = [grants[g] EXCEPT !.revoked = TRUE]
                   /\ grants' = [grants EXCEPT ![g] = e]
      BY <1>1, <2>1 DEF Age, Revoke
    <2>3. e.refresh = grants[g].refresh
      BY <2>1, <2>2 DEF GrantRecords
    <2>4. Len(grants') = Len(grants)
      BY <2>1, <2>2
    <2> QED BY <2>1, <2>2, <2>3, <2>4 DEF AllOne, Grants, OneInv
  <1>4. StoreOne'
    BY <1>2 DEF OneInv, StoreOne
  <1> QED BY <1>2, <1>3, <1>4, OneStays

\* A browser that ends its authorisation adds a grant, or stores the first tokens of one.
LEMMA BrowserOne ==
  ASSUME Inv, OneInv, NEW b \in Browsers, BrowserSteps(b), UNCHANGED session
  PROVE  OneInv'
  <1>0. UNCHANGED req
    BY DEF session
  <1>1. CASE Exchange(b) /\ ~UNCHANGED grants
    <2>1. UNCHANGED connections /\ browser[b].item \in 1..Len(states)
      BY <1>1, KnownVisit DEF Exchange, At, VisitOwned
    <2>2. PICK k \in 1..Len(states) : k = browser[b].item
      BY <2>1
    <2>3. grants' = ExchangeCodeOnly(tickets[states[k].ticket].subject)
      BY <1>1, <2>2 DEF Exchange
    <2>4. PICK s \in Subjects : s = tickets[states[k].ticket].subject
      <3>1. states[k] \in States /\ tickets[states[k].ticket].subject = states[k].subject
        BY ElementOfSeq DEF Inv, FlowOwned
      <3> QED BY <3>1 DEF States
    <2>5. PICK e \in GrantRecords : e.refresh = 1 /\ grants' = Append(grants, e)
      <3>1. NewGrant(s) \in GrantRecords /\ NewGrant(s).refresh = 1
        BY DEF NewGrant, GrantRecords
      <3> QED BY <2>3, <2>4, <3>1 DEF ExchangeCodeOnly
    <2>6. Since(grants, grants')
      BY <2>5, AddedGrant DEF Inv, GrantsKnown
    <2>7. AllOne(grants')
      <3>1. /\ Len(grants') = Len(grants) + 1 /\ Len(grants) \in Nat
            /\ \A i \in 1..Len(grants) : grants'[i] = grants[i]
            /\ grants'[Len(grants) + 1] = e
        BY <2>5, Appended, LenProperties DEF Inv, GrantsKnown
      <3> QED BY <2>5, <3>1 DEF AllOne, OneInv
    <2>8. StoreOne'
      BY <2>1 DEF OneInv, StoreOne
    <2> QED BY <1>0, <2>6, <2>7, <2>8, OneStays
  <1>2. CASE PutConnection(b)
    <2>1. UNCHANGED grants /\ browser[b].entry \in Subjects /\ browser[b].grant \in Nat
      BY <1>2, KnownVisit DEF PutConnection, At, VisitOwned, Visits
    <2>2. PICK c : c = Connection(browser[b].entry, browser[b].grant, 1, 1)
      OBVIOUS
    <2>3. c \in Conns /\ c.refresh = 1
      BY <2>1, <2>2 DEF Connection, Conns
    <2>4. StoreOne'
      BY <1>2, <2>2, <2>3, PutOne DEF PutConnection
    <2>5. Since(grants, grants') /\ AllOne(grants')
      BY <2>1, SinceItself DEF Inv, GrantsKnown, OneInv
    <2> QED BY <1>0, <2>4, <2>5, OneStays
  <1>3. CASE UNCHANGED <<grants, connections>>
    BY <1>0, <1>3, Unrefreshed, OneStays
  <1>4. Exchange(b) => UNCHANGED connections
    BY DEF Exchange
  <1> QED BY <1>1, <1>2, <1>3, <1>4 DEF BrowserSteps, BrowserServed, OpenLink, Consent, Decline,
          ReloadCallback, TakeTicket, DeleteTicket, MintState, TakeState, DeleteState, ResolveHubId

LEMMA OneNext == ASSUME KeepsTokens PROVE Inv /\ OneInv /\ [Next]_vars => OneInv'
  <1> SUFFICES ASSUME Inv, OneInv, [Next]_vars PROVE OneInv'
    OBVIOUS
  <1>1. CASE CallsIdle
    <2>1. ASSUME NEW b \in Browsers, BrowserSteps(b), UNCHANGED session PROVE OneInv'
      BY <2>1, BrowserOne
    <2>2. CASE Elsewhere
      BY <2>2, AgedOne
    <2>3. CASE UNCHANGED <<grants, connections, req>>
      BY <2>3, Unrefreshed, OneStays
    <2> QED BY <1>1, <2>1, <2>2, <2>3 DEF CallsIdle, ExpireEntry, Shutdown, CloseAll, vars, session
  <1> QED BY <1>1, PlainOne, OthersOne, NextCases

LEMMA OneInit == Init => OneInv
  <1> SUFFICES ASSUME Init PROVE OneInv
    OBVIOUS
  <1>1. PICK n \in 0..Len(Earlier) :
          /\ grants = [i \in 1..n |-> NewGrant(Earlier[i])]
          /\ connections = [s \in Subjects |->
               IF \E i \in 1..n : Earlier[i] = s
                 THEN Connection(s, CHOOSE i \in 1..n : Earlier[i] = s, 1, 1) ELSE None]
    BY DEF Init
  <1>2. AllOne(grants)
    <2>1. DOMAIN grants = 1..Len(grants)
      BY InitInv, LenProperties DEF Inv, GrantsKnown
    <2>2. \A g \in DOMAIN grants : grants[g].refresh = 1
      <3>1. \A g \in DOMAIN grants : grants[g] = NewGrant(Earlier[g])
        BY <1>1
      <3> QED BY <3>1 DEF NewGrant
    <2> QED BY <2>1, <2>2 DEF AllOne
  <1>3. StoreOne
    <2>1. ASSUME NEW s \in Subjects, connections[s] # None PROVE connections[s].refresh = 1
      <3>1. PICK g : connections[s] = Connection(s, g, 1, 1)
        BY <1>1, <2>1
      <3> QED BY <3>1 DEF Connection
    <2> QED BY <2>1 DEF StoreOne
  <1>4. \A r \in Requests : CallOne(req[r])
    BY DEF Init, SessionInit, NewRequest, CallOne, Holding
  <1> QED BY <1>2, <1>3, <1>4 DEF OneInv

\* While HubSpot keeps a refresh token for the life of its grant, no call is sent back
\* through authorisation over a grant that still stands, however its refresh races the
\* other calls', the client's own and the browsers' (auth/hosted.py:36).
THEOREM ReconnectsOnlyIfGone == ASSUME KeepsTokens PROVE Spec => []ReconnectOnlyIfGone
  <1>1. OneInv => ReconnectOnlyIfGone
    BY DEF OneInv, CallOne, ReconnectOnlyIfGone, GoneAtHubSpot
  <1> QED BY <1>1, OneInit, InitInv, NextInv, OneNext, PTL DEF Spec
=============================================================================
