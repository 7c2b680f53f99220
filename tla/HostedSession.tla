---------------------------- MODULE HostedSession ---------------------------
(***************************************************************************)
(* A tool call on a hosted deployment, from the caller's access token to    *)
(* the one HubSpot request it makes: hosted_session.py resolves the caller, *)
(* auth/hosted.py refreshes their grant, the pool hands out their client,   *)
(* and client.py sends.  Calls interleave at every await, with each other   *)
(* and with the browsers of ConnectFlow.  One process.                      *)
(*                                                                          *)
(* HostedOAuthProvider() is built anew for every call, so its lock is not   *)
(* shared by two calls and is not part of the state.                        *)
(***************************************************************************)
EXTENDS ConnectFlow

CONSTANTS
  Requests,        \* tool calls
  Earlier,         \* the people connected at the start, in order: a prefix of this
  MaxPooled,       \* MAX_POOLED_CLIENTS, 32 in the code
  ReadAttempts     \* max_attempts of a read, 3 in the code

ASSUME SessionAssumption ==
  /\ Earlier \in Seq(Subjects)
  /\ MaxPooled \in Nat \ {0} /\ ReadAttempts \in Nat \ {0}

VARIABLES
  req,      \* req[r]: where the call is and what it holds
  pool,     \* the ClientPool, least recently used first: client numbers
  clients,  \* HubSpotClients ever built: owner, credentials, open, refresh lock
  serving   \* the lifespan: "up", "closing", "down"

session == <<req, pool, clients, serving>>
vars == <<grants, connections, bounds, flow, session>>

ReqPC == {"new", "read", "reread", "refresh", "store", "guide", "acquire", "close", "fresh",
          "force", "clientRead", "clientRefresh", "clientStore", "send", "resend", "done"}
Answers == {"none", "ok", "link", "nolink", "transient", "error", "auth", "rate", "closed"}

NewRequest == [pc |-> "new", subject |-> None, kind |-> "read", held |-> None, client |-> 0,
               left |-> 0, forced |-> FALSE, victims |-> {}, refused |-> None, sent |-> 0,
               answer |-> "none"]

SessionInit ==
  /\ req = [r \in Requests |-> NewRequest]
  /\ pool = <<>> /\ clients = <<>> /\ serving = "up"

\* Each person has connected before, or has not yet: Earlier says who, and in which
\* order.
Init ==
  /\ \E n \in 0..Len(Earlier) :
       /\ grants = [i \in 1..n |-> NewGrant(Earlier[i])]
       /\ connections = [s \in Subjects |->
            IF \E i \in 1..n : Earlier[i] = s
              THEN Connection(s, CHOOSE i \in 1..n : Earlier[i] = s, 1, 1) ELSE None]
  /\ bounds = [ages |-> MaxAges, revokes |-> MaxRevokes, faults |-> MaxFaults]
  /\ FlowInit /\ SessionInit

Pc(r, pc) == req[r].pc = pc
Subject(r) == req[r].subject
Client(r) == clients[req[r].client]
Goto(r, pc) == req' = [req EXCEPT ![r].pc = pc]
Answer(r, a) == req' = [req EXCEPT ![r].pc = "done", ![r].answer = a]
LockLeft(r) == clients
Unlocked(r) == [clients EXCEPT ![req[r].client].lock = None]

----------------------------------------------------------------------------
(* build_session_resolver.resolve and HostedOAuthProvider.resolve *)

Arrive(r) ==
  /\ Pc(r, "new") /\ serving = "up"
  /\ \E s \in Subjects, kind \in {"read", "write"} :
       req' = [req EXCEPT ![r].pc = "read", ![r].subject = s, ![r].kind = kind,
                          ![r].left = IF kind = "read" THEN ReadAttempts ELSE 1]
  /\ UNCHANGED <<grants, connections, bounds, flow, pool, clients, serving>>

\* The stored connection, read once and read again under the (private) lock.
ReadConnection(r) ==
  /\ req[r].pc \in {"read", "reread"}
  /\ \E got \in StoreGet(Subject(r)) :
       /\ Charge(got.ok)
       /\ \/ ~got.ok /\ Answer(r, "error")
          \/ got.ok /\ got.found = None /\ Goto(r, "guide")
          \/ /\ got.ok /\ got.found # None
             /\ req' = [req EXCEPT ![r].held = got.found, ![r].pc =
                          IF ~IsExpired(got.found) THEN "acquire"
                          ELSE IF Pc(r, "read") THEN "reread" ELSE "refresh"]
  /\ UNCHANGED <<grants, connections, flow, pool, clients, serving>>

\* HostedOAuthProvider.refresh, the call to HubSpot.
RefreshGrant(r) ==
  /\ Pc(r, "refresh")
  /\ \E out \in RefreshTokensOnly(req[r].held.grant, req[r].held.refresh) :
       /\ grants' = out.grants
       /\ Charge(~Fails(out.status))
       /\ IF out.status = "ok"
            THEN req' = [req EXCEPT ![r].pc = "store", ![r].held = WithTokens(req[r].held, out.body)]
            ELSE IF ReconnectRequired(out.status)
              THEN req' = [req EXCEPT ![r].pc = "guide", ![r].refused = req[r].held.grant]
              ELSE Answer(r, "transient")
  /\ UNCHANGED <<connections, flow, pool, clients, serving>>

\* ... and the put of what came back, over whatever is stored by then.
StoreRefreshed(r) ==
  /\ Pc(r, "store")
  /\ \E put \in StorePut(req[r].held) :
       /\ connections' = put.connections /\ Charge(put.ok)
       /\ IF put.ok THEN Goto(r, "acquire") ELSE Answer(r, "error")
  /\ UNCHANGED <<grants, flow, pool, clients, serving>>

\* _connect_guidance: a fresh link, or none when minting it raises.
Guide(r) ==
  /\ Pc(r, "guide")
  /\ \/ Answer(r, "link") /\ IssueTicket(Subject(r))
     \/ Answer(r, "nolink") /\ Charge(FALSE) /\ UNCHANGED tickets
  /\ UNCHANGED <<grants, connections, states, browser, pool, clients, serving>>

----------------------------------------------------------------------------
(* ClientPool *)

PooledAnyone(s) == 1..Len(pool)
Pooled(s) == {i \in 1..Len(pool) : clients[pool[i]].subject = s}
Without(i) == SubSeq(pool, 1, i - 1) \o SubSeq(pool, i + 1, Len(pool))

\* HubSpotClient(portal, _refresher_for(subject)): an open client for that person.
NewClient(s, portal) == [subject |-> s, portal |-> portal, open |-> TRUE, lock |-> None]

\* ClientPool.acquire, which holds the pool's lock over no await.
Acquire(r) ==
  /\ Pc(r, "acquire")
  /\ LET portal == ToPortalConfig(req[r].held) IN
     \/ \E i \in Pooled(Subject(r)) :
          /\ pool' = Append(Without(i), pool[i])
          /\ clients' = [clients EXCEPT ![pool[i]].portal = portal]     \* update_credentials
          /\ req' = [req EXCEPT ![r].pc = "fresh", ![r].client = pool[i]]
     \/ /\ Pooled(Subject(r)) = {}
        /\ clients' = Append(clients, NewClient(Subject(r), portal))
        /\ LET grown == Append(pool, Len(clients) + 1)
               over == IF Len(grown) > MaxPooled THEN Len(grown) - MaxPooled ELSE 0
           IN /\ pool' = SubSeq(grown, over + 1, Len(grown))
              /\ req' = [req EXCEPT ![r].pc = IF over = 0 THEN "fresh" ELSE "close",
                                    ![r].client = Len(clients) + 1,
                                    ![r].victims = {grown[i] : i \in 1..over}]
  /\ UNCHANGED <<grants, connections, bounds, flow, serving>>

\* _close_quietly, outside the lock: a victim per await.
ForgetVictim(r) ==
  /\ Pc(r, "close")
  /\ req' = [req EXCEPT ![r].victims = {}, ![r].pc = "fresh"]
  /\ UNCHANGED <<grants, connections, bounds, flow, pool, clients, serving>>
CloseVictim(r) ==
  /\ Pc(r, "close")
  /\ \E c \in req[r].victims :
       /\ clients' = [clients EXCEPT ![c].open = FALSE]
       /\ req' = [req EXCEPT ![r].victims = req[r].victims \ {c},
                             ![r].pc = IF req[r].victims = {c} THEN "fresh" ELSE "close"]
  /\ UNCHANGED <<grants, connections, bounds, flow, pool, serving>>

----------------------------------------------------------------------------
(* HubSpotClient._get_fresh_token, with the refresher of _refresher_for *)

NeedsRefresh(c) == Aged(c.portal.token)

\* Before the call: the token it has, or the lock to fetch another.
FreshToken(r) ==
  /\ Pc(r, "fresh")
  /\ \/ ~NeedsRefresh(Client(r)) /\ Goto(r, "send") /\ UNCHANGED clients
     \/ /\ NeedsRefresh(Client(r)) /\ Client(r).lock = None
        /\ req' = [req EXCEPT ![r].pc = "clientRead", ![r].forced = FALSE]
        /\ clients' = [clients EXCEPT ![req[r].client].lock = r]
  /\ UNCHANGED <<grants, connections, bounds, flow, pool, serving>>

\* After a 401: forced, so nothing is checked again under the lock.
ForceRefresh(r) ==
  /\ Pc(r, "force") /\ Client(r).lock = None
  /\ req' = [req EXCEPT ![r].pc = "clientRead", ![r].forced = TRUE]
  /\ clients' = [clients EXCEPT ![req[r].client].lock = r]
  /\ UNCHANGED <<grants, connections, bounds, flow, pool, serving>>

ClientReads(r) ==
  /\ Pc(r, "clientRead")
  /\ \E got \in StoreGet(Subject(r)) :
       /\ Charge(got.ok)
       /\ IF got.found # None
            THEN /\ req' = [req EXCEPT ![r].pc = "clientRefresh", ![r].held = got.found]
                 /\ UNCHANGED clients
            ELSE Answer(r, "error") /\ clients' = Unlocked(r)
  /\ UNCHANGED <<grants, connections, flow, pool, serving>>

\* A refusal here leaves the client as an exception, and the caller without a link.
ClientRefreshes(r) ==
  /\ Pc(r, "clientRefresh")
  /\ \E out \in RefreshTokensOnly(req[r].held.grant, req[r].held.refresh) :
       /\ grants' = out.grants
       /\ Charge(~Fails(out.status))
       /\ IF out.status = "ok"
            THEN /\ req' = [req EXCEPT ![r].pc = "clientStore", ![r].held = WithTokens(req[r].held, out.body)]
                 /\ UNCHANGED clients
            ELSE Answer(r, "error") /\ clients' = Unlocked(r)
  /\ UNCHANGED <<connections, flow, pool, serving>>

\* The put, and then, with no await between, the client adopts the tokens: into
\* whatever portal it has by now, and releases the lock.
Adopted(r) ==
  LET fresh == ToPortalConfig(req[r].held) IN
  [clients EXCEPT ![req[r].client].portal.token = fresh.token,
                  ![req[r].client].portal.refresh = fresh.refresh,
                  ![req[r].client].lock = None]
\* Only a read is sent again after a 401: the first write may have been processed.
ResendsAnything(kind) == TRUE
Resends(kind) == kind = "read"
ClientStores(r) ==
  /\ Pc(r, "clientStore")
  /\ \E put \in StorePut(req[r].held) :
       /\ connections' = put.connections /\ Charge(put.ok)
       /\ clients' = IF put.ok THEN Adopted(r) ELSE Unlocked(r)
       /\ IF ~put.ok THEN Answer(r, "error")
          ELSE IF ~req[r].forced THEN Goto(r, "send")
          ELSE IF Resends(req[r].kind) THEN Goto(r, "resend")
          ELSE Answer(r, "auth")
  /\ UNCHANGED <<grants, flow, pool, serving>>

----------------------------------------------------------------------------
(* HubSpotClient._request *)

\* HubSpot's answer to a token: a revoked grant is a 401, a token past its leeway
\* may be; any other answer is the API's own.
Rejects(token) == grants[token[1]].revoked \/ Aged(token)
Accepts(token) == ~grants[token[1]].revoked
Sent(r) == [req[r] EXCEPT !.sent = req[r].sent + 1]

Finish(r, a) == req' = [req EXCEPT ![r] = [Sent(r) EXCEPT !.pc = "done", !.answer = a]]

\* 429: a read clears its window, waits and tries again; a write raises.
RateLimited(r) ==
  IF req[r].kind = "read" /\ req[r].left > 1
    THEN req' = [req EXCEPT ![r] = [Sent(r) EXCEPT !.pc = "fresh", !.left = req[r].left - 1]]
    ELSE Finish(r, "rate")

Send(r) ==
  /\ Pc(r, "send") /\ Client(r).open
  /\ LET token == Client(r).portal.token IN
     \/ Accepts(token) /\ Finish(r, "ok") /\ UNCHANGED bounds
     \/ Rejects(token) /\ req' = [req EXCEPT ![r] = [Sent(r) EXCEPT !.pc = "force"]]
        /\ UNCHANGED bounds
     \/ Spend("faults") /\ RateLimited(r)
     \/ Spend("faults") /\ Finish(r, "error")           \* no answer, or an error status
  /\ UNCHANGED <<grants, connections, flow, pool, clients, serving>>

\* The one resend of a read after its 401; a second 401 is final.
Resend(r) ==
  /\ Pc(r, "resend") /\ Client(r).open
  /\ LET token == Client(r).portal.token IN
     \/ Accepts(token) /\ Finish(r, "ok") /\ UNCHANGED bounds
     \/ Rejects(token) /\ Finish(r, "auth") /\ UNCHANGED bounds
     \/ Spend("faults") /\ RateLimited(r)
  /\ UNCHANGED <<grants, connections, flow, pool, clients, serving>>

\* httpx refuses to send on a client that has been closed.
SendOnClosed(r) ==
  /\ req[r].pc \in {"send", "resend"} /\ ~Client(r).open /\ Answer(r, "closed")
  /\ UNCHANGED <<grants, connections, bounds, flow, pool, clients, serving>>

----------------------------------------------------------------------------
(* The end of app_lifespan, after the ASGI server has drained the calls *)

Drained == \A r \in Requests : req[r].pc \in {"new", "done"}
Shutdown ==
  /\ serving = "up" /\ Drained
  /\ serving' = "closing" /\ UNCHANGED <<grants, connections, bounds, flow, req, pool, clients>>

\* ClientPool.close_all: the pool is emptied, then each client is closed.
CloseAll ==
  /\ serving = "closing" /\ serving' = "down"
  /\ pool' = <<>>
  /\ clients' = [c \in DOMAIN clients |->
       [clients[c] EXCEPT !.open = @ /\ c \notin {pool[i] : i \in DOMAIN pool}]]
  /\ UNCHANGED <<grants, connections, bounds, flow, req>>

Step(r) ==
  \/ ReadConnection(r) \/ RefreshGrant(r) \/ StoreRefreshed(r) \/ Guide(r)
  \/ Acquire(r) \/ CloseVictim(r)
  \/ FreshToken(r) \/ ForceRefresh(r) \/ ClientReads(r) \/ ClientRefreshes(r) \/ ClientStores(r)
  \/ Send(r) \/ Resend(r) \/ SendOnClosed(r)

Elsewhere ==
  /\ \/ \E g \in Grants : Age(g) \/ Revoke(g)
  /\ UNCHANGED <<flow, session>>

Next ==
  \/ \E r \in Requests : Arrive(r) \/ Step(r)
  \/ \E b \in Browsers : BrowserSteps(b) /\ UNCHANGED session
  \/ ExpireEntry /\ UNCHANGED session
  \/ Elsewhere \/ Shutdown \/ CloseAll

\* The event loop runs every call on, and HubSpot and Redis answer or time out.
Fairness == \A r \in Requests : WF_vars(Step(r))
Spec == Init /\ [][Next]_vars
FairSpec == Spec /\ Fairness

----------------------------------------------------------------------------
ReqRecord(q) ==
  /\ q.pc \in ReqPC /\ q.answer \in Answers /\ q.subject \in Subjects \union {None}
  /\ q.kind \in {"read", "write"} /\ q.held # None => IsConnection(q.held)
  /\ q.client \in 0..Len(clients) /\ q.left \in 0..ReadAttempts /\ q.forced \in BOOLEAN
  /\ q.victims \subseteq 1..Len(clients) /\ q.sent \in Nat

\* Every variable has its type, and a client's credentials name a known grant.
TypeOK ==
  /\ grants \in Seq(GrantRecords)
  /\ \A s \in Subjects : connections[s] # None => IsConnection(connections[s])
  /\ FlowTypeOK
  /\ \A r \in Requests : ReqRecord(req[r])
  /\ \A i \in DOMAIN pool : pool[i] \in 1..Len(clients)
  /\ \A c \in DOMAIN clients :
       /\ clients[c].subject \in Subjects /\ clients[c].open \in BOOLEAN
       /\ clients[c].lock \in Requests \union {None}
       /\ clients[c].portal.token[1] \in Grants

\* Nobody acts on a grant another person gave: the stored connection, the client a
\* call holds and the token that client sends all go back to a link issued to the
\* caller (hosted_session.py:15, "a shared client would refresh one person's grant
\* into the other's record").
OwnGrantOnly ==
  /\ \A s \in Subjects : connections[s] # None =>
       connections[s].subject = s /\ grants[connections[s].grant].owner = s
  /\ \A c \in DOMAIN clients : grants[clients[c].portal.token[1]].owner = clients[c].subject
  /\ \A r \in Requests : req[r].client # 0 => Client(r).subject = Subject(r)

\* A caller who has a grant is sent back through authorisation only when HubSpot has
\* definitively dropped that grant (auth/hosted.py:36).
ReconnectOnlyIfGone ==
  \A r \in Requests : req[r].refused # None => GoneAtHubSpot(req[r].refused)

\* No client is left open outside the pool: overflow costs a reconnect, not a leak
\* (hosted_session.py:36), and a shutdown closes what is left.
NoClientLeak ==
  \A c \in DOMAIN clients : clients[c].open =>
    \/ \E i \in DOMAIN pool : pool[i] = c
    \/ \E r \in Requests : c \in req[r].victims

\* A write reaches HubSpot at most once, whatever the 401, the 429 or the refresh.
WriteSentOnce ==
  \A r \in Requests : req[r].kind = "write" => req[r].sent <= 1

\* Every call that arrived is answered: no client lock is left held.
CallsEnd == \A r \in Requests : Pc(r, "read") ~> Pc(r, "done")
=============================================================================
