---------------------------- MODULE ConnectFlow -----------------------------
(***************************************************************************)
(* The browser half of hosted authorisation: auth/connect.py behind the two *)
(* routes of server.py.  A ticket is the link a person is given, a state is *)
(* the OAuth state that a redeemed ticket leaves; both are cache entries,   *)
(* numbered in the order they are minted.  A browser is one visit; two may  *)
(* hold the same link, and a callback may be loaded again.                  *)
(***************************************************************************)
EXTENDS Connections

CONSTANT Browsers

VARIABLES
  tickets,  \* tickets[t]: the person, and whether the cache still has the entry
  states,   \* states[k]: the same, the ticket behind it, and HubSpot's code
  browser   \* browser[b]: where a visit is, the entry it names, what it holds

flow == <<tickets, states, browser>>

BrowserPC == {"idle", "ticket", "deleteTicket", "mint", "consent",
              "state", "deleteState", "exchange", "hub", "put", "done"}
FlowInit ==
  /\ tickets = <<>> /\ states = <<>>
  /\ browser = [b \in Browsers |-> [pc |-> "idle", item |-> 0, entry |-> None, grant |-> 0]]

FlowTypeOK ==
  /\ tickets \in Seq([subject : Subjects, live : BOOLEAN])
  /\ states \in Seq([subject : Subjects, live : BOOLEAN, ticket : 1..Len(tickets),
                     code : {"none", "ready", "used"}])
  /\ browser \in [Browsers -> [pc : BrowserPC, item : Nat, entry : Subjects \union {None},
                               grant : 0..Len(grants)]]

At(b, pc) == browser[b].pc = pc
Move(b, pc) == browser' = [browser EXCEPT ![b].pc = pc]
MoveTo(b, pc, item) == browser' = [browser EXCEPT ![b].pc = pc, ![b].item = item]

\* CacheStore.set, best effort: a write that fails is swallowed, and nothing
\* backs the entry.
CacheSet(entries, entry) ==
  {[ok |-> live, entries |-> Append(entries, [entry EXCEPT !.live = live])] : live \in BOOLEAN}

\* CacheStore.delete, best effort as well: the entry may stay.
CacheDelete(entries, i) ==
  {[ok |-> TRUE, entries |-> [entries EXCEPT ![i].live = FALSE]], [ok |-> FALSE, entries |-> entries]}

\* CacheStore.get: an entry that is absent, expired or unreadable is a miss.
CacheGet(entries, i) ==
  {[ok |-> TRUE, found |-> entries[i].live], [ok |-> FALSE, found |-> FALSE]}

\* ConnectFlow.issue_ticket
IssueTicket(s) ==
  \E set \in CacheSet(tickets, [subject |-> s, live |-> TRUE]) : tickets' = set.entries /\ Charge(set.ok)

\* The route /connect/hubspot
OpenLink(b) ==
  /\ At(b, "idle")
  /\ \E t \in 1..Len(tickets) : MoveTo(b, "ticket", t)
  /\ UNCHANGED <<tickets, states, grants, connections, bounds>>

----------------------------------------------------------------------------
(* ConnectFlow._take: read the entry, then delete it, in two calls. *)

TakeGet(b, entries, next) ==
  \E got \in CacheGet(entries, browser[b].item) :
    /\ Charge(got.ok)
    /\ browser' = [browser EXCEPT ![b].pc = IF got.found THEN next ELSE "done",
                                 ![b].entry = entries[browser[b].item].subject]

TakeTicket(b) ==
  /\ At(b, "ticket") /\ TakeGet(b, tickets, "deleteTicket")
  /\ UNCHANGED <<tickets, states, grants, connections>>
DeleteTicket(b) ==
  /\ At(b, "deleteTicket") /\ Move(b, "mint")
  /\ \E left \in CacheDelete(tickets, browser[b].item) :
       tickets' = left.entries /\ Charge(left.ok)
  /\ UNCHANGED <<states, grants, connections>>

\* The rest of ConnectFlow.begin: mint the state and send the browser to HubSpot.
MintState(b) ==
  /\ At(b, "mint") /\ MoveTo(b, "consent", Len(states) + 1)
  /\ \E set \in CacheSet(states, [subject |-> browser[b].entry, live |-> TRUE,
                                  ticket |-> browser[b].item, code |-> "none"]) :
       states' = set.entries /\ Charge(set.ok)
  /\ UNCHANGED <<tickets, grants, connections>>

\* HubSpot's consent screen: the person authorises, and is sent to the callback
\* with a code, or declines, and the callback shows HubSpot's error.
Consent(b) ==
  /\ At(b, "consent")
  /\ states' = [states EXCEPT ![browser[b].item].code = "ready"]
  /\ Move(b, "state")
  /\ UNCHANGED <<tickets, grants, connections, bounds>>
Decline(b) ==
  /\ At(b, "consent") /\ Move(b, "done")
  /\ UNCHANGED <<tickets, states, grants, connections, bounds>>

\* The callback's address is loaded again, in the same window or another.
ReloadCallback(b) ==
  /\ browser[b].pc \in {"idle", "done"}
  /\ \E k \in 1..Len(states) : states[k].code # "none" /\ MoveTo(b, "state", k)
  /\ UNCHANGED <<tickets, states, grants, connections, bounds>>

TakeState(b) ==
  /\ At(b, "state") /\ TakeGet(b, states, "deleteState")
  /\ UNCHANGED <<tickets, states, grants, connections>>
DeleteState(b) ==
  /\ At(b, "deleteState") /\ Move(b, "exchange")
  /\ \E left \in CacheDelete(states, browser[b].item) :
       states' = left.entries /\ Charge(left.ok)
  /\ UNCHANGED <<tickets, grants, connections>>

\* ConnectFlow.complete: HubSpot takes a code once.  The grant belongs to whoever
\* the link was issued for; the code knows them by the entry it took.
Exchange(b) ==
  LET k == browser[b].item IN
  /\ At(b, "exchange")
  /\ \/ /\ states[k].code = "ready"
        /\ states' = [states EXCEPT ![k].code = "used"]
        /\ grants' = ExchangeCodeOnly(tickets[states[k].ticket].subject)
        /\ browser' = [browser EXCEPT ![b].pc = "hub", ![b].grant = Len(grants) + 1]
        /\ UNCHANGED bounds
     \/ /\ states[k].code = "used" /\ Move(b, "done")
        /\ UNCHANGED <<states, grants, bounds>>
     \/ /\ Spend("faults") /\ Move(b, "done")
        /\ UNCHANGED <<states, grants>>
  /\ UNCHANGED <<tickets, connections>>

\* resolve_hub_id: the portal comes with the grant or from a second call.
ResolveHubId(b) ==
  /\ At(b, "hub")
  /\ \E ok \in BOOLEAN : Move(b, IF ok THEN "put" ELSE "done") /\ Charge(ok)
  /\ UNCHANGED <<tickets, states, grants, connections>>

PutConnection(b) ==
  /\ At(b, "put") /\ Move(b, "done")
  /\ \E put \in StorePut(Connection(browser[b].entry, browser[b].grant, 1, 1)) :
       connections' = put.connections /\ Charge(put.ok)
  /\ UNCHANGED <<tickets, states, grants>>

\* A cache entry reaches the end of its ten minutes.
Live(entries) == {i \in 1..Len(entries) : entries[i].live}
ExpireEntry ==
  /\ \/ \E t \in Live(tickets) : tickets' = [tickets EXCEPT ![t].live = FALSE] /\ UNCHANGED states
     \/ \E k \in Live(states) : states' = [states EXCEPT ![k].live = FALSE] /\ UNCHANGED tickets
  /\ UNCHANGED <<browser, grants, connections, bounds>>

BrowserServed(b) ==
  \/ TakeTicket(b) \/ DeleteTicket(b) \/ MintState(b)
  \/ TakeState(b) \/ DeleteState(b) \/ Exchange(b) \/ ResolveHubId(b) \/ PutConnection(b)
BrowserSteps(b) == OpenLink(b) \/ Consent(b) \/ Decline(b) \/ ReloadCallback(b) \/ BrowserServed(b)
=============================================================================
