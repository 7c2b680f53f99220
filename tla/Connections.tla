---------------------------- MODULE Connections -----------------------------
(***************************************************************************)
(* The HubSpot connections of a hosted deployment: one stored record per    *)
(* person (state/connection_store.py), and HubSpot's own side of the OAuth  *)
(* grant behind it, as oauth_flow.py uses it.                               *)
(*                                                                          *)
(* A grant is numbered in the order of consent.  A token is a pair <<grant, *)
(* number>>: access tokens are numbered as they are issued, and of the      *)
(* refresh tokens HubSpot honours one, which it may or may not rotate.      *)
(***************************************************************************)
EXTENDS Naturals, Sequences

CONSTANTS
  Subjects,    \* people, as the identity provider names them
  None,
  Rotates,     \* may a refresh replace the refresh token: a subset of BOOLEAN
  MaxAges,     \* bound: how often the tokens of some grant run into the leeway
  MaxRevokes,  \* bound: grants revoked in HubSpot
  MaxFaults    \* bound: calls to HubSpot, Redis or the disk that fail

ASSUME ConnectionsAssumption ==
  /\ None \notin Subjects
  /\ Rotates \subseteq BOOLEAN /\ Rotates # {}
  /\ MaxAges \in Nat /\ MaxRevokes \in Nat /\ MaxFaults \in Nat

VARIABLES
  grants,       \* HubSpot: the grants, in the order of consent
  connections,  \* the connection store: connections[s], or None
  bounds        \* what is left of the bounds

Grants == 1..Len(grants)
NewGrant(s) == [owner |-> s, issued |-> 1, aged |-> 0, refresh |-> 1, revoked |-> FALSE]
GrantRecords == [owner : Subjects, issued : Nat, aged : Nat, refresh : Nat, revoked : BOOLEAN]

\* HubSpotConnection, the portal and scopes being those of the grant.
Connection(s, g, access, refresh) ==
  [subject |-> s, grant |-> g, access |-> access, refresh |-> refresh]
IsConnection(c) ==
  /\ c.subject \in Subjects /\ c.grant \in Grants
  /\ c.access \in 1..grants[c.grant].issued /\ c.refresh \in Nat

Aged(token) == token[2] <= grants[token[1]].aged
IsExpired(c) == Aged(<<c.grant, c.access>>)

\* What the client is handed: a PortalConfig.
ToPortalConfig(c) ==
  [portal |-> c.grant, token |-> <<c.grant, c.access>>, refresh |-> <<c.grant, c.refresh>>]

\* A copy with refreshed tokens; a refresh token HubSpot did not send is kept.
WithTokens(c, body) ==
  [c EXCEPT !.access = body.access,
            !.refresh = IF body.refresh = None THEN c.refresh ELSE body.refresh]

Spend(field) == bounds[field] > 0 /\ bounds' = [bounds EXCEPT ![field] = @ - 1]
Charge(ok) == IF ok THEN UNCHANGED bounds ELSE Spend("faults")

\* A get of either store: what is stored, or an error that surfaces.  A connection
\* that cannot be read is never taken for none.
StoreGet(s) ==
  {[ok |-> TRUE, found |-> connections[s]], [ok |-> FALSE, found |-> None]}

\* A put replaces the record whole, or raises and leaves it.
StorePut(c) ==
  {[ok |-> TRUE, connections |-> [connections EXCEPT ![c.subject] = c]],
   [ok |-> FALSE, connections |-> connections]}

----------------------------------------------------------------------------
(* HubSpot's token endpoint. *)

Honours(g, refresh) == ~grants[g].revoked /\ grants[g].refresh = refresh

\* A refresh HubSpot performs: a new access token, and perhaps a new refresh token.
Renewed(g, rotate) ==
  LET old == grants[g] IN
  [grants EXCEPT ![g] = [old EXCEPT !.issued = old.issued + 1,
                                    !.refresh = IF rotate THEN old.refresh + 1 ELSE old.refresh]]
RenewedBody(g, rotate) ==
  [access |-> grants[g].issued + 1, refresh |-> IF rotate THEN grants[g].refresh + 1 ELSE None]

\* refresh_tokens_only: what a call with that refresh token may end in.  One
\* endpoint: a 404 of the first is retried on the second.  "refused" is an HTTP
\* 4xx; "busy" a 5xx, a 429 or a network failure before HubSpot acted; "lost" a
\* failure after it did.
RefreshTokensOnly(g, refresh) ==
  IF ~Honours(g, refresh)
    THEN {[status |-> "refused", grants |-> grants, body |-> None]}
    ELSE {[status |-> st, grants |-> Renewed(g, rotate), body |-> RenewedBody(g, rotate)] :
            st \in {"ok", "lost"}, rotate \in Rotates}
         \union {[status |-> "busy", grants |-> grants, body |-> None]}

Fails(status) == status \in {"busy", "lost"}     \* raised by _post_token_request

\* HostedOAuthProvider._refusal: only a 4xx means that the grant is gone.
ReconnectOnAny(status) == Fails(status) \/ status = "refused"
ReconnectRequired(status) == status = "refused"

\* exchange_code_only: consent turned into a grant, whose first tokens come back.
ExchangeCodeOnly(s) == Append(grants, NewGrant(s))

\* Time passes: what was issued so far under g is within the leeway of its expiry.
Age(g) ==
  /\ grants[g].aged < grants[g].issued /\ Spend("ages")
  /\ grants' = [grants EXCEPT ![g].aged = grants[g].issued]
  /\ UNCHANGED connections

\* The person revokes the grant in HubSpot, or uninstalls the app.
Revoke(g) ==
  /\ ~grants[g].revoked /\ Spend("revokes")
  /\ grants' = [grants EXCEPT ![g].revoked = TRUE]
  /\ UNCHANGED connections

GoneAtHubSpot(g) == grants[g].revoked
=============================================================================
