------------------------------- MODULE Access -------------------------------
(***************************************************************************)
(* Who the API lets in: persistent tokens with scopes, the token of the    *)
(* environment, and the bootstrap of a development server that has no      *)
(* token yet.  A request looks its token up, commits when it was last      *)
(* used, and only then runs; tokens lapse and are revoked in between.      *)
(***************************************************************************)
EXTENDS Routes, Null

CONSTANTS
  Tokens,   \* ids of persistent tokens
  Grants,   \* sets of scopes a token may be given
  Requests  \* API requests

VARIABLES
  setup,    \* environment and api_token of the settings
  apiToken, \* api_tokens
  request,  \* where each request is
  served    \* the last request that ran, and what its caller was granted when it began

accessVars == <<setup, apiToken, request, served>>

Everything == {"*"}
Callers == Tokens \cup {"environment", "nobody"}

Idle == [phase |-> "idle", caller |-> "nobody", row |-> None, scopes |-> {}, granted |-> {}]

Row == [state : {"active", "revoked"}, scopes : Grants, expires : {"never", "later", "past"}]

Request ==
  [phase : {"idle", "authenticating", "touching", "unmatched", "granted"},
   caller : Callers, row : Row \cup {None}, scopes : Grants \cup {Everything, {}},
   granted : SUBSET (Grants \cup {Everything})]

\* NULL is not a row.
ASSUME NoneIsNoRow == None \notin Row

\* ApiToken.revoked_at and expires_at, as both queries test them.
Active(row) == row # None /\ row.state = "active" /\ row.expires # "past"

\* active_persistent_token_count = 0, on a server that may bootstrap.
Unguarded(tokens) ==
  /\ ~setup.configured /\ setup.environment # "production"
  /\ \A t \in Tokens : ~Active(tokens[t])

\* The scopes a caller has a right to at this moment.
Granted(tokens, c) ==
  {g \in Grants \cup {Everything} :
     \/ c \in Tokens /\ Active(tokens[c]) /\ g = tokens[c].scopes
     \/ c = "environment" /\ setup.configured /\ g = Everything
     \/ Unguarded(tokens) /\ g = Everything}

\* A request under way also gets what its caller comes to have.
WithGrants(requests, tokens) ==
  [r \in Requests |->
     IF requests[r].phase = "idle" THEN requests[r]
     ELSE [requests[r] EXCEPT !.granted = @ \cup Granted(tokens, requests[r].caller)]]

\* ApiPrincipal.allows
Allows(scopes, scope) == scope = Public \/ "*" \in scopes \/ scope \in scopes

-----------------------------------------------------------------------------
(* authenticate_api_token                                                  *)

Begin(r, c) ==
  /\ request[r] = Idle
  /\ request' = [request EXCEPT ![r] = [Idle EXCEPT !.phase = "authenticating", !.caller = c,
                                                    !.granted = Granted(apiToken, c)]]
  /\ UNCHANGED <<setup, apiToken, served>>

MatchEnvironment(r) ==
  /\ request[r].phase = "authenticating" /\ request[r].caller = "environment" /\ setup.configured
  /\ request' = [request EXCEPT ![r].phase = "granted", ![r].scopes = Everything]
  /\ UNCHANGED <<setup, apiToken, served>>

\* Mutant: the expiry is not looked at.
UsableAlsoExpired(row) == row # None /\ row.state = "active"

Usable(row) == Active(row)

\* authenticate_persistent_token: the candidate is read without a lock.
Match(r) ==
  /\ request[r].phase = "authenticating" /\ request[r].caller \in Tokens
  /\ Usable(apiToken[request[r].caller])
  /\ request' = [request EXCEPT ![r].phase = "touching", ![r].row = apiToken[request[r].caller]]
  /\ UNCHANGED <<setup, apiToken, served>>

\* Mutant: the row is written as it was read.
TouchedAsRead(now, read) == read

\* The UPDATE sets last_used_at, whatever else has changed meanwhile.
Touched(now, read) == now

Touch(r) ==
  LET t == request[r].caller
      tokens == [apiToken EXCEPT ![t] = Touched(@, request[r].row)]
  IN /\ request[r].phase = "touching"
     /\ apiToken' = tokens
     /\ request' = WithGrants([request EXCEPT ![r].phase = "granted",
                                              ![r].scopes = request[r].row.scopes], tokens)
     /\ UNCHANGED <<setup, served>>

NoMatch(r) ==
  LET c == request[r].caller
  IN /\ request[r].phase = "authenticating"
     /\ c \in Tokens => ~Usable(apiToken[c])
     /\ c = "environment" => ~setup.configured
     /\ request' = [request EXCEPT ![r].phase = "unmatched"]
     /\ UNCHANGED <<setup, apiToken, served>>

\* The bootstrap of a development server; or 401.
Bootstrap(r) ==
  /\ request[r].phase = "unmatched"
  /\ request' = [request EXCEPT ![r] = IF Unguarded(apiToken)
                                       THEN [@ EXCEPT !.phase = "granted", !.scopes = Everything]
                                       ELSE Idle]
  /\ UNCHANGED <<setup, apiToken, served>>

-----------------------------------------------------------------------------
(* require_scopes, and the route                                           *)

\* What a route is told apart by here.
Demands == {[scope |-> route.scope, effect |-> route.effect] : route \in Routes}

Permitted(r, demand) == Allows(request[r].scopes, demand.scope)

Answered(r, effect) ==
  [scopes |-> request[r].scopes, granted |-> request[r].granted, effect |-> effect]

Serve(r) ==
  /\ request[r].phase = "granted"
  /\ \E effect \in {d.effect : d \in {x \in Demands : Permitted(r, x)}} :
       served' = Answered(r, effect)
  /\ request' = [request EXCEPT ![r] = Idle]
  /\ UNCHANGED <<setup, apiToken>>

Refuse(r) ==
  /\ request[r].phase = "granted"
  /\ \E d \in Demands : ~Permitted(r, d)
  /\ request' = [request EXCEPT ![r] = Idle]
  /\ UNCHANGED <<setup, apiToken, served>>

\* The two routes that change tokens.
Change(r, name, tokens) ==
  /\ request[r].phase = "granted"
  /\ \E route \in AuthRoutes :
       route.name = name /\ Permitted(r, route) /\ served' = Answered(r, route.effect)
  /\ apiToken' = tokens
  /\ request' = WithGrants([request EXCEPT ![r] = Idle], tokens)
  /\ UNCHANGED setup

\* create_persistent_token
CreateToken(r, t, scopes, expires) ==
  /\ apiToken[t] = None
  /\ Change(r, "create_api_token",
            [apiToken EXCEPT ![t] = [state |-> "active", scopes |-> scopes, expires |-> expires]])

\* revoke_persistent_token; a token may be the one that revokes itself.
RevokeToken(r, t) ==
  /\ apiToken[t] # None
  /\ Change(r, "revoke_api_token", [apiToken EXCEPT ![t].state = "revoked"])

\* expires_at passes.
Expire(t) ==
  /\ apiToken[t] # None
  /\ apiToken[t].expires = "later"
  /\ apiToken' = [apiToken EXCEPT ![t].expires = "past"]
  /\ request' = WithGrants(request, apiToken')
  /\ UNCHANGED <<setup, served>>

-----------------------------------------------------------------------------
\* Settings.require_production_token
AccessInit ==
  /\ setup \in {s \in [environment : {"development", "production"}, configured : BOOLEAN] :
                  s.environment = "production" => s.configured}
  /\ apiToken = [t \in Tokens |-> None]
  /\ request = [r \in Requests |-> Idle]
  /\ served = None

AccessNext ==
  \/ \E r \in Requests :
       \/ \E c \in Callers : Begin(r, c)
       \/ MatchEnvironment(r) \/ Match(r) \/ Touch(r) \/ NoMatch(r) \/ Bootstrap(r)
       \/ Serve(r) \/ Refuse(r)
       \/ \E t \in Tokens :
            \/ \E g \in Grants, e \in {"never", "later"} : CreateToken(r, t, g, e)
            \/ RevokeToken(r, t)
  \/ \E t \in Tokens : Expire(t)

AccessSpec == AccessInit /\ [][AccessNext]_accessVars

-----------------------------------------------------------------------------
AccessTypeOK ==
  /\ setup \in [environment : {"development", "production"}, configured : BOOLEAN]
  /\ apiToken \in [Tokens -> Row \cup {None}]
  /\ request \in [Requests -> Request]
  /\ served = None \/ served.effect \in {"reads", "asks", "writes"}

\* A request runs with scopes its caller held at some moment between its arrival and its end:
\* those of a token that was active, all with the token of the environment, or all on a
\* development server without an active token.  Tokens lapse, are revoked and are created
\* while the request waits.  (authenticate_api_token, authenticate_persistent_token)
ServedWasGranted == served # None => served.scopes \in served.granted

\* A caller that holds only read scopes changes nothing but what a provider call leaves behind.
\* (require_scopes of every route)
ReadersOnlyRead ==
  served # None /\ (\A s \in served.scopes : s \in {"mail:read", "accounts:read", "jobs:read"})
    => served.effect # "writes"

\* What the API does for a caller, the caller was allowed to have done.
ServedAsGranted == ServedWasGranted /\ ReadersOnlyRead

\* A revoked token stays revoked, although a request that read it before commits the time it
\* was last used after.  (revoke_persistent_token, authenticate_persistent_token)
RevocationIsFinal ==
  [][\A t \in Tokens :
       apiToken[t] # None =>
         /\ apiToken'[t] # None
         /\ apiToken[t].state = "revoked" => apiToken'[t].state = "revoked"]_accessVars
=============================================================================
