---------------------------- MODULE AccessProofs -----------------------------
(***************************************************************************)
(* Theorems about what the API grants and what it is set to, each for any  *)
(* constants: ProjectLease, Access, Shares, ProxyHealth and CliConfig, and *)
(* what MCAccess makes of them side by side.                               *)
(***************************************************************************)
EXTENDS MCAccess, TLAPS

-----------------------------------------------------------------------------
\* HolderFence is not inductive by itself: it says nothing of which row a
\* request holds, and LeaseColumns is what keeps a claim away from it.
OneRow == \A s \in Sessions : op[s] \in HolderOps => \E r \in Rows : target[s] = {r}

FenceInv == TypeOK /\ LeaseColumns /\ OneRow /\ HolderFence

LEMMA FenceInit == Init => FenceInv
BY ProjectAssumption
   DEF Init, FenceInv, TypeOK, LeaseColumns, OneRow, HolderFence, RowStatus, Outcomes, HolderOps,
       AdminOps

-----------------------------------------------------------------------------
\* Steps that change rows and open or end no transaction: they leave the rows
\* that are locked alone.
LEMMA RowStep ==
  ASSUME FenceInv, NEW r \in Rows, Claim(r) \/ Purge(r) \/ Tick(r)
  PROVE  FenceInv'
<1> USE DEF FenceInv, TypeOK
<1>1. TypeOK'
  BY ProjectAssumption DEF Claim, Claimable, Purge, Tick, RowStatus
<1>2. LeaseColumns'
  <2>1. CASE Claim(r)
    BY <2>1 DEF Claim, LeaseColumns
  <2>2. CASE Purge(r)
    BY <2>2 DEF Purge, LeaseColumns
  <2>3. CASE Tick(r)
    BY <2>3 DEF Tick, LeaseColumns
  <2> QED BY <2>1, <2>2, <2>3
<1>3. op' = op /\ target' = target /\ shown' = shown
  BY DEF Claim, Purge, Tick
<1>4. OneRow'
  BY <1>3 DEF OneRow
<1>5. ASSUME NEW s \in Sessions, op[s] \in HolderOps, NEW q \in target[s]
      PROVE  status'[q] = status[q] /\ token'[q] = token[q]
  <2>1. target[s] = {q} /\ q \in Rows /\ RowLocked(q)
    BY <1>5 DEF OneRow, RowLocked
  <2> QED BY <2>1 DEF Claim, Purge, Tick
<1>6. HolderFence'
  BY <1>3, <1>5 DEF HolderFence
<1> QED BY <1>1, <1>2, <1>4, <1>6

\* A request that passes _leased_row locks a row nobody else has locked.
LEMMA HoldStep ==
  ASSUME FenceInv, NEW s \in Sessions, NEW r \in Rows, NEW t \in 1..issued, HoldLease(s, r, t)
  PROVE  FenceInv'
<1> USE DEF FenceInv, TypeOK
<1>1. TypeOK'
  BY DEF HoldLease
<1>2. LeaseColumns'
  BY DEF HoldLease, LeaseColumns
<1>3. OneRow'
  BY DEF HoldLease, OneRow
<1>4. HolderFence'
  <2>1. \A q \in Sessions : op[q] \in HolderOps => target[q] # {r}
    BY DEF HoldLease, RowLocked
  <2>2. op[s] \notin HolderOps /\ token[r] # 0 /\ status[r] = "leased"
    BY DEF HoldLease, HolderOps, Outcomes
  <2>3. \A q \in Sessions \ {s} : op'[q] = op[q] /\ target'[q] = target[q] /\ shown'[q] = shown[q]
    BY DEF HoldLease
  <2>4. target'[s] = {r} /\ shown'[s] = token[r] /\ status' = status /\ token' = token
    BY DEF HoldLease
  <2> QED BY <2>1, <2>2, <2>3, <2>4 DEF HolderFence
<1> QED BY <1>1, <1>2, <1>3, <1>4

\* Steps that end a transaction write only rows it has locked.
LEMMA EndStep ==
  ASSUME FenceInv, NEW s \in Sessions,
         Heartbeat(s) \/ Finish(s) \/ CommitAdmin(s) \/ AbortDeadlocked(s)
  PROVE  FenceInv'
<1> USE DEF FenceInv, TypeOK
<1>1. TypeOK'
  <2>1. CASE Heartbeat(s)
    BY <2>1 DEF Heartbeat, End
  <2>2. CASE Finish(s)
    BY <2>2 DEF Finish, End, RowStatus
  <2>3. CASE CommitAdmin(s)
    BY <2>3 DEF CommitAdmin, End, RowStatus, NewStatus, Outcomes
  <2>4. CASE AbortDeadlocked(s)
    BY <2>4 DEF AbortDeadlocked, End
  <2> QED BY <2>1, <2>2, <2>3, <2>4
<1>2. LeaseColumns'
  <2>1. CASE Heartbeat(s)
    BY <2>1 DEF Heartbeat, LeaseColumns, HolderFence, HolderOps, Outcomes
  <2>2. CASE Finish(s)
    BY <2>2 DEF Finish, LeaseColumns, Outcomes
  <2>3. CASE CommitAdmin(s)
    BY <2>3 DEF CommitAdmin, LeaseColumns, NewStatus
  <2>4. CASE AbortDeadlocked(s)
    BY <2>4 DEF AbortDeadlocked, LeaseColumns
  <2> QED BY <2>1, <2>2, <2>3, <2>4
<1>3. /\ op'[s] = "none"
      /\ \A q \in Sessions \ {s} : op'[q] = op[q] /\ target'[q] = target[q] /\ shown'[q] = shown[q]
  BY DEF Heartbeat, Finish, CommitAdmin, AbortDeadlocked, End
<1>4. "none" \notin HolderOps
  BY DEF HolderOps, Outcomes
<1>5. OneRow'
  BY <1>3, <1>4 DEF OneRow
<1>6. ASSUME NEW q \in Sessions \ {s}, op[q] \in HolderOps, NEW r \in target[q]
      PROVE  status'[r] = status[r] /\ token'[r] = token[r]
  <2>1. target[q] = {r} /\ r \in Rows /\ RowLocked(r)
    BY <1>6 DEF OneRow, RowLocked
  <2>2. op[s] \in HolderOps => r \notin target[s]
    <3> SUFFICES ASSUME op[s] \in HolderOps, r \in target[s] PROVE FALSE
      OBVIOUS
    <3>1. target[s] = {r}
      BY DEF OneRow
    <3>2. target[s] # target[q]
      BY <1>6 DEF HolderFence
    <3> QED BY <2>1, <3>1, <3>2
  <2>3. CASE Heartbeat(s) \/ AbortDeadlocked(s)
    BY <2>3 DEF Heartbeat, AbortDeadlocked
  <2>4. CASE Finish(s)
    BY <2>1, <2>2, <2>4 DEF Finish, HolderOps
  <2>5. CASE CommitAdmin(s)
    BY <2>1, <2>5 DEF CommitAdmin
  <2> QED BY <2>3, <2>4, <2>5
<1>7. HolderFence'
  BY <1>3, <1>4, <1>6 DEF HolderFence
<1> QED BY <1>1, <1>2, <1>5, <1>7

\* The remaining steps touch neither leased rows nor the holders' requests.
LEMMA OtherStep ==
  ASSUME FenceInv,
         (\E s \in Sessions : BeginAdmin(s)) \/ AddAccounts \/ SetStatus \/ UNCHANGED vars
  PROVE  FenceInv'
<1> USE DEF FenceInv, TypeOK
<1>1. CASE UNCHANGED vars
  BY <1>1 DEF vars, LeaseColumns, OneRow, HolderFence
<1>2. CASE SetStatus
  BY <1>2 DEF SetStatus, LeaseColumns, OneRow, HolderFence
<1>3. CASE AddAccounts
  <2>1. \A r \in Rows : status[r] # "absent" => status'[r] = status[r]
    BY <1>3 DEF AddAccounts
  <2>2. \A r \in Rows : status[r] = "absent" => status'[r] \in {"absent", "to_claim"}
    BY <1>3 DEF AddAccounts
  <2>3. UNCHANGED <<project, token, lease, issued, op, target, shown>>
    BY <1>3 DEF AddAccounts
  <2>4. TypeOK'
    BY <1>3, <2>3 DEF AddAccounts, RowStatus, Outcomes
  <2>5. LeaseColumns'
    BY <2>1, <2>2, <2>3 DEF LeaseColumns
  <2>6. OneRow' /\ HolderFence'
    BY <2>1, <2>3 DEF OneRow, HolderFence
  <2> QED BY <2>4, <2>5, <2>6
<1>4. ASSUME NEW s \in Sessions, BeginAdmin(s) PROVE FenceInv'
  <2>1. op'[s] \in AdminOps /\ UNCHANGED <<project, status, token, lease, issued>>
    BY <1>4 DEF BeginAdmin
  <2>2. \A q \in Sessions \ {s} : op'[q] = op[q] /\ target'[q] = target[q] /\ shown'[q] = shown[q]
    BY <1>4 DEF BeginAdmin
  <2>3. AdminOps \cap HolderOps = {}
    BY DEF AdminOps, HolderOps, Outcomes
  <2>4. TypeOK' /\ LeaseColumns'
    BY <1>4, <2>1 DEF BeginAdmin, LeaseColumns
  <2>5. OneRow' /\ HolderFence'
    BY <2>1, <2>2, <2>3 DEF OneRow, HolderFence
  <2> QED BY <2>4, <2>5
<1> QED BY <1>1, <1>2, <1>3, <1>4

LEMMA FenceStep == FenceInv /\ [Next]_vars => FenceInv'
BY RowStep, HoldStep, EndStep, OtherStep DEF Next

-----------------------------------------------------------------------------
\* Every reachable state is well-typed.
THEOREM LeaseTypes == Spec => []TypeOK
<1>1. FenceInv => TypeOK
  BY DEF FenceInv
<1> QED BY FenceInit, FenceStep, <1>1, PTL DEF Spec

\* A row has a token and an expiry exactly while it is leased.
THEOREM LeaseColumnsAgree == Spec => []LeaseColumns
<1>1. FenceInv => LeaseColumns
  BY DEF FenceInv
<1> QED BY FenceInit, FenceStep, <1>1, PTL DEF Spec

\* Two agents never hold the same row, however late their requests come.
THEOREM OneHolder == Spec => []HolderFence
<1>1. FenceInv => HolderFence
  BY DEF FenceInv
<1> QED BY FenceInit, FenceStep, <1>1, PTL DEF Spec

\* Only its holder, a claim after its expiry or the deletion of its account
\* ends a lease.
THEOREM LeasesEndDuly == Spec => LeaseRespected
<1>1. FenceInv /\ [Next]_vars => [LeaseEndsDuly]_vars
  <2> SUFFICES ASSUME FenceInv, Next, NEW r \in Rows, token[r] # 0, token'[r] # token[r]
               PROVE  \/ \E s \in Sessions : /\ op[s] \in Outcomes /\ target[s] = {r}
                                             /\ op'[s] = "none" /\ status'[r] = op[s]
                      \/ lease[r] = "over" /\ token'[r] = issued' /\ issued' = issued + 1
                      \/ status'[r] = "purged"
    BY DEF LeaseEndsDuly
  <2> DEFINE Goal == \/ \E s \in Sessions : /\ op[s] \in Outcomes /\ target[s] = {r}
                                            /\ op'[s] = "none" /\ status'[r] = op[s]
                     \/ lease[r] = "over" /\ token'[r] = issued' /\ issued' = issued + 1
                     \/ status'[r] = "purged"
  <2> USE DEF FenceInv, TypeOK
  <2>1. ASSUME NEW q \in Rows, Claim(q) PROVE Goal
    BY <2>1 DEF Claim, Claimable, LeaseColumns
  <2>2. ASSUME NEW q \in Rows, Purge(q) \/ Tick(q) PROVE Goal
    BY <2>2 DEF Purge, Tick
  <2>3. ASSUME NEW s \in Sessions, Finish(s) PROVE Goal
    <3>1. r \in target[s]
      BY <2>3 DEF Finish
    <3>2. target[s] = {r}
      BY <2>3, <3>1 DEF Finish, HolderOps, OneRow
    <3> QED BY <2>3, <3>2 DEF Finish, End
  <2>4. ASSUME NEW s \in Sessions, CommitAdmin(s) PROVE Goal
    <3>1. Applies(op[s], status[r])
      BY <2>4 DEF CommitAdmin
    <3>2. status[r] = "leased"
      BY DEF LeaseColumns
    <3> QED BY <3>1, <3>2 DEF Applies
  <2>5. ASSUME \/ \E s \in Sessions, q \in Rows, t \in 1..issued : HoldLease(s, q, t)
               \/ \E s \in Sessions : Heartbeat(s) \/ BeginAdmin(s) \/ AbortDeadlocked(s)
               \/ AddAccounts \/ SetStatus
        PROVE  Goal
    BY <2>5 DEF HoldLease, Heartbeat, BeginAdmin, AbortDeadlocked, AddAccounts, SetStatus
  <2> QED BY <2>1, <2>2, <2>3, <2>4, <2>5 DEF Next
<1> QED BY FenceInit, FenceStep, <1>1, PTL DEF Spec, LeaseRespected

-----------------------------------------------------------------------------
(* Access                                                                  *)

ReadScopes == {"mail:read", "accounts:read", "jobs:read"}

\* What the table of routes has to be like: a write asks for a scope that is not one of these.
Sane(route) ==
  /\ route.effect \in {"reads", "asks", "writes"}
  /\ route.effect = "writes" => route.scope \notin ReadScopes \cup {Public}

LEMMA OpsAreSane ==
  ASSUME NEW scope, NEW effect, NEW names, NEW route \in Ops(scope, effect, names),
         effect \in {"reads", "asks", "writes"},
         effect = "writes" => scope \notin ReadScopes \cup {Public}
  PROVE  Sane(route)
BY DEF Ops, Sane

LEMMA RoutesAreSane == \A route \in Routes : Sane(route)
<1> USE OpsAreSane DEF ReadScopes, Public
<1>1. \A route \in AccountRoutes \cup BulkAndSecretRoutes \cup AuditRoutes : Sane(route)
  BY DEF AccountRoutes, BulkAndSecretRoutes, AuditRoutes
<1>2. \A route \in AuthRoutes \cup CodeRoutes \cup FleetRoutes : Sane(route)
  BY DEF AuthRoutes, CodeRoutes, FleetRoutes
<1>3. \A route \in DestinationRoutes \cup ForwardingRoutes \cup ImportRoutes : Sane(route)
  BY DEF DestinationRoutes, ForwardingRoutes, ImportRoutes
<1>4. \A route \in JobRoutes \cup JobControlRoutes \cup MailReadRoutes : Sane(route)
  BY DEF JobRoutes, JobControlRoutes, MailReadRoutes
<1>5. \A route \in MailWriteRoutes \cup GroupRoutes \cup LabelRoutes : Sane(route)
  BY DEF MailWriteRoutes, GroupRoutes, LabelRoutes
<1>6. \A route \in ProjectRoutes \cup ClaimRoutes \cup ProxyRoutes : Sane(route)
  BY DEF ProjectRoutes, ClaimRoutes, ProxyRoutes
<1>7. \A route \in RefreshRoutes \cup RetentionRoutes \cup SecurityRoutes : Sane(route)
  BY DEF RefreshRoutes, RetentionRoutes, SecurityRoutes
<1>8. \A route \in ShareRoutes \cup PublicShareRoutes \cup SystemRoutes : Sane(route)
  BY DEF ShareRoutes, PublicShareRoutes, SystemRoutes
<1> QED BY <1>1, <1>2, <1>3, <1>4, <1>5, <1>6, <1>7, <1>8 DEF Routes

\* Sane is about scope and effect only.
LEMMA DemandsAreSane == \A d \in Demands : Sane(d)
BY RoutesAreSane DEF Demands, Sane

-----------------------------------------------------------------------------
\* Everything the caller of a request may do now is noted in granted.
GrantsAreNoted ==
  \A r \in Requests :
    request[r].phase # "idle" => Granted(apiToken, request[r].caller) \subseteq request[r].granted

\* So are the scopes of the row it has matched, and those it is served with.
ScopesAreNoted ==
  \A r \in Requests :
    /\ request[r].phase = "touching" =>
         /\ request[r].caller \in Tokens /\ request[r].row \in Row
         /\ request[r].row.scopes \in request[r].granted
    /\ request[r].phase = "granted" => request[r].scopes \in request[r].granted

\* The last request ran on a route that its scopes allow.
ServedOnRoute ==
  served # None => /\ served.scopes \in served.granted
                   /\ \E d \in Demands : /\ d.effect = served.effect
                                         /\ Allows(served.scopes, d.scope)

AccessInv == AccessTypeOK /\ GrantsAreNoted /\ ScopesAreNoted /\ ServedOnRoute

LEMMA AccessInvInit == AccessInit => AccessInv
BY DEF AccessInit, AccessInv, AccessTypeOK, Request, Idle, Callers, GrantsAreNoted,
       ScopesAreNoted, ServedOnRoute

LEMMA GrantedIsGrants == \A tokens, c : Granted(tokens, c) \subseteq Grants \cup {Everything}
BY DEF Granted

\* What WithGrants does to a request.
LEMMA WithGrantsAdds ==
  ASSUME NEW requests \in [Requests -> Request], NEW tokens
  PROVE  /\ WithGrants(requests, tokens) \in [Requests -> Request]
         /\ \A r \in Requests :
              LET old == requests[r]
                  new == WithGrants(requests, tokens)[r]
              IN /\ new.phase = old.phase /\ new.caller = old.caller
                 /\ new.row = old.row /\ new.scopes = old.scopes
                 /\ old.granted \subseteq new.granted
                 /\ old.phase # "idle" => Granted(tokens, old.caller) \subseteq new.granted
BY GrantedIsGrants DEF WithGrants, Request

-----------------------------------------------------------------------------
\* A request moves on, or ends, and no token changes.
LEMMA RequestStep ==
  ASSUME AccessInv, NEW r \in Requests, NEW new \in Request,
         UNCHANGED <<setup, apiToken, served>>, request' = [request EXCEPT ![r] = new],
         new.phase # "idle" => Granted(apiToken, new.caller) \subseteq new.granted,
         new.phase = "touching" =>
           new.caller \in Tokens /\ new.row \in Row /\ new.row.scopes \in new.granted,
         new.phase = "granted" => new.scopes \in new.granted
  PROVE  AccessInv'
<1> USE DEF AccessInv, AccessTypeOK
<1>1. AccessTypeOK'
  OBVIOUS
<1>2. \A c : Granted(apiToken, c)' = Granted(apiToken, c')
  BY DEF Granted, Unguarded, Active
<1>3. GrantsAreNoted'
  BY <1>2 DEF GrantsAreNoted
<1>4. ScopesAreNoted'
  BY DEF ScopesAreNoted
<1>5. ServedOnRoute'
  BY DEF ServedOnRoute
<1> QED BY <1>1, <1>3, <1>4, <1>5

\* Tokens change, and the requests under way are told.
LEMMA TokenStep ==
  ASSUME AccessInv, NEW tokens \in [Tokens -> Row \cup {None}],
         NEW requests \in [Requests -> Request],
         setup' = setup, apiToken' = tokens, request' = WithGrants(requests, tokens),
         \A r \in Requests :
           /\ requests[r].phase = "touching" =>
                /\ requests[r].caller \in Tokens /\ requests[r].row \in Row
                /\ requests[r].row.scopes \in requests[r].granted
           /\ requests[r].phase = "granted" => requests[r].scopes \in requests[r].granted
  PROVE  /\ request' \in [Requests -> Request] /\ GrantsAreNoted' /\ ScopesAreNoted'
<1>1. GrantsAreNoted'
  <2> SUFFICES ASSUME NEW r \in Requests, request'[r].phase # "idle"
               PROVE  Granted(apiToken, request[r].caller)' \subseteq request'[r].granted
    BY DEF GrantsAreNoted
  <2>1. Granted(tokens, request'[r].caller) \subseteq request'[r].granted
    BY WithGrantsAdds
  <2>2. Granted(apiToken, request[r].caller)' = Granted(tokens, request'[r].caller)
    BY DEF Granted, Unguarded, Active
  <2> QED BY <2>1, <2>2
<1>2. ScopesAreNoted'
  BY WithGrantsAdds DEF ScopesAreNoted
<1> QED BY <1>1, <1>2, WithGrantsAdds

LEMMA AuthenticateStep ==
  ASSUME AccessInv, NEW r \in Requests,
         \/ \E c \in Callers : Begin(r, c)
         \/ MatchEnvironment(r) \/ Match(r) \/ NoMatch(r) \/ Bootstrap(r) \/ Refuse(r)
  PROVE  AccessInv'
<1> USE DEF AccessInv, AccessTypeOK
<1>0. /\ request[r] \in Request
      /\ request[r].phase # "idle" =>
           Granted(apiToken, request[r].caller) \subseteq request[r].granted
  BY DEF GrantsAreNoted
<1>1. ASSUME NEW c \in Callers, Begin(r, c) PROVE AccessInv'
  <2> DEFINE new == [Idle EXCEPT !.phase = "authenticating", !.caller = c,
                                 !.granted = Granted(apiToken, c)]
  <2>1. new \in Request
    BY GrantedIsGrants DEF Request, Idle
  <2> QED BY <1>1, <2>1, RequestStep DEF Begin, Idle
<1>2. CASE MatchEnvironment(r)
  <2> DEFINE new == [request[r] EXCEPT !.phase = "granted", !.scopes = Everything]
  <2>1. new \in Request
    BY <1>0 DEF Request
  <2>2. Everything \in request[r].granted
    BY <1>0, <1>2 DEF MatchEnvironment, Granted
  <2>3. /\ new.phase = "granted" /\ new.scopes = Everything
        /\ new.caller = request[r].caller /\ new.granted = request[r].granted
    BY <1>0 DEF Request
  <2>4. request' = [request EXCEPT ![r] = new] /\ UNCHANGED <<setup, apiToken, served>>
        /\ request[r].phase # "idle"
    BY <1>2 DEF MatchEnvironment
  <2> HIDE DEF new
  <2> QED BY <1>0, <2>1, <2>2, <2>3, <2>4, RequestStep
<1>3. CASE Match(r)
  <2> DEFINE t == request[r].caller
             new == [request[r] EXCEPT !.phase = "touching", !.row = apiToken[t]]
  <2>1. t \in Tokens /\ apiToken[t] \in Row /\ Active(apiToken[t])
    BY <1>3 DEF Match, Usable, Active
  <2>2. apiToken[t].scopes \in request[r].granted
    BY <1>0, <1>3, <2>1 DEF Match, Granted, Row
  <2>3. new \in Request
    BY <1>0, <2>1 DEF Request
  <2>4. /\ new.phase = "touching" /\ new.row = apiToken[t]
        /\ new.caller = t /\ new.granted = request[r].granted
    BY <1>0 DEF Request
  <2>5. request' = [request EXCEPT ![r] = new] /\ UNCHANGED <<setup, apiToken, served>>
        /\ request[r].phase # "idle"
    BY <1>3 DEF Match
  <2> HIDE DEF new
  <2> QED BY <1>0, <2>1, <2>2, <2>3, <2>4, <2>5, RequestStep
<1>4. CASE NoMatch(r)
  <2> DEFINE new == [request[r] EXCEPT !.phase = "unmatched"]
  <2>1. new \in Request
    BY <1>0 DEF Request
  <2> QED BY <1>0, <1>4, <2>1, RequestStep DEF NoMatch, Request
<1>5. CASE Bootstrap(r)
  <2>1. CASE Unguarded(apiToken)
    <3> DEFINE new == [request[r] EXCEPT !.phase = "granted", !.scopes = Everything]
    <3>1. new \in Request
      BY <1>0 DEF Request
    <3>2. Everything \in request[r].granted
      BY <1>0, <1>5, <2>1 DEF Bootstrap, Granted
    <3> QED BY <1>0, <1>5, <2>1, <3>1, <3>2, RequestStep DEF Bootstrap, Request
  <2>2. CASE ~Unguarded(apiToken)
    <3>1. Idle \in Request
      BY DEF Idle, Request, Callers
    <3> QED BY <1>5, <2>2, <3>1, RequestStep DEF Bootstrap, Idle
  <2> QED BY <2>1, <2>2
<1>6. CASE Refuse(r)
  <2>1. Idle \in Request
    BY DEF Idle, Request, Callers
  <2> QED BY <1>6, <2>1, RequestStep DEF Refuse, Idle
<1> QED BY <1>1, <1>2, <1>3, <1>4, <1>5, <1>6

\* Tokens change without a request that is served.
LEMMA LookupStep ==
  ASSUME AccessInv, \/ \E r \in Requests : Touch(r)
                    \/ \E t \in Tokens : Expire(t)
  PROVE  AccessInv'
<1> USE DEF AccessInv, AccessTypeOK
<1>1. ASSUME NEW r \in Requests, Touch(r) PROVE AccessInv'
  <2> DEFINE t == request[r].caller
             tokens == [apiToken EXCEPT ![t] = Touched(@, request[r].row)]
             requests == [request EXCEPT ![r].phase = "granted",
                                         ![r].scopes = request[r].row.scopes]
  <2>1. tokens \in [Tokens -> Row \cup {None}]
    BY DEF Touched
  <2>2. request[r].row.scopes \in request[r].granted /\ request[r].row.scopes \in Grants
    BY <1>1 DEF Touch, ScopesAreNoted, Row
  <2>3. requests \in [Requests -> Request]
    <3>1. [request[r] EXCEPT !.phase = "granted", !.scopes = request[r].row.scopes] \in Request
      BY <2>2 DEF Request
    <3>2. requests = [request EXCEPT ![r] = [request[r] EXCEPT
                        !.phase = "granted", !.scopes = request[r].row.scopes]]
      OBVIOUS
    <3> QED BY <3>1, <3>2
  <2>4. \A q \in Requests :
          /\ requests[q].phase = "touching" =>
               /\ requests[q].caller \in Tokens /\ requests[q].row \in Row
               /\ requests[q].row.scopes \in requests[q].granted
          /\ requests[q].phase = "granted" => requests[q].scopes \in requests[q].granted
    BY <2>2 DEF ScopesAreNoted, Request
  <2>5. setup' = setup /\ served' = served /\ apiToken' = tokens
        /\ request' = WithGrants(requests, tokens)
    BY <1>1 DEF Touch
  <2> HIDE DEF tokens, requests
  <2>6. request' \in [Requests -> Request] /\ GrantsAreNoted' /\ ScopesAreNoted'
    BY <2>1, <2>3, <2>4, <2>5, TokenStep
  <2>7. ServedOnRoute'
    BY <2>5 DEF ServedOnRoute
  <2> QED BY <2>1, <2>5, <2>6, <2>7
<1>2. ASSUME NEW t \in Tokens, Expire(t) PROVE AccessInv'
  <2> DEFINE tokens == [apiToken EXCEPT ![t].expires = "past"]
  <2>1. tokens \in [Tokens -> Row \cup {None}]
    BY <1>2 DEF Expire, Row
  <2>2. setup' = setup /\ served' = served /\ apiToken' = tokens
        /\ request' = WithGrants(request, tokens)
    BY <1>2 DEF Expire
  <2> HIDE DEF tokens
  <2>3. request' \in [Requests -> Request] /\ GrantsAreNoted' /\ ScopesAreNoted'
    BY <2>1, <2>2, TokenStep DEF ScopesAreNoted
  <2>4. ServedOnRoute'
    BY <2>2 DEF ServedOnRoute
  <2> QED BY <2>1, <2>2, <2>3, <2>4
<1> QED BY <1>1, <1>2

\* A request is served; the routes of tokens change them.
LEMMA ServeStep ==
  ASSUME AccessInv, NEW r \in Requests,
         \/ Serve(r)
         \/ \E t \in Tokens :
              \/ \E g \in Grants, e \in {"never", "later"} : CreateToken(r, t, g, e)
              \/ RevokeToken(r, t)
  PROVE  AccessInv'
<1> USE DEF AccessInv, AccessTypeOK
<1>1. Idle \in Request /\ Idle.phase = "idle"
  BY DEF Idle, Request, Callers
<1>2. CASE Serve(r)
  <2>1. PICK d \in Demands : Permitted(r, d) /\ served' = Answered(r, d.effect)
    BY <1>2 DEF Serve
  <2>2. served'.effect \in {"reads", "asks", "writes"} /\ ServedOnRoute'
    BY <1>2, <2>1, DemandsAreSane DEF Serve, Sane, Answered, Permitted, ServedOnRoute,
       ScopesAreNoted
  <2>3. request' = [request EXCEPT ![r] = Idle] /\ UNCHANGED <<setup, apiToken>>
    BY <1>2 DEF Serve
  <2>4. GrantsAreNoted' /\ ScopesAreNoted'
    <3>1. \A c : Granted(apiToken, c)' = Granted(apiToken, c')
      BY <2>3 DEF Granted, Unguarded, Active
    <3> QED BY <1>1, <2>3, <3>1 DEF GrantsAreNoted, ScopesAreNoted
  <2> QED BY <1>1, <2>2, <2>3, <2>4
<1>3. ASSUME NEW tokens \in [Tokens -> Row \cup {None}],
             NEW name, Change(r, name, tokens)
      PROVE  AccessInv'
  <2> DEFINE requests == [request EXCEPT ![r] = Idle]
  <2>1. requests \in [Requests -> Request]
    BY <1>1
  <2>2. \A q \in Requests :
          /\ requests[q].phase = "touching" =>
               /\ requests[q].caller \in Tokens /\ requests[q].row \in Row
               /\ requests[q].row.scopes \in requests[q].granted
          /\ requests[q].phase = "granted" => requests[q].scopes \in requests[q].granted
    BY <1>1 DEF ScopesAreNoted
  <2>3. setup' = setup /\ apiToken' = tokens /\ request' = WithGrants(requests, tokens)
    BY <1>3 DEF Change
  <2>4. served'.effect \in {"reads", "asks", "writes"} /\ ServedOnRoute'
    <3>1. PICK route \in AuthRoutes : Permitted(r, route) /\ served' = Answered(r, route.effect)
      BY <1>3 DEF Change
    <3>2. [scope |-> route.scope, effect |-> route.effect] \in Demands
      BY DEF Demands, Routes
    <3> DEFINE d == [scope |-> route.scope, effect |-> route.effect]
    <3>3. Sane(d) /\ d.effect = route.effect /\ d.scope = route.scope
      BY <3>2, DemandsAreSane
    <3> QED BY <1>3, <3>1, <3>2, <3>3 DEF Change, Sane, Answered, Permitted, ServedOnRoute,
               ScopesAreNoted
  <2> HIDE DEF requests
  <2>5. request' \in [Requests -> Request] /\ GrantsAreNoted' /\ ScopesAreNoted'
    BY <2>1, <2>2, <2>3, TokenStep
  <2> QED BY <2>3, <2>4, <2>5
<1>4. ASSUME NEW t \in Tokens, NEW g \in Grants, NEW e \in {"never", "later"},
             CreateToken(r, t, g, e)
      PROVE  AccessInv'
  <2> DEFINE tokens == [apiToken EXCEPT ![t] = [state |-> "active", scopes |-> g, expires |-> e]]
  <2>1. tokens \in [Tokens -> Row \cup {None}]
    BY DEF Row
  <2> QED BY <1>3, <1>4, <2>1 DEF CreateToken
<1>5. ASSUME NEW t \in Tokens, RevokeToken(r, t) PROVE AccessInv'
  <2> DEFINE tokens == [apiToken EXCEPT ![t].state = "revoked"]
  <2>1. tokens \in [Tokens -> Row \cup {None}]
    BY <1>5 DEF RevokeToken, Row
  <2> QED BY <1>3, <1>5, <2>1 DEF RevokeToken
<1> QED BY <1>2, <1>4, <1>5

LEMMA AccessStep == AccessInv /\ [AccessNext]_accessVars => AccessInv'
<1> SUFFICES ASSUME AccessInv, [AccessNext]_accessVars PROVE AccessInv'
  OBVIOUS
<1>1. CASE AccessNext
  BY <1>1, AuthenticateStep, LookupStep, ServeStep DEF AccessNext
<1>2. CASE UNCHANGED accessVars
  <2>1. \A c : Granted(apiToken, c)' = Granted(apiToken, c')
    BY <1>2 DEF accessVars, Granted, Unguarded, Active
  <2> QED BY <1>2, <2>1 DEF accessVars, AccessInv, AccessTypeOK, GrantsAreNoted, ScopesAreNoted,
             ServedOnRoute
<1> QED BY <1>1, <1>2

LEMMA AccessInvariant == AccessSpec => []AccessInv
BY AccessInvInit, AccessStep, PTL DEF AccessSpec

-----------------------------------------------------------------------------
\* Tokens, requests and what was served have the form AccessTypeOK states.
THEOREM AccessTypes == AccessSpec => []AccessTypeOK
<1>1. AccessInv => AccessTypeOK
  BY DEF AccessInv
<1> QED BY AccessInvariant, <1>1, PTL

\* Whatever is served was allowed to its caller while it was under way, and a
\* caller with read scopes changes nothing, however tokens lapse and are
\* created or revoked meanwhile.
THEOREM ServedIsGranted == AccessSpec => []ServedAsGranted
<1>1. AccessInv => ServedAsGranted
  <2> SUFFICES ASSUME AccessInv, served # None PROVE
        /\ served.scopes \in served.granted
        /\ (\A s \in served.scopes : s \in ReadScopes) => served.effect # "writes"
    BY DEF ServedAsGranted, ServedWasGranted, ReadersOnlyRead, ReadScopes
  <2>1. PICK d \in Demands : d.effect = served.effect /\ Allows(served.scopes, d.scope)
    BY DEF AccessInv, ServedOnRoute
  <2>2. (\A s \in served.scopes : s \in ReadScopes) => "*" \notin served.scopes
    BY DEF ReadScopes
  <2> QED BY <2>1, <2>2, DemandsAreSane DEF AccessInv, ServedOnRoute, Sane, Allows
<1> QED BY AccessInvariant, <1>1, PTL

\* A revoked token stays revoked.
THEOREM RevokedForGood == AccessSpec => RevocationIsFinal
<1> DEFINE Final == \A t \in Tokens :
                      apiToken[t] # None =>
                        /\ apiToken'[t] # None
                        /\ apiToken[t].state = "revoked" => apiToken'[t].state = "revoked"
<1>1. AccessInv /\ [AccessNext]_accessVars => [Final]_accessVars
  <2> SUFFICES ASSUME AccessInv, AccessNext, NEW t \in Tokens, apiToken[t] # None
               PROVE  /\ apiToken'[t] # None
                      /\ apiToken[t].state = "revoked" => apiToken'[t].state = "revoked"
    OBVIOUS
  <2> DEFINE Goal == /\ apiToken'[t] # None
                     /\ apiToken[t].state = "revoked" => apiToken'[t].state = "revoked"
  <2> USE DEF AccessInv, AccessTypeOK
  <2>1. ASSUME UNCHANGED apiToken PROVE Goal
    BY <2>1
  <2>2. ASSUME NEW r \in Requests, Touch(r) PROVE Goal
    BY <2>2 DEF Touch, Touched
  <2>3. ASSUME NEW r \in Requests, NEW u \in Tokens, NEW g \in Grants, NEW e \in {"never", "later"},
               CreateToken(r, u, g, e)
        PROVE  Goal
    BY <2>3 DEF CreateToken, Change
  <2>4. ASSUME NEW r \in Requests, NEW u \in Tokens, RevokeToken(r, u) PROVE Goal
    <3>1. [apiToken[u] EXCEPT !.state = "revoked"] \in Row
      BY <2>4 DEF RevokeToken, Row
    <3> QED BY <2>4, <3>1, NoneIsNoRow DEF RevokeToken, Change, Row
  <2>5. ASSUME NEW u \in Tokens, Expire(u) PROVE Goal
    <3>1. [apiToken[u] EXCEPT !.expires = "past"] \in Row
      BY <2>5 DEF Expire, Row
    <3> QED BY <2>5, <3>1, NoneIsNoRow DEF Expire, Row
  <2>6. ASSUME NEW r \in Requests,
               \/ \E c \in Callers : Begin(r, c)
               \/ MatchEnvironment(r) \/ Match(r) \/ NoMatch(r) \/ Bootstrap(r)
               \/ Serve(r) \/ Refuse(r)
        PROVE  Goal
    BY <2>1, <2>6 DEF Begin, MatchEnvironment, Match, NoMatch, Bootstrap, Serve, Refuse
  <2> QED BY <2>2, <2>3, <2>4, <2>5, <2>6 DEF AccessNext
<1> QED BY AccessInvariant, <1>1, PTL DEF AccessSpec, RevocationIsFinal

-----------------------------------------------------------------------------
(* Shares                                                                  *)

\* A visit that may still be told something began when its link was active,
\* and asks for a folder of it; a link that a visit waits for is the one it
\* was, or has been revoked or has lapsed.
VisitInv ==
  \A v \in Visits :
    LET began == visit[v].began
        now == link[visit[v].link] IN
    /\ visit[v].phase = "asking" =>
         /\ visit[v].link \in Links
         /\ now # None =>
              began # None /\ began.folders = now.folders /\
              (now.status = "active" => began.status = "active")
    /\ visit[v].phase \in {"read", "open", "status", "live", "retained"} =>
         /\ visit[v].link \in Links
         /\ began # None /\ began.status = "active"
         /\ visit[v].folder # None => visit[v].folder \in began.folders
    /\ visit[v].phase \in {"read", "open"} => visit[v].read \in Link

ShareInv == ShareTypeOK /\ VisitInv

LEMMA ShareInvInit == ShareInit => ShareInv
BY DEF ShareInit, ShareInv, ShareTypeOK, VisitInv, NoVisit, Sources

\* Links go, lapse or are revoked, and the time of a visit is noted: a link
\* that stays keeps its folders, and is active only if it was.
LEMMA LinkStep ==
  ASSUME ShareInv, link' \in [Links -> Link \cup {None}], mailbox' \subseteq Mailboxes,
         visit' = visit,
         \A l \in Links : link'[l] # None /\ (\E v \in Visits : visit[v].link = l) =>
           /\ link[l] # None /\ link'[l].folders = link[l].folders
           /\ link'[l].status = "active" => link[l].status = "active"
  PROVE  ShareInv'
<1>1. ShareTypeOK'
  BY DEF ShareInv, ShareTypeOK
<1>2. VisitInv'
  BY DEF ShareInv, VisitInv
<1> QED BY <1>1, <1>2 DEF ShareInv

\* What a step makes of the links.
LEMMA LinkFates ==
  ASSUME ShareInv,
         \/ \E l \in Links : RevokeShare(l) \/ DeleteShare(l) \/ Lapse(l) \/ Forget(l)
         \/ \E a \in Mailboxes : PurgeMailbox(a)
  PROVE  /\ link' \in [Links -> Link \cup {None}] /\ mailbox' \subseteq Mailboxes /\ visit' = visit
         /\ \A l \in Links : link'[l] # None =>
              /\ link[l] # None /\ link'[l].folders = link[l].folders
              /\ link'[l].status = "active" => link[l].status = "active"
              /\ link[l].status = "revoked" => link'[l].status = "revoked"
<1> USE DEF ShareInv, ShareTypeOK
<1> DEFINE Goal ==
      /\ link' \in [Links -> Link \cup {None}] /\ mailbox' \subseteq Mailboxes /\ visit' = visit
      /\ \A l \in Links : link'[l] # None =>
           /\ link[l] # None /\ link'[l].folders = link[l].folders
           /\ link'[l].status = "active" => link[l].status = "active"
           /\ link[l].status = "revoked" => link'[l].status = "revoked"
<1>1. ASSUME NEW l \in Links, RevokeShare(l) PROVE Goal
  BY <1>1 DEF RevokeShare, Link
<1>2. ASSUME NEW l \in Links, DeleteShare(l) PROVE Goal
  BY <1>2 DEF DeleteShare, Link
<1>3. ASSUME NEW l \in Links, Lapse(l) PROVE Goal
  BY <1>3 DEF Lapse, Link
<1>4. ASSUME NEW l \in Links, Forget(l) PROVE Goal
  BY <1>4 DEF Forget, Link
<1>5. ASSUME NEW a \in Mailboxes, PurgeMailbox(a) PROVE Goal
  BY <1>5 DEF PurgeMailbox
<1> QED BY <1>1, <1>2, <1>3, <1>4, <1>5

LEMMA ShareInvStep == ShareInv /\ [ShareNext]_shareVars => ShareInv'
<1> SUFFICES ASSUME ShareInv, [ShareNext]_shareVars PROVE ShareInv'
  OBVIOUS
<1> USE DEF ShareInv, ShareTypeOK
<1>1. ASSUME NEW l \in Links, NEW a \in Mailboxes, NEW folders \in (SUBSET Folders) \ {{}},
             NEW expires \in BOOLEAN, CreateShare(l, a, folders, expires)
      PROVE  ShareInv'
  <2>1. link' \in [Links -> Link \cup {None}]
    BY <1>1 DEF CreateShare, Link
  <2>2. /\ mailbox' = mailbox /\ visit' = visit /\ \A v \in Visits : visit[v].link # l
        /\ \A k \in Links \ {l} : link'[k] = link[k]
    BY <1>1 DEF CreateShare
  <2>3. VisitInv'
    BY <2>2 DEF VisitInv
  <2> QED BY <2>1, <2>2, <2>3
<1>2. CASE \/ \E l \in Links : RevokeShare(l) \/ DeleteShare(l) \/ Lapse(l) \/ Forget(l)
           \/ \E a \in Mailboxes : PurgeMailbox(a)
  BY <1>2, LinkFates, LinkStep
<1>3. ASSUME NEW v \in Visits, NEW l \in Links, NEW folder \in Folders \cup {None},
             NEW source \in Sources, Visiting(v, l, folder, source)
      PROVE  ShareInv'
  <2>1. /\ visit' = [visit EXCEPT ![v] = [phase |-> "asking", link |-> l, folder |-> folder,
                                          source |-> source, read |-> None, began |-> link[l]]]
        /\ UNCHANGED <<mailbox, link>>
    BY <1>3 DEF Visiting
  <2> QED BY <2>1 DEF VisitInv
<1>4. ASSUME NEW v \in Visits, ReadLink(v) PROVE ShareInv'
  <2> DEFINE row == link[visit[v].link]
  <2>1. visit[v].link \in Links /\ visit[v].phase = "asking" /\ UNCHANGED <<mailbox, link>>
    BY <1>4 DEF ReadLink, VisitInv
  <2>2. CASE Opens(row, visit[v].folder)
    <3>1. visit' = [visit EXCEPT ![v].phase = "read", ![v].read = row] /\ row \in Link
      BY <1>4, <2>1, <2>2 DEF ReadLink, Opens
    <3>2. /\ visit[v].began # None /\ visit[v].began.status = "active"
          /\ visit[v].folder # None => visit[v].folder \in visit[v].began.folders
      BY <2>1, <2>2 DEF Opens, VisitInv
    <3> HIDE DEF row
    <3>3. /\ visit'[v].phase = "read" /\ visit'[v].read = row
          /\ visit'[v].link = visit[v].link /\ visit'[v].began = visit[v].began
          /\ visit'[v].folder = visit[v].folder
          /\ \A w \in Visits \ {v} : visit'[w] = visit[w]
      BY <3>1
    <3>4. ShareTypeOK'
      <4>1. visit' = [visit EXCEPT ![v] = [visit[v] EXCEPT !.phase = "read", !.read = row]]
        BY <3>1
      <4>2. row \in Link \cup {None}
        BY <3>1
      <4> QED BY <2>1, <4>1, <4>2
    <3>5. VisitInv'
      BY <2>1, <3>1, <3>2, <3>3 DEF VisitInv
    <3> QED BY <3>4, <3>5
  <2>3. CASE ~Opens(row, visit[v].folder)
    <3>1. visit' = [visit EXCEPT ![v].phase = "refused"]
      BY <1>4, <2>3 DEF ReadLink, Ended
    <3> QED BY <2>1, <3>1 DEF VisitInv
  <2> QED BY <2>2, <2>3
<1>5. ASSUME NEW v \in Visits, NEW phase \in {"open", "status", "live", "retained", "refused"},
             visit' = Ended(v, phase), UNCHANGED mailbox,
             phase # "refused" => visit[v].phase \in {"read", "open"},
             link' \in [Links -> Link \cup {None}],
             \A l \in Links :
               IF link[l] = None THEN link'[l] = None
               ELSE link'[l].folders = link[l].folders /\ link'[l].status = link[l].status
      PROVE  ShareInv'
  <2>1. visit' = [visit EXCEPT ![v].phase = phase]
    BY <1>5 DEF Ended
  <2>2. ShareTypeOK'
    BY <1>5, <2>1
  <2>3. \A w \in Visits \ {v} : visit'[w] = visit[w]
    BY <2>1
  <2>4. /\ visit'[v].phase = phase /\ visit'[v].link = visit[v].link
        /\ visit'[v].began = visit[v].began /\ visit'[v].folder = visit[v].folder
        /\ visit'[v].read = visit[v].read
    BY <2>1
  <2>5. VisitInv'
    BY <1>5, <2>3, <2>4 DEF VisitInv
  <2> QED BY <2>2, <2>5
<1>6. ASSUME NEW v \in Visits, NoteVisit(v) PROVE ShareInv'
  <2> DEFINE l == visit[v].link
             due == visit[v].read.seen # "just"
  <2>1. visit[v].phase = "read" /\ UNCHANGED mailbox /\ l \in Links
    BY <1>6 DEF NoteVisit, VisitInv
  <2>2. CASE visit[v].read.mailbox \notin mailbox \/ (due /\ link[l] = None)
    <3>1. visit' = Ended(v, "refused") /\ link' = link
      BY <1>6, <2>2 DEF NoteVisit
    <3> QED BY <1>5, <2>1, <3>1
  <2>3. CASE ~(visit[v].read.mailbox \notin mailbox \/ (due /\ link[l] = None))
    <3>1. /\ link' = IF due THEN [link EXCEPT ![l] = Seen(@, visit[v].read)] ELSE link
          /\ visit' = Ended(v, IF visit[v].folder = None THEN "status" ELSE "open")
      BY <1>6, <2>3 DEF NoteVisit
    <3>2. due => link[l] \in Link
      BY <2>1, <2>3
    <3> HIDE DEF due, l
    <3>3. /\ link' \in [Links -> Link \cup {None}]
          /\ \A k \in Links :
               IF link[k] = None THEN link'[k] = None
               ELSE link'[k].folders = link[k].folders /\ link'[k].status = link[k].status
      BY <2>1, <2>3, <3>1, <3>2 DEF Seen, Link
    <3> QED BY <1>5, <2>1, <3>1, <3>3
  <2> QED BY <2>2, <2>3
<1>7. ASSUME NEW v \in Visits, Live(v) \/ Retained(v) PROVE ShareInv'
  BY <1>5, <1>7 DEF Live, Retained
<1>8. ASSUME NEW v \in Visits, LiveFails(v) PROVE ShareInv'
  <2>1. visit[v].phase = "open" /\ UNCHANGED <<mailbox, link>>
    BY <1>8 DEF LiveFails
  <2>2. CASE visit' = [visit EXCEPT ![v].source = "retained"]
    BY <2>1, <2>2 DEF VisitInv, Sources
  <2>3. CASE visit' = Ended(v, "refused")
    BY <1>5, <2>1, <2>3
  <2> QED BY <1>8, <2>2, <2>3 DEF LiveFails
<1>9. CASE UNCHANGED shareVars
  BY <1>9 DEF shareVars, VisitInv
<1> HIDE DEF ShareInv, ShareTypeOK
<1> QED BY <1>1, <1>2, <1>3, <1>4, <1>6, <1>7, <1>8, <1>9 DEF ShareNext

\* A link of which nobody asks that it be active again.
LEMMA RevokedStep ==
  ASSUME ShareInv, [ShareNext]_shareVars, NEW l \in Links, link[l] # None,
         link[l].status = "revoked", link'[l] # None
  PROVE  link'[l].status = "revoked"
<1> USE DEF ShareInv, ShareTypeOK
<1>1. ASSUME NEW k \in Links, NEW a, NEW folders, NEW expires, CreateShare(k, a, folders, expires)
      PROVE  link'[l] = link[l]
  BY <1>1 DEF CreateShare
<1>2. ASSUME NEW v \in Visits, NoteVisit(v) PROVE link'[l].status = "revoked"
  <2>1. link' = link \/ (visit[v].link \in Links /\
                         link' = [link EXCEPT ![visit[v].link] = Seen(@, visit[v].read)])
    BY <1>2 DEF NoteVisit, VisitInv
  <2>2. link[l] \in Link
    OBVIOUS
  <2> QED BY <2>1, <2>2 DEF Seen, Link
<1>3. ASSUME NEW v \in Visits,
             \/ \E k \in Links, folder \in Folders \cup {None}, source \in Sources :
                  Visiting(v, k, folder, source)
             \/ ReadLink(v) \/ Live(v) \/ LiveFails(v) \/ Retained(v)
      PROVE  link' = link
  BY <1>3 DEF Visiting, ReadLink, Live, LiveFails, Retained
<1>4. CASE UNCHANGED shareVars
  BY <1>4 DEF shareVars
<1> QED BY <1>1, <1>2, <1>3, <1>4, LinkFates DEF ShareNext

\* Visits, links and accounts keep their types.
THEOREM ShareTypes == ShareSpec => []ShareTypeOK
<1>1. ShareInv => ShareTypeOK
  BY DEF ShareInv
<1> QED BY <1>1, ShareInvInit, ShareInvStep, PTL DEF ShareSpec

\* resolve_email_share and what follows show only what was shared when the
\* visit began, and no visit makes a revoked link active again.
THEOREM SharesAreHeld == ShareSpec => SharesHold
<1>1. ShareInv /\ [ShareNext]_shareVars =>
        [\A l \in Links :
           link[l] # None => (link[l].status = "revoked" =>
                               (link'[l] # None => link'[l].status = "revoked"))]_shareVars
  BY RevokedStep
<1>2. ShareInv => ShownAsShared
  BY DEF ShareInv, VisitInv, ShownAsShared
<1>3. ShareSpec => []ShareInv /\ [][ShareNext]_shareVars
  BY ShareInvInit, ShareInvStep, PTL DEF ShareSpec
<1>4. ShareSpec => LinkStaysRevoked
  BY <1>1, <1>3, PTL DEF LinkStaysRevoked
<1>5. ShareSpec => [][ShownAsShared']_shareVars
  BY <1>2, <1>3, PTL
<1> QED BY <1>4, <1>5 DEF SharesHold

-----------------------------------------------------------------------------
(* ProxyHealth: types                                                      *)

ProxySession ==
  [kind: {"idle", "assign", "probe", "delete"}, profile: Profiles \cup {None},
   account: Owners \cup {None}, read: Owner \cup {None},
   seen: Results \cup {"unknown", None}, endpoint: Nat, locked: SUBSET Owners]

\* What a session works on.
Working(s) ==
  LET r == proxying[s] IN
  /\ r.kind = "assign" => r.account \in Owners /\ r.read \in Owner
  /\ r.kind = "probe" => r.profile \in Profiles /\ r.seen # None
  /\ r.kind = "delete" => r.profile \in Profiles

ProxyTypeInv ==
  /\ profileHealth \in [Profiles -> Results \cup {"unknown", None}]
  /\ owner \in [Owners -> Owner]
  /\ proxying \in [ProxySessions -> ProxySession]
  /\ crossed \subseteq Owners /\ raced \subseteq Profiles
  /\ \A s \in ProxySessions : Working(s)

LEMMA UnoccupiedType == Unoccupied \in ProxySession
BY DEF Unoccupied, ProxySession

LEMMA ProxyTypeInit == ProxyInit => ProxyTypeInv
<1> SUFFICES ASSUME ProxyInit PROVE ProxyTypeInv
  OBVIOUS
<1>1. proxying \in [ProxySessions -> ProxySession]
  BY UnoccupiedType DEF ProxyInit
<1>2. \A s \in ProxySessions : Working(s)
  BY DEF ProxyInit, Working, Unoccupied
<1> QED BY <1>1, <1>2 DEF ProxyInit, ProxyTypeInv, Owner

\* A session begins or goes on, or ends.
LEMMA ProxySessionStep ==
  ASSUME ProxyTypeInv, NEW s \in ProxySessions, NEW new \in ProxySession,
         proxying' = [proxying EXCEPT ![s] = new], Working(s)'
  PROVE  proxying' \in [ProxySessions -> ProxySession] /\ \A t \in ProxySessions : Working(t)'
<1>1. ASSUME NEW t \in ProxySessions, t # s PROVE Working(t)'
  BY <1>1 DEF ProxyTypeInv, Working
<1> QED BY <1>1 DEF ProxyTypeInv

LEMMA FreedType ==
  ASSUME ProxyTypeInv, NEW s \in ProxySessions, proxying' = Freed(s)
  PROVE  proxying' \in [ProxySessions -> ProxySession] /\ \A t \in ProxySessions : Working(t)'
<1>1. proxying' = [proxying EXCEPT ![s] = Unoccupied]
  BY DEF Freed
<1>2. Working(s)'
  BY <1>1 DEF Working, Unoccupied, ProxyTypeInv
<1> QED BY <1>1, <1>2, UnoccupiedType, ProxySessionStep

LEMMA AssignedType ==
  ASSUME NEW old, NEW x \in Profiles \cup {None} PROVE Assigned(old, x) \in Owner
BY DEF Assigned, Owner

LEMMA ProxyTypeStep == ProxyTypeInv /\ [ProxyNext]_proxyVars => ProxyTypeInv'
<1> SUFFICES ASSUME ProxyTypeInv, [ProxyNext]_proxyVars PROVE ProxyTypeInv'
  OBVIOUS
<1> USE DEF ProxyTypeInv
<1>1. ASSUME NEW x \in Profiles, Create(x) PROVE ProxyTypeInv'
  BY <1>1 DEF Create, Working
<1>2. ASSUME NEW s \in ProxySessions, NEW a \in Owners, NEW x \in Profiles \cup {None},
             OpenAssign(s, a, x)
      PROVE  ProxyTypeInv'
  <2> DEFINE new == [Unoccupied EXCEPT !.kind = "assign", !.profile = x, !.account = a,
                                       !.read = owner[a]]
  <2>1. new \in ProxySession
    BY UnoccupiedType DEF ProxySession
  <2>2. /\ proxying' = [proxying EXCEPT ![s] = new]
        /\ UNCHANGED <<profileHealth, owner, crossed, raced>>
    BY <1>2 DEF OpenAssign
  <2>3. Working(s)'
    BY <2>2 DEF Working, Unoccupied
  <2> QED BY <2>1, <2>2, <2>3, ProxySessionStep
<1>3. ASSUME NEW s \in ProxySessions, CommitAssign(s) PROVE ProxyTypeInv'
  <2> DEFINE r == proxying[s]
             a == r.account
             new == Assigned(r.read, r.profile)
  <2>1. /\ a \in Owners /\ r.read \in Owner /\ owner[a] \in Owner /\ new \in Owner
        /\ proxying' = Freed(s) /\ UNCHANGED <<profileHealth, raced>>
    BY <1>3, AssignedType DEF CommitAssign, Working, ProxySession
  <2>2. owner' = [owner EXCEPT ![a] =
          [proxy  |-> IF new.proxy = r.read.proxy THEN @.proxy ELSE new.proxy,
           health |-> IF new.health = r.read.health THEN @.health ELSE new.health]]
    BY <1>3 DEF CommitAssign
  <2> HIDE DEF new
  <2>3. owner' \in [Owners -> Owner]
    BY <2>1, <2>2 DEF Owner
  <2>4. crossed' \subseteq Owners
    <3>1. crossed' = crossed \cup {a} \/ crossed' = crossed \ {a}
      BY <1>3, Zenon DEF CommitAssign
    <3> QED BY <2>1, <3>1
  <2> QED BY <2>1, <2>3, <2>4, FreedType
<1>4. ASSUME NEW s \in ProxySessions, NEW x \in Profiles, OpenProbe(s, x) PROVE ProxyTypeInv'
  <2> DEFINE new == [Unoccupied EXCEPT !.kind = "probe", !.profile = x, !.seen = profileHealth[x],
                                       !.endpoint = 1]
  <2>1. new \in ProxySession
    BY UnoccupiedType DEF ProxySession
  <2>2. /\ proxying' = [proxying EXCEPT ![s] = new] /\ profileHealth[x] # None
        /\ UNCHANGED <<profileHealth, owner, crossed, raced>>
    BY <1>4 DEF OpenProbe, Existing
  <2>3. Working(s)'
    BY <2>2 DEF Working, Unoccupied
  <2> QED BY <2>1, <2>2, <2>3, ProxySessionStep
<1>5. ASSUME NEW s \in ProxySessions, TryNext(s) PROVE ProxyTypeInv'
  <2> DEFINE new == [proxying[s] EXCEPT !.endpoint = @ + 1]
  <2>1. new \in ProxySession
    BY DEF ProxySession
  <2>2. /\ proxying' = [proxying EXCEPT ![s] = new]
        /\ UNCHANGED <<profileHealth, owner, crossed, raced>>
    BY <1>5 DEF TryNext
  <2>3. Working(s)'
    BY <2>2 DEF Working, ProxySession
  <2> QED BY <2>1, <2>2, <2>3, ProxySessionStep
<1>6. ASSUME NEW s \in ProxySessions, NEW result \in Results, RecordProbe(s, result)
      PROVE  ProxyTypeInv'
  <2> DEFINE x == proxying[s].profile
  <2>1. x \in Profiles /\ proxying' = Freed(s) /\ crossed' = crossed
    BY <1>6 DEF RecordProbe, Working
  <2>2. profileHealth' \in [Profiles -> Results \cup {"unknown", None}] /\ raced' \subseteq Profiles
    BY <1>6, <2>1 DEF RecordProbe
  <2>3. owner' \in [Owners -> Owner]
    <3>1. owner' = Told(x, result)
      BY <1>6 DEF RecordProbe
    <3> QED BY <3>1 DEF Told, Owner
  <2> QED BY <2>1, <2>2, <2>3, FreedType
<1>7. ASSUME NEW s \in ProxySessions, NEW x \in Profiles, OpenDelete(s, x) PROVE ProxyTypeInv'
  <2> DEFINE L == {a \in Owners : owner[a].proxy = x}
             new == [Unoccupied EXCEPT !.kind = "delete", !.profile = x, !.locked = L]
  <2>1. L \in SUBSET Owners
    OBVIOUS
  <2>2. /\ proxying' = [proxying EXCEPT ![s] = new]
        /\ UNCHANGED <<profileHealth, owner, crossed, raced>>
    BY <1>7 DEF OpenDelete
  <2> HIDE DEF L
  <2>3. new \in ProxySession
    BY <2>1, UnoccupiedType DEF ProxySession
  <2>4. Working(s)'
    BY <2>2 DEF Working, Unoccupied
  <2> QED BY <2>2, <2>3, <2>4, ProxySessionStep
<1>8. ASSUME NEW s \in ProxySessions, CommitDelete(s) PROVE ProxyTypeInv'
  <2>1. /\ owner' \in [Owners -> Owner]
        /\ profileHealth' \in [Profiles -> Results \cup {"unknown", None}]
    BY <1>8 DEF CommitDelete, Released, Owner
  <2> QED BY <1>8, <2>1, FreedType DEF CommitDelete
<1>9. ASSUME NEW s \in ProxySessions, Fail(s) PROVE ProxyTypeInv'
  BY <1>9, FreedType DEF Fail
<1>10. CASE UNCHANGED proxyVars
  BY <1>10 DEF proxyVars, Working
<1> HIDE DEF ProxyTypeInv
<1> QED BY <1>1, <1>2, <1>3, <1>4, <1>5, <1>6, <1>7, <1>8, <1>9, <1>10 DEF ProxyNext

-----------------------------------------------------------------------------
(* ProxyHealth: accounts and profiles agree                                *)

\* An account has a profile that is there.
ForeignKey == \A a \in Owners : owner[a].proxy # None => owner[a].proxy \in Existing

\* A deletion has locked the accounts it will release, but those that were put
\* under the profile meanwhile.
DeleteInv ==
  \A s \in ProxySessions : proxying[s].kind = "delete" =>
    \A a \in Owners \ crossed : owner[a].proxy = proxying[s].profile => a \in proxying[s].locked

ProxyInv == ForeignKey /\ DeleteInv /\ HealthAgrees

LEMMA ProxyInvInit == ProxyInit => ProxyInv
BY ProxyAssumption DEF ProxyInit, ProxyInv, ForeignKey, DeleteInv, HealthAgrees, Unoccupied

LEMMA ProxyInvStep == ProxyTypeInv /\ ProxyInv /\ [ProxyNext]_proxyVars => ProxyInv'
<1> SUFFICES ASSUME ProxyTypeInv, ProxyInv, [ProxyNext]_proxyVars PROVE ProxyInv'
  OBVIOUS
<1> USE DEF ProxyTypeInv
<1>1. ASSUME NEW x \in Profiles, Create(x) PROVE ProxyInv'
  <2>1. /\ profileHealth' = [profileHealth EXCEPT ![x] = "unknown"] /\ profileHealth[x] = None
        /\ UNCHANGED <<owner, proxying, crossed, raced>>
    BY <1>1 DEF Create
  <2>2. \A a \in Owners : owner[a].proxy # x
    BY <2>1, ProxyAssumption DEF ProxyInv, ForeignKey, Existing
  <2>3. ForeignKey' /\ DeleteInv'
    BY <2>1 DEF ProxyInv, ForeignKey, DeleteInv, Existing
  <2>4. HealthAgrees'
    BY <2>1, <2>2 DEF ProxyInv, HealthAgrees
  <2> QED BY <2>3, <2>4 DEF ProxyInv
<1>2. ASSUME NEW s \in ProxySessions, proxying'[s].kind # "delete",
             \A t \in ProxySessions \ {s} : proxying'[t] = proxying[t],
             UNCHANGED <<profileHealth, owner, crossed, raced>>
      PROVE  ProxyInv'
  BY <1>2 DEF ProxyInv, ForeignKey, DeleteInv, HealthAgrees, Existing
<1>3. ASSUME NEW s \in ProxySessions,
             \/ \E a \in Owners, x \in Profiles \cup {None} : OpenAssign(s, a, x)
             \/ \E x \in Profiles : OpenProbe(s, x)
             \/ TryNext(s) \/ Fail(s)
      PROVE  ProxyInv'
  <2>1. CASE \E a \in Owners, x \in Profiles \cup {None} : OpenAssign(s, a, x)
    <3>1. PICK a \in Owners, x \in Profiles \cup {None} : OpenAssign(s, a, x)
      BY <2>1
    <3>2. proxying'[s].kind # "delete"
      BY <3>1 DEF OpenAssign, Unoccupied
    <3> QED BY <1>2, <3>1, <3>2 DEF OpenAssign
  <2>2. CASE \E x \in Profiles : OpenProbe(s, x)
    <3>1. PICK x \in Profiles : OpenProbe(s, x)
      BY <2>2
    <3>2. proxying'[s].kind # "delete"
      BY <3>1 DEF OpenProbe, Unoccupied
    <3> QED BY <1>2, <3>1, <3>2 DEF OpenProbe
  <2>3. CASE TryNext(s)
    <3>1. proxying'[s].kind # "delete"
      BY <2>3 DEF TryNext, ProxySession
    <3> QED BY <1>2, <2>3, <3>1 DEF TryNext
  <2>4. CASE Fail(s)
    <3>1. proxying'[s].kind # "delete"
      BY <2>4 DEF Fail, Freed, Unoccupied
    <3> QED BY <1>2, <2>4, <3>1 DEF Fail, Freed
  <2> QED BY <1>3, <2>1, <2>2, <2>3, <2>4
<1>4. ASSUME NEW s \in ProxySessions, CommitAssign(s) PROVE ProxyInv'
  <2> DEFINE r == proxying[s]
             b == r.account
             new == Assigned(r.read, r.profile)
             doomed == \E t \in ProxySessions :
                         proxying[t].kind = "delete" /\ proxying[t].profile = r.profile
  <2>1. /\ b \in Owners /\ r.read \in Owner /\ owner[b] \in Owner
        /\ r.profile \in Existing \cup {None} /\ proxying' = Freed(s)
        /\ \A t \in ProxySessions : b \notin proxying[t].locked
        /\ UNCHANGED <<profileHealth, raced>>
    BY <1>4 DEF CommitAssign, Working, Locked
  <2>2. owner' = [owner EXCEPT ![b] =
          [proxy  |-> IF new.proxy = r.read.proxy THEN @.proxy ELSE new.proxy,
           health |-> IF new.health = r.read.health THEN @.health ELSE new.health]]
    BY <1>4 DEF CommitAssign
  <2>3. crossed' = IF r.read # owner[b] \/ doomed THEN crossed \cup {b} ELSE crossed \ {b}
    BY <1>4, Zenon DEF CommitAssign
  <2>4. /\ new.proxy = r.profile
        /\ new.health = IF r.profile = None THEN "not_configured" ELSE "unknown"
    BY DEF Assigned
  <2>5. \A a \in Owners \ {b} : owner'[a] = owner[a] /\ (a \in crossed' <=> a \in crossed)
    BY <2>2, <2>3
  <2>6. owner'[b].proxy \in {owner[b].proxy, r.profile}
    BY <2>1, <2>2, <2>4
  <2>7. b \notin crossed' => /\ owner'[b].proxy = r.profile /\ ~doomed
                             /\ owner'[b].health = IF r.profile = None THEN "not_configured"
                                                   ELSE "unknown"
    BY <2>1, <2>2, <2>3, <2>4
  <2> HIDE DEF new
  <2>8. ForeignKey'
    BY <2>1, <2>5, <2>6 DEF ProxyInv, ForeignKey, Existing
  <2>9. DeleteInv'
    <3> SUFFICES ASSUME NEW t \in ProxySessions, proxying'[t].kind = "delete",
                        NEW a \in Owners \ crossed', owner'[a].proxy = proxying'[t].profile
                 PROVE  a \in proxying'[t].locked
      BY DEF DeleteInv
    <3>1. t # s /\ proxying'[t] = proxying[t]
      BY <2>1 DEF Freed, Unoccupied
    <3> QED BY <2>5, <2>7, <3>1 DEF ProxyInv, DeleteInv
  <2>10. HealthAgrees'
    BY <2>1, <2>5, <2>7, ProxyAssumption DEF ProxyInv, HealthAgrees
  <2> QED BY <2>8, <2>9, <2>10 DEF ProxyInv
<1>5. ASSUME NEW s \in ProxySessions, NEW result \in Results, RecordProbe(s, result) PROVE ProxyInv'
  <2> DEFINE x == proxying[s].profile
             seen == proxying[s].seen
  <2>1. /\ x \in Profiles /\ seen # None /\ proxying' = Freed(s) /\ crossed' = crossed
        /\ profileHealth' = [profileHealth EXCEPT ![x] =
                               IF @ = None \/ result = seen THEN @ ELSE result]
        /\ owner' = Told(x, result)
        /\ raced' = IF profileHealth[x] # seen THEN raced \cup {x} ELSE raced \ {x}
    BY <1>5 DEF RecordProbe, Working
  <2>2. \A a \in Owners : /\ owner'[a].proxy = owner[a].proxy
                          /\ owner[a].proxy = x => owner'[a].health = result
                          /\ owner[a].proxy # x => owner'[a] = owner[a]
    BY <2>1 DEF Told, Owner
  <2>3. \A y \in Profiles : profileHealth[y] # None => profileHealth'[y] # None
    BY <2>1, ProxyAssumption
  <2>4. x \notin raced' => profileHealth'[x] = result
    BY <2>1
  <2>5. \A y \in Profiles \ {x} : /\ profileHealth'[y] = profileHealth[y]
                                  /\ y \in raced' <=> y \in raced
    BY <2>1
  <2>6. ForeignKey'
    BY <2>2, <2>3 DEF ProxyInv, ForeignKey, Existing
  <2>7. DeleteInv'
    BY <2>1, <2>2 DEF ProxyInv, DeleteInv, Freed, Unoccupied
  <2>8. HealthAgrees'
    <3> SUFFICES ASSUME NEW a \in Owners \ crossed
                 PROVE  /\ owner'[a].proxy = None <=> owner'[a].health = "not_configured"
                        /\ owner'[a].proxy \in Profiles \ raced' =>
                             owner'[a].health \in {"unknown", profileHealth'[owner'[a].proxy]}
      BY <2>1 DEF HealthAgrees
    <3>1. CASE owner[a].proxy = x
      BY <2>1, <2>2, <2>4, <3>1, ProxyAssumption DEF Results
    <3>2. CASE owner[a].proxy # x
      BY <2>2, <2>5, <3>2 DEF ProxyInv, HealthAgrees
    <3> QED BY <3>1, <3>2
  <2> QED BY <2>6, <2>7, <2>8 DEF ProxyInv
<1>6. ASSUME NEW s \in ProxySessions, NEW x \in Profiles, OpenDelete(s, x) PROVE ProxyInv'
  <2> DEFINE L == {a \in Owners : owner[a].proxy = x}
  <2>1. /\ proxying' = [proxying EXCEPT ![s] = [Unoccupied EXCEPT !.kind = "delete", !.profile = x,
                                                                 !.locked = L]]
        /\ UNCHANGED <<profileHealth, owner, crossed, raced>>
    BY <1>6 DEF OpenDelete
  <2> HIDE DEF L
  <2>2. /\ proxying'[s].profile = x /\ proxying'[s].locked = L
        /\ \A t \in ProxySessions \ {s} : proxying'[t] = proxying[t]
    BY <2>1 DEF Unoccupied
  <2>3. DeleteInv'
    BY <2>1, <2>2 DEF ProxyInv, DeleteInv, L
  <2> QED BY <2>1, <2>3 DEF ProxyInv, ForeignKey, HealthAgrees, Existing
<1>7. ASSUME NEW s \in ProxySessions, CommitDelete(s) PROVE ProxyInv'
  <2> DEFINE L == proxying[s].locked
             x == proxying[s].profile
  <2>1. /\ x \in Profiles /\ proxying[s].kind = "delete" /\ proxying' = Freed(s)
        /\ profileHealth' = [profileHealth EXCEPT ![x] = None]
        /\ owner' = [a \in Owners |-> IF a \in L THEN Released(a, x)
                                      ELSE IF owner[a].proxy = x
                                      THEN [owner[a] EXCEPT !.proxy = None]
                                      ELSE owner[a]]
        /\ UNCHANGED <<crossed, raced>>
    BY <1>7 DEF CommitDelete, Working
  <2> HIDE DEF L, x
  <2>2. \A a \in Owners :
          /\ a \in L => owner'[a].proxy = None /\ owner'[a].health = "not_configured"
          /\ a \notin L /\ owner[a].proxy = x => owner'[a].proxy = None
          /\ a \notin L /\ owner[a].proxy # x => owner'[a] = owner[a]
    BY <2>1 DEF Released, Owner
  <2>3. \A a \in Owners : owner'[a].proxy \in {None, owner[a].proxy} \ {x}
    BY <2>1, <2>2, ProxyAssumption
  <2>4. \A a \in Owners \ crossed : owner[a].proxy = x => a \in L
    BY <2>1 DEF ProxyInv, DeleteInv, L, x
  <2>5. ForeignKey'
    BY <2>1, <2>3 DEF ProxyInv, ForeignKey, Existing
  <2>6. DeleteInv'
    <3> SUFFICES ASSUME NEW t \in ProxySessions, proxying'[t].kind = "delete",
                        NEW a \in Owners \ crossed, owner'[a].proxy = proxying'[t].profile
                 PROVE  a \in proxying'[t].locked
      BY <2>1 DEF DeleteInv
    <3>1. t # s /\ proxying'[t] = proxying[t] /\ proxying[t].profile \in Profiles
      BY <2>1 DEF Freed, Unoccupied, Working
    <3> QED BY <2>3, <3>1, ProxyAssumption DEF ProxyInv, DeleteInv
  <2>7. HealthAgrees'
    BY <2>1, <2>2, <2>4, ProxyAssumption DEF ProxyInv, HealthAgrees
  <2> QED BY <2>5, <2>6, <2>7 DEF ProxyInv
<1>8. CASE UNCHANGED proxyVars
  BY <1>8 DEF proxyVars, ProxyInv, ForeignKey, DeleteInv, HealthAgrees, Existing
<1> QED BY <1>1, <1>3, <1>4, <1>5, <1>6, <1>7, <1>8 DEF ProxyNext

\* Profiles, accounts and sessions keep their types.
THEOREM ProxyTypes == ProxySpec => []ProxyTypeOK
<1>1. ProxyTypeInv => ProxyTypeOK
  BY DEF ProxyTypeInv, ProxyTypeOK, ProxySession
<1> QED BY <1>1, ProxyTypeInit, ProxyTypeStep, PTL DEF ProxySpec

\* Accounts and profiles agree on the health of the proxy after every
\* assignment, probe and deletion that has not overtaken another.
THEOREM HealthIsAgreed == ProxySpec => []HealthAgrees
<1> DEFINE Inv == ProxyTypeInv /\ ProxyInv
<1>1. ProxyInit => Inv
  BY ProxyTypeInit, ProxyInvInit
<1>2. Inv /\ [ProxyNext]_proxyVars => Inv'
  BY ProxyTypeStep, ProxyInvStep
<1>3. Inv => HealthAgrees
  BY DEF ProxyInv
<1> HIDE DEF Inv
<1> QED BY <1>1, <1>2, <1>3, PTL DEF ProxySpec

-----------------------------------------------------------------------------
(* CliConfig                                                               *)

\* The steps of a command between its reading the file and its end.
Writing == {"token", "name", "check", "replace"}

Shell ==
  [kind: {"none", "init", "set", "token"}, pc: {"ready", "load", "done", "stopped"} \cup Writing,
   option: Given, env: Given, force: BOOLEAN, settings: Settings,
   target: TokenFiles \cup {None}, before: Settings \cup {None}, raced: BOOLEAN]

\* Which steps a command takes.
Phase(r) ==
  /\ r.pc \in {"ready", "stopped"} <=> r.kind = "none"
  /\ r.pc \in {"token", "name"} => r.kind = "token"
  /\ r.kind = "init" => r.pc # "load"
  /\ r.kind = "token" /\ r.pc # "load" => r.target \in TokenFiles

ConfigTypeInv ==
  /\ file \in Settings \cup {None}
  /\ secret \in [TokenFiles -> Shells \cup {Earlier, None}]
  /\ present \in BOOLEAN
  /\ shell \in [Shells -> Shell]
  /\ \A s \in Shells : Phase(shell[s])

LEMMA BuiltinType == Builtin \in Settings /\ Nothing \in Given
BY ConfigAssumption DEF Builtin, Nothing, Settings, Given

LEMMA ReadyType == Ready \in Shell /\ Phase(Ready)
BY BuiltinType DEF Ready, Shell, Phase

\* What is given goes over what was loaded, and the result is complete.
LEMMA OverType ==
  ASSUME NEW upper \in Given, NEW lower \in Settings
  PROVE  /\ Over(upper, lower) \in Settings
         /\ \A f \in Fields : /\ upper[f] # None => Over(upper, lower)[f] = upper[f]
                              /\ upper[f] = None => Over(upper, lower)[f] = lower[f]
BY DEF Over, Given, Settings, Fields

LEMMA LoadedType ==
  ASSUME ConfigTypeInv, NEW env \in Given
  PROVE  /\ Loaded(env) \in Settings
         /\ \A f \in Fields : env[f] = None /\ file # None => Loaded(env)[f] = file[f]
         /\ env.token_file = None => Loaded(env).token_file = IF file = None THEN None
                                                               ELSE file.token_file
<1> DEFINE lower == IF file = None THEN Builtin ELSE file
<1>1. lower \in Settings
  BY BuiltinType DEF ConfigTypeInv
<1>2. Loaded(env) = Over(env, lower)
  BY DEF Loaded
<1>3. /\ Loaded(env) \in Settings
      /\ \A f \in Fields : env[f] = None => Loaded(env)[f] = lower[f]
  BY <1>1, <1>2, OverType
<1>4. env.token_file = None => Loaded(env).token_file = lower.token_file
  BY <1>3 DEF Fields, Given, Settings
<1>5. Builtin.token_file = None
  BY DEF Builtin
<1> QED BY <1>3, <1>4, <1>5

\* There is always a token file to write to: the default one, if no other is named.
LEMMA TokenFileNamed ==
  ASSUME NEW x \in TokenFiles \cup {None}, NEW y \in TokenFiles \cup {None}
  PROVE  LET paths == <<x, y, TokenFile>> IN
         (CHOOSE p \in TokenFiles :
            \E n \in 1 .. 3 : paths[n] = p /\ \A k \in 1 .. n - 1 : paths[k] = None) \in TokenFiles
<1> DEFINE paths == <<x, y, TokenFile>>
           Names(p) == \E n \in 1 .. 3 : paths[n] = p /\ \A k \in 1 .. n - 1 : paths[k] = None
<1>1. paths[1] = x /\ paths[2] = y /\ paths[3] = TokenFile
  OBVIOUS
<1> HIDE DEF paths
<1>2. \E p \in TokenFiles : Names(p)
  <2>1. CASE x # None
    <3>1. Names(x)
      BY <1>1
    <3> QED BY <2>1, <3>1
  <2>2. CASE x = None /\ y # None
    <3>1. Names(y)
      BY <1>1, <2>2
    <3> QED BY <2>2, <3>1
  <2>3. CASE x = None /\ y = None
    <3>1. Names(TokenFile)
      BY <1>1, <2>3
    <3> QED BY <3>1, ConfigAssumption
  <2> QED BY <2>1, <2>2, <2>3
<1> QED BY <1>2 DEF paths

\* A command goes on.
LEMMA CommandType ==
  ASSUME ConfigTypeInv, NEW s \in Shells, NEW new \in Shell, Phase(new),
         shell' = [shell EXCEPT ![s] = new],
         file' \in Settings \cup {None}, secret' \in [TokenFiles -> Shells \cup {Earlier, None}],
         present' \in BOOLEAN
  PROVE  ConfigTypeInv'
BY DEF ConfigTypeInv

\* A command stops, comes to the write, or has been done.
LEMMA EndsStep ==
  ASSUME ConfigTypeInv, NEW s \in Shells, NEW pc \in {"stopped", "replace", "done"},
         shell[s].pc \notin {"ready", "stopped", "load"}, pc = "replace" => shell[s].pc = "check"
  PROVE  LET new == Ends(s, pc)[s] IN
         /\ Ends(s, pc) = [shell EXCEPT ![s] = new]
         /\ new \in Shell /\ Phase(new)
         /\ pc = "stopped" => new.kind = "none"
         /\ pc # "stopped" => new = [shell[s] EXCEPT !.pc = pc]
<1> DEFINE new == IF pc = "stopped" THEN [Ready EXCEPT !.pc = pc] ELSE [shell[s] EXCEPT !.pc = pc]
<1>1. shell[s] \in Shell /\ Phase(shell[s])
  BY DEF ConfigTypeInv
<1>2. [Ready EXCEPT !.pc = "stopped"] \in Shell /\ Phase([Ready EXCEPT !.pc = "stopped"])
  BY ReadyType DEF Shell, Phase, Ready
<1>3. [shell[s] EXCEPT !.pc = pc] \in Shell
  BY <1>1 DEF Shell, Writing
<1>4. pc # "stopped" => Phase([shell[s] EXCEPT !.pc = pc])
  BY <1>1 DEF Shell, Phase
<1>5. new \in Shell /\ Phase(new)
  BY <1>2, <1>3, <1>4
<1>6. Ends(s, pc) = [shell EXCEPT ![s] = new]
  BY DEF Ends
<1>7. Ends(s, pc)[s] = new
  BY <1>6 DEF ConfigTypeInv
<1>8. pc = "stopped" => new.kind = "none"
  BY DEF Ready
<1> QED BY <1>5, <1>6, <1>7, <1>8

\* It stops at any step.
LEMMA StopStep ==
  ASSUME ConfigTypeInv, NEW s \in Shells
  PROVE  LET new == [Ready EXCEPT !.pc = "stopped"] IN
         /\ Ends(s, "stopped") = [shell EXCEPT ![s] = new]
         /\ new \in Shell /\ Phase(new) /\ new.kind = "none"
BY ReadyType DEF Ends, Shell, Phase, Ready

\* The others are overtaken.
LEMMA OvertakenStep ==
  ASSUME NEW shells \in [Shells -> Shell], NEW s \in Shells, \A t \in Shells : Phase(shells[t])
  PROVE  LET now == Overtaken(shells, s) IN
         /\ now \in [Shells -> Shell] /\ \A t \in Shells : Phase(now[t])
         /\ now[s] = shells[s]
         /\ \A t \in Shells \ {s} :
              /\ now[t].kind = "none" \/ now[t].raced
              /\ now[t].kind = shells[t].kind /\ now[t].pc = shells[t].pc
              /\ now[t].before = shells[t].before /\ now[t].force = shells[t].force
<1>1. ASSUME NEW t \in Shells
      PROVE  [shells[t] EXCEPT !.raced = TRUE] \in Shell /\ Phase([shells[t] EXCEPT !.raced = TRUE])
  BY DEF Shell, Phase
<1>2. Overtaken(shells, s) \in [Shells -> Shell] /\ \A t \in Shells : Phase(Overtaken(shells, s)[t])
  BY <1>1 DEF Overtaken
<1>3. ASSUME NEW t \in Shells \ {s}
      PROVE  LET now == Overtaken(shells, s) IN
              /\ now[t].kind = "none" \/ now[t].raced
              /\ now[t].kind = shells[t].kind /\ now[t].pc = shells[t].pc
              /\ now[t].before = shells[t].before /\ now[t].force = shells[t].force
  BY <1>3 DEF Overtaken, Shell, Phase
<1> QED BY <1>2, <1>3 DEF Overtaken

\* A setting that the command may change.
May(r, f) ==
  \/ r.option[f] # None \/ r.env[f] # None
  \/ f = "token_file" /\ r.kind = "token"

\* What a command that is not overtaken has read is still there, and it writes
\* and has written nothing else over it than it may.
Keeps(r) ==
  /\ r.pc \in Writing => r.before = file
  /\ r.pc \in Writing /\ r.before # None =>
       \A f \in Fields : r.settings[f] # r.before[f] => May(r, f)
  /\ r.pc = "done" /\ r.before # None /\ file # None =>
       \A f \in Fields : file[f] # r.before[f] => May(r, f)

\* token-set has written its token where the settings will be found to point.
Finds(s) ==
  LET r == shell[s] IN
  /\ r.pc \in {"name", "check", "replace", "done"} => secret[r.target] = s
  /\ r.pc \in {"check", "replace"} => r.settings.token_file = r.target
  /\ r.pc \in {"token", "name"} /\ r.env.token_file = None =>
       r.settings.token_file = IF file = None THEN None ELSE file.token_file
  /\ r.pc = "done" /\ r.env.token_file = None => file # None /\ file.token_file = r.target

\* A file stays once it is there, and init without --force does not come to the write.
Spares(r) ==
  r.kind = "init" /\ r.before # None =>
    /\ file # None
    /\ ~r.force => r.pc \notin {"replace", "done"}

Serves(s) ==
  LET r == shell[s] IN
  /\ Spares(r)
  /\ ~r.raced /\ r.kind \in {"set", "token"} => Keeps(r)
  /\ ~r.raced /\ r.kind = "token" => Finds(s)

ConfigInv == ConfigTypeInv /\ \A s \in Shells : Serves(s)

\* A step of one command that writes nothing leaves the others.
LEMMA CommandStep ==
  ASSUME ConfigInv, NEW s \in Shells, NEW new \in Shell, Phase(new),
         shell' = [shell EXCEPT ![s] = new], UNCHANGED <<file, secret>>, present' \in BOOLEAN,
         Serves(s)'
  PROVE  ConfigInv'
<1>1. ConfigTypeInv'
  BY CommandType DEF ConfigInv, ConfigTypeInv
<1>2. ASSUME NEW t \in Shells, t # s PROVE Serves(t)'
  BY <1>2 DEF ConfigInv, ConfigTypeInv, Serves, Spares, Keeps, Finds
<1> QED BY <1>1, <1>2 DEF ConfigInv

\* A step that writes a file overtakes the others.
LEMMA WritingStep ==
  ASSUME ConfigInv, NEW s \in Shells, NEW new \in Shell, Phase(new),
         shell' = Overtaken([shell EXCEPT ![s] = new], s),
         file' \in Settings \cup {None}, secret' \in [TokenFiles -> Shells \cup {Earlier, None}],
         file # None => file' # None, present' = present, shell'[s] = new => Serves(s)'
  PROVE  ConfigInv'
<1> DEFINE shells == [shell EXCEPT ![s] = new]
<1>1. shells \in [Shells -> Shell] /\ (\A t \in Shells : Phase(shells[t])) /\ shells[s] = new
      /\ \A t \in Shells \ {s} : shells[t] = shell[t]
  BY DEF ConfigInv, ConfigTypeInv
<1> DEFINE now == Overtaken(shells, s)
<1>2. shell' = now
  OBVIOUS
<1> HIDE DEF shells
<1>3. /\ now \in [Shells -> Shell] /\ \A t \in Shells : Phase(now[t])
      /\ now[s] = shells[s]
      /\ \A t \in Shells \ {s} :
           /\ now[t].kind = "none" \/ now[t].raced
           /\ now[t].kind = shells[t].kind /\ now[t].pc = shells[t].pc
           /\ now[t].before = shells[t].before /\ now[t].force = shells[t].force
  BY <1>1, OvertakenStep
<1> HIDE DEF now
<1>4. ConfigTypeInv' /\ shell'[s] = new
  <2>1. present' \in BOOLEAN
    BY DEF ConfigInv, ConfigTypeInv
  <2> QED BY <1>2, <1>1, <1>3, <2>1 DEF ConfigTypeInv
<1>5. ASSUME NEW t \in Shells, t # s PROVE Serves(t)'
  <2>1. /\ shell'[t].kind = "none" \/ shell'[t].raced
        /\ shell'[t].kind = shell[t].kind /\ shell'[t].pc = shell[t].pc
        /\ shell'[t].before = shell[t].before /\ shell'[t].force = shell[t].force
    BY <1>2, <1>1, <1>3, <1>5
  <2>2. Spares(shell[t])
    BY DEF ConfigInv, Serves
  <2>3. Spares(shell[t])'
    BY <2>1, <2>2 DEF Spares
  <2> QED BY <2>1, <2>3 DEF Serves
<1> QED BY <1>4, <1>5 DEF ConfigInv

LEMMA ConfigInvInit == ConfigInit => ConfigInv
<1> SUFFICES ASSUME ConfigInit PROVE ConfigInv
  OBVIOUS
<1>1. ConfigTypeInv
  BY ReadyType DEF ConfigInit, ConfigTypeInv
<1>2. ASSUME NEW s \in Shells PROVE Serves(s)
  BY DEF ConfigInit, Serves, Spares, Ready
<1> QED BY <1>1, <1>2 DEF ConfigInv

LEMMA EnterServes ==
  ASSUME ConfigInv, NEW s \in Shells, NEW kind \in {"init", "set", "token"},
         NEW option \in Options, NEW env \in Envs, NEW force \in BOOLEAN,
         Enter(s, kind, option, env, force)
  PROVE  ConfigInv'
<1> DEFINE new == [Ready EXCEPT !.kind = kind, !.option = option, !.env = env, !.force = force,
                     !.before = file,
                     !.pc = IF kind = "init" THEN "check" ELSE "load",
                     !.settings = IF kind = "init" THEN Over(option, Builtin) ELSE Builtin]
<1>1. option \in Given /\ env \in Given
  BY ConfigAssumption
<1>2. Over(option, Builtin) \in Settings
  BY <1>1, BuiltinType, OverType
<1>3. new \in Shell
  BY <1>1, <1>2, ReadyType, BuiltinType DEF Shell, ConfigInv, ConfigTypeInv, Writing, Ready
<1>4. /\ shell' = [shell EXCEPT ![s] = new] /\ UNCHANGED <<file, secret, present>>
      /\ present' \in BOOLEAN
  BY DEF Enter, ConfigInv, ConfigTypeInv
<1>5. /\ new.kind = kind /\ new.force = force /\ new.before = file
      /\ new.pc = IF kind = "init" THEN "check" ELSE "load"
  BY DEF Ready
<1> HIDE DEF new
<1>6. Phase(new)
  BY <1>5 DEF Phase
<1>7. shell'[s] = new
  BY <1>4 DEF ConfigInv, ConfigTypeInv
<1>8. Serves(s)'
  BY <1>4, <1>5, <1>7 DEF Serves, Spares, Keeps, Finds, Writing
<1> QED BY <1>3, <1>4, <1>6, <1>8, CommandStep

LEMMA LoadServes == ASSUME ConfigInv, NEW s \in Shells, Load(s) PROVE ConfigInv'
<1> DEFINE r == shell[s]
           loaded == Loaded(r.env)
           paths == <<r.option.token_file, loaded.token_file, TokenFile>>
           named == CHOOSE p \in TokenFiles :
                      \E n \in 1 .. 3 : paths[n] = p /\ \A k \in 1 .. n - 1 : paths[k] = None
           settings == IF r.kind = "set" THEN Over(r.option, loaded) ELSE loaded
           chosen == IF r.kind = "token" THEN named ELSE None
           pc == IF r.kind = "token" THEN "token" ELSE "check"
           new == [r EXCEPT !.before = file, !.settings = settings, !.target = chosen, !.pc = pc]
<1>1. r \in Shell /\ Phase(r) /\ r.pc = "load"
  BY DEF Load, ConfigInv, ConfigTypeInv
<1>2. r.option \in Given /\ r.env \in Given /\ r.kind \in {"set", "token"}
  BY <1>1 DEF Shell, Phase
<1>3. /\ loaded \in Settings
      /\ \A f \in Fields : r.env[f] = None /\ file # None => loaded[f] = file[f]
      /\ r.env.token_file = None => loaded.token_file = IF file = None THEN None
                                                        ELSE file.token_file
  BY <1>2, LoadedType DEF ConfigInv
<1>4. /\ shell' = [shell EXCEPT ![s].before = file, ![s].settings = settings, ![s].target = chosen,
                                ![s].pc = pc]
      /\ UNCHANGED <<file, secret, present>> /\ present' \in BOOLEAN
  BY Zenon DEF Load, ConfigInv, ConfigTypeInv
<1>5. named \in TokenFiles
  <2>1. /\ r.option.token_file \in TokenFiles \cup {None}
        /\ loaded.token_file \in TokenFiles \cup {None}
    BY <1>2, <1>3 DEF Given, Settings
  <2> HIDE DEF loaded
  <2> QED BY <2>1, TokenFileNamed
<1> HIDE DEF loaded, named
<1>6. /\ settings \in Settings
      /\ \A f \in Fields : file # None /\ settings[f] # file[f] =>
           r.option[f] # None \/ r.env[f] # None
      /\ r.kind = "token" => settings = loaded
  BY <1>2, <1>3, OverType
<1>7. chosen \in TokenFiles \cup {None} /\ pc \in {"token", "check"}
      /\ (r.kind = "token" => chosen \in TokenFiles /\ pc = "token")
      /\ (r.kind # "token" => pc = "check")
  BY <1>5
<1> HIDE DEF settings, chosen, pc
<1>8. new \in Shell
  BY <1>1, <1>6, <1>7 DEF Shell, Writing, ConfigInv, ConfigTypeInv
<1>9. shell' = [shell EXCEPT ![s] = new]
  BY <1>4 DEF ConfigInv, ConfigTypeInv
<1>10. /\ new.kind = r.kind /\ new.before = file /\ new.settings = settings /\ new.target = chosen
       /\ new.pc = pc /\ new.option = r.option /\ new.env = r.env
  BY <1>1 DEF Shell
<1> HIDE DEF new
<1>11. Phase(new)
  BY <1>2, <1>7, <1>10 DEF Phase
<1>12. shell'[s] = new
  BY <1>9 DEF ConfigInv, ConfigTypeInv
<1>13. Keeps(shell[s])'
  BY <1>4, <1>6, <1>7, <1>10, <1>12 DEF Keeps, May, Writing
<1>14. shell'[s].kind = "token" => Finds(s)'
  BY <1>3, <1>4, <1>6, <1>7, <1>10, <1>12 DEF Finds
<1>15. Serves(s)'
  BY <1>2, <1>10, <1>12, <1>13, <1>14 DEF Serves, Spares
<1> QED BY <1>4, <1>8, <1>9, <1>11, <1>15, CommandStep

\* A command that stops promises nothing any more.
LEMMA StopServes ==
  ASSUME ConfigInv, NEW s \in Shells, shell' = Ends(s, "stopped"),
         UNCHANGED <<file, secret, present>>
  PROVE  ConfigInv'
<1> DEFINE new == [Ready EXCEPT !.pc = "stopped"]
<1>1. /\ shell' = [shell EXCEPT ![s] = new] /\ new \in Shell /\ Phase(new) /\ new.kind = "none"
      /\ present' \in BOOLEAN
  BY StopStep DEF ConfigInv, ConfigTypeInv
<1> HIDE DEF new
<1>2. shell'[s] = new
  BY <1>1 DEF ConfigInv, ConfigTypeInv
<1>3. Serves(s)'
  BY <1>1, <1>2 DEF Serves, Spares
<1> QED BY <1>1, <1>3, CommandStep

LEMMA WriteTokenServes == ASSUME ConfigInv, NEW s \in Shells, WriteToken(s) PROVE ConfigInv'
<1> DEFINE r == shell[s]
           new == [r EXCEPT !.pc = "name"]
<1>1. r \in Shell /\ Phase(r) /\ r.pc = "token" /\ r.kind = "token" /\ r.target \in TokenFiles
  BY DEF WriteToken, ConfigInv, ConfigTypeInv, Phase
<1>2. \/ shell' = Ends(s, "stopped") /\ UNCHANGED <<file, secret, present>>
      \/ /\ secret' = [secret EXCEPT ![r.target] = s]
         /\ shell' = Overtaken([shell EXCEPT ![s].pc = "name"], s)
         /\ UNCHANGED <<file, present>>
  BY DEF WriteToken
<1>3. CASE shell' = Ends(s, "stopped") /\ UNCHANGED <<file, secret, present>>
  BY <1>3, StopServes
<1>4. CASE /\ secret' = [secret EXCEPT ![r.target] = s]
           /\ shell' = Overtaken([shell EXCEPT ![s].pc = "name"], s)
           /\ UNCHANGED <<file, present>>
  <2>1. new \in Shell /\ Phase(new)
    BY <1>1 DEF Shell, Phase, Writing
  <2>2. [shell EXCEPT ![s].pc = "name"] = [shell EXCEPT ![s] = new]
    BY DEF ConfigInv, ConfigTypeInv
  <2>3. /\ new.kind = r.kind /\ new.before = r.before /\ new.settings = r.settings
        /\ new.target = r.target /\ new.pc = "name" /\ new.option = r.option /\ new.env = r.env
        /\ new.raced = r.raced
    BY <1>1 DEF Shell
  <2> HIDE DEF new
  <2>4. shell' = Overtaken([shell EXCEPT ![s] = new], s)
    BY <1>4, <2>2
  <2>5. ~r.raced => Keeps(r) /\ Finds(s)
    BY <1>1 DEF ConfigInv, Serves
  <2>6. secret'[r.target] = s /\ secret' \in [TokenFiles -> Shells \cup {Earlier, None}]
    BY <1>1, <1>4 DEF ConfigInv, ConfigTypeInv
  <2>7. ASSUME shell'[s] = new PROVE Serves(s)'
    <3>1. ~r.raced => Keeps(shell[s])'
      BY <1>1, <1>4, <2>3, <2>5, <2>7 DEF Keeps, May, Writing
    <3>2. ~r.raced => Finds(s)'
      BY <1>1, <1>4, <2>3, <2>5, <2>6, <2>7 DEF Finds
    <3> QED BY <1>1, <2>3, <2>7, <3>1, <3>2 DEF Serves, Spares
  <2>8. file' \in Settings \cup {None} /\ (file # None => file' # None) /\ present' = present
    BY <1>4 DEF ConfigInv, ConfigTypeInv
  <2> QED BY <2>1, <2>4, <2>6, <2>7, <2>8, WritingStep
<1> QED BY <1>2, <1>3, <1>4

LEMMA NameTokenServes == ASSUME ConfigInv, NEW s \in Shells, NameToken(s) PROVE ConfigInv'
<1> DEFINE r == shell[s]
<1>1. r \in Shell /\ Phase(r) /\ r.pc = "name" /\ r.kind = "token" /\ r.target \in TokenFiles
      /\ UNCHANGED <<file, secret, present>> /\ present' \in BOOLEAN
  BY DEF NameToken, ConfigInv, ConfigTypeInv, Phase
<1>2. ~r.raced => Keeps(r) /\ Finds(s)
  BY <1>1 DEF ConfigInv, Serves
<1>3. CASE Named(s)
  <2> DEFINE new == Ends(s, "done")[s]
  <2>1. /\ shell' = [shell EXCEPT ![s] = new] /\ new \in Shell /\ Phase(new)
        /\ new = [r EXCEPT !.pc = "done"]
    BY <1>1, <1>3, EndsStep DEF NameToken, ConfigInv
  <2>2. /\ new.kind = r.kind /\ new.before = r.before /\ new.target = r.target
        /\ new.pc = "done" /\ new.env = r.env /\ new.raced = r.raced
    BY <1>1, <2>1 DEF Shell
  <2> HIDE DEF new
  <2>3. shell'[s] = new
    BY <2>1 DEF ConfigInv, ConfigTypeInv
  <2>4. ~r.raced => Keeps(shell[s])'
    BY <1>1, <1>2, <2>2, <2>3 DEF Keeps, Writing
  <2>5. ~r.raced => Finds(s)'
    BY <1>1, <1>2, <1>3, <2>2, <2>3, ConfigAssumption DEF Finds, Named
  <2>6. Serves(s)'
    BY <1>1, <2>2, <2>3, <2>4, <2>5 DEF Serves, Spares
  <2> QED BY <1>1, <2>1, <2>6, CommandStep
<1>4. CASE ~Named(s)
  <2> DEFINE settings == [r.settings EXCEPT !.token_file = r.target]
             new == [r EXCEPT !.settings = settings, !.pc = "check"]
  <2>1. settings \in Settings /\ settings.token_file = r.target
        /\ \A f \in Fields : f # "token_file" => settings[f] = r.settings[f]
    BY <1>1 DEF Shell, Settings, Fields
  <2>2. shell' = [shell EXCEPT ![s].settings.token_file = r.target, ![s].pc = "check"]
    BY <1>4 DEF NameToken
  <2>3. shell' = [shell EXCEPT ![s] = new]
    BY <2>2 DEF ConfigInv, ConfigTypeInv
  <2> HIDE DEF settings
  <2>4. new \in Shell
    BY <1>1, <2>1 DEF Shell, Writing
  <2>5. /\ new.kind = r.kind /\ new.before = r.before /\ new.target = r.target
        /\ new.settings = settings /\ new.option = r.option
        /\ new.pc = "check" /\ new.env = r.env /\ new.raced = r.raced
    BY <1>1 DEF Shell
  <2> HIDE DEF new
  <2>6. Phase(new)
    BY <1>1, <2>5 DEF Phase
  <2>7. shell'[s] = new
    BY <2>3 DEF ConfigInv, ConfigTypeInv
  <2>8. ~r.raced => Keeps(shell[s])'
    BY <1>1, <1>2, <2>1, <2>5, <2>7 DEF Keeps, May, Writing
  <2>9. ~r.raced => Finds(s)'
    BY <1>1, <1>2, <2>1, <2>5, <2>7 DEF Finds
  <2>10. Serves(s)'
    BY <1>1, <2>5, <2>7, <2>8, <2>9 DEF Serves, Spares
  <2> QED BY <1>1, <2>3, <2>4, <2>6, <2>10, CommandStep
<1> QED BY <1>3, <1>4

LEMMA CheckServes == ASSUME ConfigInv, NEW s \in Shells, Check(s) PROVE ConfigInv'
<1> DEFINE r == shell[s]
           end == IF Spared(s) \/ (r.settings.ca_bundle # None /\ ~present)
                  THEN "stopped" ELSE "replace"
<1>1. /\ r \in Shell /\ r.pc = "check" /\ shell' = Ends(s, end)
      /\ UNCHANGED <<file, secret, present>> /\ present' \in BOOLEAN
  BY Zenon DEF Check, ConfigInv, ConfigTypeInv
<1>2. end \in {"stopped", "replace"} /\ (end = "replace" => ~Spared(s))
  BY Zenon
<1> HIDE DEF end
<1>3. CASE end = "stopped"
  BY <1>1, <1>3, StopServes
<1>4. CASE end = "replace"
  <2> DEFINE new == Ends(s, "replace")[s]
  <2>1. /\ shell' = [shell EXCEPT ![s] = new] /\ new \in Shell /\ Phase(new)
        /\ new = [r EXCEPT !.pc = "replace"]
    BY <1>1, <1>4, EndsStep DEF ConfigInv
  <2>2. /\ new.kind = r.kind /\ new.before = r.before /\ new.target = r.target
        /\ new.settings = r.settings /\ new.option = r.option /\ new.force = r.force
        /\ new.pc = "replace" /\ new.env = r.env /\ new.raced = r.raced
    BY <1>1, <2>1 DEF Shell
  <2> HIDE DEF new
  <2>3. shell'[s] = new
    BY <2>1 DEF ConfigInv, ConfigTypeInv
  <2>4. Serves(s)
    BY DEF ConfigInv
  <2>5. Spares(shell[s])'
    BY <1>1, <1>2, <1>4, <2>2, <2>3, <2>4 DEF Serves, Spares, Spared
  <2>6. ~r.raced /\ r.kind \in {"set", "token"} => Keeps(shell[s])'
    BY <1>1, <2>2, <2>3, <2>4 DEF Serves, Keeps, May, Writing
  <2>7. ~r.raced /\ r.kind = "token" => Finds(s)'
    BY <1>1, <2>2, <2>3, <2>4 DEF Serves, Finds
  <2>8. Serves(s)'
    BY <2>2, <2>3, <2>5, <2>6, <2>7 DEF Serves
  <2> QED BY <1>1, <2>1, <2>8, CommandStep
<1> QED BY <1>2, <1>3, <1>4

LEMMA ReplaceServes == ASSUME ConfigInv, NEW s \in Shells, Replace(s) PROVE ConfigInv'
<1> DEFINE r == shell[s]
           new == Ends(s, "done")[s]
<1>1. /\ r \in Shell /\ r.pc = "replace" /\ file' = r.settings
      /\ shell' = Overtaken(Ends(s, "done"), s)
      /\ UNCHANGED <<secret, present>>
  BY DEF Replace, Lines, ConfigInv, ConfigTypeInv
<1>2. /\ Ends(s, "done") = [shell EXCEPT ![s] = new] /\ new \in Shell /\ Phase(new)
      /\ new = [r EXCEPT !.pc = "done"]
  BY <1>1, EndsStep DEF ConfigInv
<1>3. /\ new.kind = r.kind /\ new.before = r.before /\ new.target = r.target
      /\ new.option = r.option /\ new.force = r.force
      /\ new.pc = "done" /\ new.env = r.env /\ new.raced = r.raced
  BY <1>1, <1>2 DEF Shell
<1> HIDE DEF new
<1>4. shell' = Overtaken([shell EXCEPT ![s] = new], s)
  BY <1>1, <1>2
<1>5. /\ file' \in Settings \cup {None} /\ file' # None /\ present' = present
      /\ secret' \in [TokenFiles -> Shells \cup {Earlier, None}]
  BY <1>1, ConfigAssumption DEF Shell, ConfigInv, ConfigTypeInv
<1>6. ASSUME shell'[s] = new PROVE Serves(s)'
  <2>1. Serves(s)
    BY DEF ConfigInv
  <2>2. Spares(shell[s])'
    BY <1>1, <1>3, <1>5, <1>6, <2>1 DEF Serves, Spares
  <2>3. ~r.raced /\ r.kind \in {"set", "token"} => Keeps(shell[s])'
    BY <1>1, <1>3, <1>6, <2>1 DEF Serves, Keeps, May, Writing
  <2>4. ~r.raced /\ r.kind = "token" => Finds(s)'
    BY <1>1, <1>3, <1>5, <1>6, <2>1 DEF Serves, Finds
  <2> QED BY <1>3, <1>6, <2>2, <2>3, <2>4 DEF Serves
<1> QED BY <1>2, <1>4, <1>5, <1>6, WritingStep

LEMMA ConfigInvStep == ConfigInv /\ [ConfigNext]_configVars => ConfigInv'
<1> SUFFICES ASSUME ConfigInv, [ConfigNext]_configVars PROVE ConfigInv'
  OBVIOUS
<1>1. ASSUME NEW s \in Shells, NEW kind \in {"init", "set", "token"},
             NEW option \in Options, NEW env \in Envs, NEW force \in BOOLEAN,
             Enter(s, kind, option, env, force)
      PROVE  ConfigInv'
  BY <1>1, EnterServes
<1>2. ASSUME NEW s \in Shells, LoadFails(s) \/ Interrupt(s) PROVE ConfigInv'
  BY <1>2, StopServes DEF LoadFails, Interrupt
<1>3. CASE MoveBundle \/ UNCHANGED configVars
  <2>1. present' \in BOOLEAN /\ UNCHANGED <<file, secret, shell>>
    BY <1>3, Zenon DEF MoveBundle, configVars, ConfigInv, ConfigTypeInv
  <2> QED BY <2>1 DEF ConfigInv, ConfigTypeInv, Serves, Spares, Keeps, Finds
<1> QED BY <1>1, <1>2, <1>3, LoadServes, WriteTokenServes, NameTokenServes, CheckServes,
           ReplaceServes DEF ConfigNext

\* The files and what the commands read and are given keep their types.
THEOREM ConfigTypes == ConfigSpec => []ConfigTypeOK
<1>1. ConfigInv => ConfigTypeOK
  BY DEF ConfigInv, ConfigTypeInv, ConfigTypeOK, Shell
<1> QED BY <1>1, ConfigInvInit, ConfigInvStep, PTL DEF ConfigSpec

\* config init spares the file that is there, config set and config token-set keep the
\* settings they were not given, and the token is found where the settings point.
THEOREM SettingsAreHeld == ConfigSpec => []SettingsHold
<1>1. ASSUME ConfigInv, NEW s \in Shells
      PROVE  shell[s] \in Shell /\ Phase(shell[s]) /\ Serves(s)
  BY <1>1 DEF ConfigInv, ConfigTypeInv
<1>2. ConfigInv => InitSpares
  BY <1>1 DEF InitSpares, Serves, Spares
<1>3. ConfigInv => RestIsKept
  BY <1>1, ConfigAssumption DEF RestIsKept, Serves, Keeps, May, Shell, Phase
<1>4. ConfigInv => TokenIsFound
  BY <1>1 DEF TokenIsFound, Serves, Finds, Phase, ConfigInv, ConfigTypeInv
<1>5. ConfigInv => SettingsHold
  BY <1>2, <1>3, <1>4 DEF SettingsHold
<1> QED BY <1>5, ConfigInvInit, ConfigInvStep, PTL DEF ConfigSpec

-----------------------------------------------------------------------------
(* Side by side                                                            *)

\* The components keep their types as well when MCAccess runs them side by
\* side: every step of AllSpec is one of a single component.
THEOREM TypesSideBySide == AllSpec => []AllTypeOK
<1>1. AllInit => Init /\ AccessInit /\ ShareInit /\ ProxyInit /\ ConfigInit
  BY DEF AllInit
<1>2. [AllNext]_allVars => [Next]_vars
  BY DEF AllNext, allVars
<1>3. [AllNext]_allVars => [AccessNext]_accessVars
  BY DEF AllNext, allVars
<1>4. [AllNext]_allVars => [ShareNext]_shareVars
  BY DEF AllNext, allVars
<1>5. [AllNext]_allVars => [ProxyNext]_proxyVars
  BY DEF AllNext, allVars
<1>6. [AllNext]_allVars => [ConfigNext]_configVars
  BY DEF AllNext, allVars
<1>7. AllSpec => Spec /\ AccessSpec /\ ShareSpec /\ ProxySpec /\ ConfigSpec
  BY <1>1, <1>2, <1>3, <1>4, <1>5, <1>6, PTL
    DEF AllSpec, Spec, AccessSpec, ShareSpec, ProxySpec, ConfigSpec
<1> QED BY <1>7, LeaseTypes, AccessTypes, ShareTypes, ProxyTypes, ConfigTypes, PTL DEF AllTypeOK
==============================================================================
