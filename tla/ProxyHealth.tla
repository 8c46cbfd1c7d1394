----------------------------- MODULE ProxyHealth -----------------------------
(***************************************************************************)
(* Proxy profiles, the accounts they are assigned to, and the health both  *)
(* keep.  A probe reads a profile, ends its transaction, tries its         *)
(* endpoints and writes what came of it; an assignment reads the account   *)
(* without a lock.  Both write only the columns they change.               *)
(***************************************************************************)
EXTENDS Integers, Null

CONSTANTS
  Profiles,  \* ids of proxy profiles
  Owners,    \* accounts
  ProxySessions,  \* API sessions
  Endpoints  \* number of network endpoints of a profile

Results == {"healthy", "failed"}

\* What the constants have to be.
ASSUME ProxyAssumption ==
  /\ Endpoints \in Nat \ {0}
  /\ None \notin Profiles \cup Owners
  /\ None \notin Results \cup {"unknown"}

VARIABLES
  profileHealth,   \* health_status of each profile
  owner,    \* proxy_profile_id and proxy_health_status of each account
  proxying,  \* what each session is doing
  crossed,  \* accounts written by a session that had read an older row, or put under a
            \* profile while it was being deleted
  raced     \* profiles with a probe that was recorded while another one was under way

proxyVars == <<profileHealth, owner, proxying, crossed, raced>>

Owner == [proxy: Profiles \cup {None}, health: Results \cup {"unknown", "not_configured"}]

Unoccupied == [kind |-> "idle", profile |-> None, account |-> None, read |-> None, seen |-> None,
         endpoint |-> 0, locked |-> {}]

Existing == {x \in Profiles : profileHealth[x] # None}

Freed(s) == [proxying EXCEPT ![s] = Unoccupied]

\* Rows another transaction has updated and not committed.
Locked(a) == \E s \in ProxySessions : a \in proxying[s].locked

\* write_proxy_profile for a new one; a change of its URLs leaves its health.
Create(x) ==
  /\ profileHealth[x] = None
  /\ \A s \in ProxySessions : proxying[s].profile # x
  /\ profileHealth' = [profileHealth EXCEPT ![x] = "unknown"]
  /\ UNCHANGED <<owner, proxying, crossed, raced>>

-----------------------------------------------------------------------------
(* assign_account_proxy                                                    *)

OpenAssign(s, a, x) ==
  /\ proxying[s] = Unoccupied /\ x \in Existing \cup {None}
  /\ proxying' = [proxying EXCEPT ![s] = [Unoccupied EXCEPT !.kind = "assign", !.profile = x,
                                                    !.account = a, !.read = owner[a]]]
  /\ UNCHANGED <<profileHealth, owner, crossed, raced>>

\* Mutant: an assignment keeps the health the account had.
AssignedAsItWas(old, x) == [proxy |-> x, health |-> old.health]

Assigned(old, x) == [proxy |-> x, health |-> IF x = None THEN "not_configured" ELSE "unknown"]

\* The UPDATE: what the session has read and set again is left out.
CommitAssign(s) ==
  LET r == proxying[s]
      a == r.account
      new == Assigned(r.read, r.profile) IN
  /\ r.kind = "assign" /\ ~Locked(a) /\ r.profile \in Existing \cup {None}
  /\ owner' = [owner EXCEPT ![a] =
       [proxy  |-> IF new.proxy = r.read.proxy THEN @.proxy ELSE new.proxy,
        health |-> IF new.health = r.read.health THEN @.health ELSE new.health]]
  /\ crossed' = IF \/ r.read # owner[a]
                    \/ \E t \in ProxySessions :
                         proxying[t].kind = "delete" /\ proxying[t].profile = r.profile
                THEN crossed \cup {a} ELSE crossed \ {a}
  /\ proxying' = Freed(s)
  /\ UNCHANGED <<profileHealth, raced>>

-----------------------------------------------------------------------------
(* probe_proxy_profile                                                     *)

OpenProbe(s, x) ==
  /\ proxying[s] = Unoccupied /\ x \in Existing
  /\ proxying' = [proxying EXCEPT ![s] = [Unoccupied EXCEPT !.kind = "probe", !.profile = x,
                                                    !.seen = profileHealth[x], !.endpoint = 1]]
  /\ UNCHANGED <<profileHealth, owner, crossed, raced>>

\* An endpoint does not answer and the next one is tried.
TryNext(s) ==
  /\ proxying[s].kind = "probe" /\ proxying[s].endpoint < Endpoints
  /\ proxying' = [proxying EXCEPT ![s].endpoint = @ + 1]
  /\ UNCHANGED <<profileHealth, owner, crossed, raced>>

\* Every account under the profile gets its health.
Told(x, result) ==
  [a \in Owners |-> IF owner[a].proxy = x THEN [owner[a] EXCEPT !.health = result] ELSE owner[a]]

\* The row is locked, but the session still holds the profile it has read.
RecordProbe(s, result) ==
  LET r == proxying[s]
      x == r.profile IN
  /\ r.kind = "probe"
  /\ result = "failed" => r.endpoint = Endpoints
  /\ \A t \in ProxySessions : proxying[t].kind = "delete" => proxying[t].profile # x
  /\ \A a \in Owners : owner[a].proxy = x => ~Locked(a)
  /\ profileHealth' = [profileHealth EXCEPT ![x] = IF @ = None \/ result = r.seen
                                                 THEN @ ELSE result]
  /\ owner' = Told(x, result)
  /\ raced' = IF profileHealth[x] # r.seen THEN raced \cup {x} ELSE raced \ {x}
  /\ proxying' = Freed(s)
  /\ UNCHANGED crossed

-----------------------------------------------------------------------------
(* delete_proxy_profile                                                    *)

\* The accounts are updated first ...
OpenDelete(s, x) ==
  /\ proxying[s] = Unoccupied /\ x \in Existing
  /\ \A a \in Owners : owner[a].proxy = x => ~Locked(a)
  /\ proxying' = [proxying EXCEPT ![s] = [Unoccupied EXCEPT !.kind = "delete", !.profile = x,
                                          !.locked = {a \in Owners : owner[a].proxy = x}]]
  /\ UNCHANGED <<profileHealth, owner, crossed, raced>>

\* ... to these values.
Released(a, x) == [proxy |-> None, health |-> "not_configured"]

\* ... and the foreign key clears the profile where it was assigned meanwhile.
CommitDelete(s) ==
  LET r == proxying[s]
      x == r.profile IN
  /\ r.kind = "delete"
  /\ owner' = [a \in Owners |-> IF a \in r.locked THEN Released(a, x)
                                ELSE IF owner[a].proxy = x THEN [owner[a] EXCEPT !.proxy = None]
                                ELSE owner[a]]
  /\ profileHealth' = [profileHealth EXCEPT ![x] = None]
  /\ proxying' = Freed(s)
  /\ UNCHANGED <<crossed, raced>>

\* The account or the profile is gone, or the session dies: all is rolled back.
Fail(s) ==
  /\ proxying[s] # Unoccupied
  /\ proxying' = Freed(s)
  /\ UNCHANGED <<profileHealth, owner, crossed, raced>>

-----------------------------------------------------------------------------
ProxyInit ==
  /\ profileHealth = [x \in Profiles |-> None]
  /\ owner = [a \in Owners |-> [proxy |-> None, health |-> "not_configured"]]
  /\ proxying = [s \in ProxySessions |-> Unoccupied]
  /\ crossed = {} /\ raced = {}

ProxyNext ==
  \/ \E x \in Profiles : Create(x)
  \/ \E s \in ProxySessions :
       \/ \E a \in Owners, x \in Profiles \cup {None} : OpenAssign(s, a, x)
       \/ CommitAssign(s)
       \/ \E x \in Profiles : OpenProbe(s, x)
       \/ TryNext(s)
       \/ \E result \in Results : RecordProbe(s, result)
       \/ \E x \in Profiles : OpenDelete(s, x)
       \/ CommitDelete(s) \/ Fail(s)

ProxySpec == ProxyInit /\ [][ProxyNext]_proxyVars

-----------------------------------------------------------------------------
(* Properties                                                              *)

ProxyTypeOK ==
  /\ profileHealth \in [Profiles -> Results \cup {"unknown", None}]
  /\ owner \in [Owners -> Owner]
  /\ \A s \in ProxySessions : proxying[s].kind \in {"idle", "assign", "probe", "delete"}
  /\ crossed \subseteq Owners /\ raced \subseteq Profiles

\* An account has a proxy exactly if its health says that one is configured,
\* and what it says of it is what the profile says or that it is not known,
\* unless a session wrote over a row that had changed since it read it.
HealthAgrees ==
  \A a \in Owners \ crossed :
    LET o == owner[a] IN
    /\ o.proxy = None <=> o.health = "not_configured"
    /\ o.proxy \in Profiles \ raced => o.health \in {"unknown", profileHealth[o.proxy]}
=============================================================================
