---------------------------- MODULE AccountHealth ----------------------------
(***************************************************************************)
(* The health and authorization columns of one account, and the sessions   *)
(* that set them from what providers answer: the handlers of health checks *)
(* and token refreshes, and every request that reads mail.                 *)
(*                                                                         *)
(* A session reads the account, ends its transaction, calls the provider   *)
(* and locks the row to record the outcome.  The lock does not reload an   *)
(* account the session still holds: the handlers and the scans for codes   *)
(* compute with the values they read first, and the UPDATE writes only the *)
(* columns whose value differs from those.                                 *)
(***************************************************************************)
EXTENDS Integers, Sequences, Providers, Null

CONSTANTS
  Sessions,     \* worker and API sessions working on the account
  ProxyUrls,    \* proxy URLs of the account
  MaxFailures,  \* bound on consecutive_failures
  MaxStarts,    \* bound on the sessions that are started
  Initially     \* rows the account may have

Columns == [health: {"unknown", "healthy", "degraded", "failed"}, failures: 0..MaxFailures,
            auth: {"unknown", "valid", "invalid", "reauthorization_required"},
            token: {"unknown", "success", "failed"}, type: Channels \cup {"unknown"}]

\* What the constants have to be.
ASSUME HealthAssumption ==
  /\ ProxyUrls \in Nat /\ MaxFailures \in Nat /\ MaxStarts \in Nat
  /\ Initially \subseteq {c \in Columns : c.health = "healthy" => c.failures = 0}

VARIABLES
  account,   \* the columns of the row, None when it is deleted
  session,   \* what each session is doing
  lost,      \* the row has changed between a session's read and its write
  since,     \* failures recorded since the last success
  starts     \* sessions started

healthVars == <<account, session, lost, since, starts>>

\* What the session collects: whether the codes of a check all name credentials
\* or a token, and whether a failure of a refresh may be repeated; tokenless and
\* transient say what its attempts have really met, for the properties: never a
\* token (a check), or something that passes (a refresh).
SessionState ==
  [pc: {"idle", "call", "store"}, op: {"health", "refresh", "mail"}, auto: BOOLEAN, held: BOOLEAN,
   read: Columns \cup {None}, tries: Seq(Channels), won: Channels \cup {None},
   auth: BOOLEAN, retry: BOOLEAN, tokenless: BOOLEAN, transient: BOOLEAN]

Nothing == [pc |-> "idle", op |-> "mail", auto |-> TRUE, held |-> FALSE, read |-> None,
            tries |-> <<>>, won |-> None, auth |-> TRUE, retry |-> FALSE,
            tokenless |-> TRUE, transient |-> FALSE]

-----------------------------------------------------------------------------
\* handle_connectivity_health_check and handle_token_refresh.
StartJob(s, op) ==
  /\ session[s].pc = "idle" /\ account # None /\ starts < MaxStarts
  /\ starts' = starts + 1
  /\ session' = [session EXCEPT ![s] =
       [Nothing EXCEPT !.pc = "call", !.op = op, !.held = TRUE, !.read = account,
                       !.tries = Tries(account.type, "auto", ProxyUrls)]]
  /\ UNCHANGED <<account, lost, since>>

\* A request for mail, with any method; scans for codes and shares hold the
\* account while list_mail runs.
StartMail(s, method, held) ==
  /\ session[s].pc = "idle" /\ account # None /\ starts < MaxStarts
  /\ starts' = starts + 1
  /\ session' = [session EXCEPT ![s] =
       [Nothing EXCEPT !.pc = "call", !.op = "mail", !.auto = method = "auto", !.held = held,
                       !.read = IF held THEN account ELSE None,
                       !.tries = Tries(account.type, method, ProxyUrls)]]
  /\ UNCHANGED <<account, lost, since>>

\* A success is all the session reports.
Succeeded(r) == [Nothing EXCEPT !.pc = "store", !.op = r.op, !.auto = r.auto, !.held = r.held,
                                !.read = r.read, !.won = Head(r.tries)]

\* Mutant: the last failure decides.
TriedLast(r, answer) ==
  IF answer.kind = "ok" THEN Succeeded(r)
  ELSE [r EXCEPT !.pc = IF Len(r.tries) = 1 THEN "store" ELSE "call", !.tries = Tail(@),
                 !.auth = r.op = "health" => answer.auth,
                 !.retry = r.op = "refresh" /\ answer.retry]

\* The attempts are made one after the other until one succeeds.
Tried(r, answer) ==
  IF answer.kind = "ok" THEN Succeeded(r)
  ELSE [r EXCEPT !.pc = IF Len(r.tries) = 1 THEN "store" ELSE "call", !.tries = Tail(@),
                 !.auth = @ /\ (r.op = "health" => answer.auth),
                 !.retry = @ \/ (r.op = "refresh" /\ answer.retry)]

\* What a later attempt may not meet any more, outages of the token endpoint included.
Transient == {"busy", "overloaded", "offline", "cut"}

\* An exception ends the request, or fails the item, with nothing recorded.
Call(s, c) ==
  LET r == session[s]
      answer == Attempt(Head(r.tries), r.op, c) IN
  /\ r.pc = "call"
  /\ session' = [session EXCEPT ![s] =
       IF answer.kind = "raised" THEN Nothing
       ELSE IF answer.kind = "ok" THEN Tried(r, answer)
       ELSE [Tried(r, answer) EXCEPT
              !.tokenless = @ /\ (r.op = "health" => c \in TokenConditions),
              !.transient = @ \/ (r.op = "refresh" /\ c \in Transient)]]
  /\ UNCHANGED <<account, lost, since, starts>>

\* What the session believes the row to be.
Seen(s) == IF session[s].held THEN session[s].read ELSE account

\* The UPDATE: columns set to the value that was read are left out.
Written(s, new) ==
  [health   |-> IF new.health = Seen(s).health THEN account.health ELSE new.health,
   failures |-> IF new.failures = Seen(s).failures THEN account.failures ELSE new.failures,
   auth     |-> IF new.auth = Seen(s).auth THEN account.auth ELSE new.auth,
   token    |-> IF new.token = Seen(s).token THEN account.token ELSE new.token,
   type     |-> IF new.type = Seen(s).type THEN account.type ELSE new.type]

Store(s, new) ==
  /\ account' = Written(s, new)
  /\ lost' = (lost \/ Seen(s) # account)
  /\ session' = [session EXCEPT ![s] = Nothing]
  /\ UNCHANGED starts

\* Mutant: a success leaves the failures that were counted.
SuccessKeepsFailures(c, r) ==
  [c EXCEPT !.health = "healthy", !.auth = "valid", !.token = "success", !.type = r.won]

\* A successful check, and _record_success.
Success(c, r) ==
  [c EXCEPT !.health = "healthy", !.failures = 0, !.auth = "valid", !.token = "success",
            !.type = r.won]

RecordSuccess(s) ==
  /\ session[s].pc = "store" /\ session[s].won # None /\ session[s].op \in {"health", "mail"}
  /\ account # None
  /\ Store(s, Success(Seen(s), session[s]))
  /\ since' = 0

\* Only a check whose codes all name credentials or a token does; those of an
\* outage of the token endpoint do too.
Withdraws(r) == r.op = "health" /\ r.auth

\* A failed check, and _record_failure of an automatic choice of the channel.
RecordFailure(s) ==
  LET r == session[s]
      c == Seen(s) IN
  /\ r.pc = "store" /\ r.won = None /\ r.op \in {"health", "mail"} /\ r.auto
  /\ account # None /\ account.failures < MaxFailures /\ c.failures < MaxFailures
  /\ Store(s, [c EXCEPT !.health = "failed", !.failures = @ + 1,
                        !.auth = IF Withdraws(r) THEN "invalid" ELSE @,
                        !.token = IF Withdraws(r) THEN "failed" ELSE @])
  /\ since' = since + 1

\* Mutant: the channel is stored whether or not one succeeded.
RefreshedWithChannel(c, r) ==
  [c EXCEPT !.token = IF r.won # None THEN "success" ELSE "failed", !.type = r.won,
            !.auth = IF r.won # None THEN "valid"
                     ELSE IF r.retry THEN @ ELSE "reauthorization_required"]

Refreshed(c, r) ==
  IF r.won # None THEN [c EXCEPT !.token = "success", !.auth = "valid", !.type = r.won]
  ELSE [c EXCEPT !.token = "failed",
                 !.auth = IF r.retry THEN @ ELSE "reauthorization_required"]

RecordRefresh(s) ==
  /\ session[s].pc = "store" /\ session[s].op = "refresh" /\ account # None
  /\ Store(s, Refreshed(Seen(s), session[s]))
  /\ UNCHANGED since

\* The lease was lost and finish_item raises, the account is gone, or the
\* request asked for one channel and failed: nothing is recorded.
RecordNothing(s) ==
  LET r == session[s] IN
  /\ r.pc = "store"
  /\ r.op # "mail" \/ account = None \/ (r.won = None /\ ~r.auto)
  /\ session' = [session EXCEPT ![s] = Nothing]
  /\ UNCHANGED <<account, lost, since, starts>>

\* handle_metadata_health_check locks the row before it reads it.  Providers
\* are not asked, so it counts failures and never ends them.
CheckMetadata ==
  /\ account # None
  /\ \/ account' = [account EXCEPT !.health = "unknown"] /\ UNCHANGED since
     \/ /\ account.failures < MaxFailures
        /\ account' = [account EXCEPT !.health = "degraded", !.failures = @ + 1]
        /\ since' = since + 1
  /\ UNCHANGED <<session, lost, starts>>

RemoveAccount ==
  /\ account # None
  /\ account' = None
  /\ UNCHANGED <<session, lost, since, starts>>

-----------------------------------------------------------------------------
HealthInit ==
  /\ account \in Initially
  /\ session = [s \in Sessions |-> Nothing]
  /\ lost = FALSE /\ since = account.failures /\ starts = 0

HealthNext ==
  \/ \E s \in Sessions :
       \/ \E op \in {"health", "refresh"} : StartJob(s, op)
       \/ \E m \in Channels \cup {"auto"}, h \in BOOLEAN : StartMail(s, m, h)
       \/ \E c \in Conditions : Call(s, c)
       \/ RecordSuccess(s) \/ RecordFailure(s) \/ RecordRefresh(s) \/ RecordNothing(s)
  \/ CheckMetadata
  \/ RemoveAccount

HealthSpec == HealthInit /\ [][HealthNext]_healthVars

-----------------------------------------------------------------------------
(* Properties                                                              *)

HealthTypeOK ==
  /\ account \in Columns \cup {None}
  /\ \A s \in Sessions :
       /\ session[s].pc \in {"idle", "call", "store"}
       /\ session[s].read \in Columns \cup {None}
       /\ session[s].won \in Channels \cup {None}
       /\ \A i \in DOMAIN session[s].tries : session[s].tries[i] \in Channels
  /\ lost \in BOOLEAN /\ since \in Nat /\ starts \in 0..MaxStarts

\* The failures of the account are those recorded since it last worked, so
\* that a healthy account has none, as long as no session has written over a
\* row that changed after it was read.
FailuresCounted ==
  account # None /\ ~lost => /\ account.failures = since
                             /\ account.health = "healthy" => since = 0

\* A working authorization is withdrawn only by a check none of whose attempts
\* had a token: each was without credentials, refused by the token endpoint, or
\* met an outage of it (429 or 5xx), which the code takes for a refusal; never
\* because of the mail service, the network or a proxy.  A new authorization is
\* asked for only by a refresh that met nothing transient at all, an outage of
\* the token endpoint included.
WorkingAuthorizationKept ==
  [][account # None /\ account' # None /\ account'.auth # account.auth =>
       \/ account'.auth \in {"valid", "unknown"}
       \/ account'.auth = "invalid" /\ \E s \in Sessions :
            /\ session[s].pc = "store" /\ session[s].op = "health"
            /\ session[s].won = None /\ session[s].tokenless
       \/ account'.auth = "reauthorization_required" /\ \E s \in Sessions :
            /\ session[s].pc = "store" /\ session[s].op = "refresh"
            /\ session[s].won = None /\ ~session[s].transient]_healthVars
=============================================================================
