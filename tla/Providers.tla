------------------------------ MODULE Providers ------------------------------
(***************************************************************************)
(* What one call of a provider adapter makes of what happens outside: the  *)
(* token endpoint, the mail service and the proxy in between.  Operations  *)
(* are "health" (check_health), "refresh" (refresh_authorization) and      *)
(* "mail" (every call on messages).                                        *)
(***************************************************************************)
EXTENDS Integers, Sequences

Channels == {"graph", "imap"}

\* What may happen to a call.  "busy" and "overloaded" are answers with status
\* 429 or 5xx of the token endpoint and of the mail service; "offline" and
\* "cut" are connections that fail before and after there is a token.
Conditions == {"ok", "no_credentials", "rejected", "busy", "no_token", "refused", "overloaded",
               "offline", "cut", "bad_proxy"}

Ok == [kind |-> "ok", auth |-> FALSE, retry |-> FALSE]

\* A ProviderOperationError or a failed result; auth: its code has CREDENTIAL
\* or TOKEN in it.
Failed(auth, retry) == [kind |-> "failed", auth |-> auth, retry |-> retry]

\* An exception that is no ProviderOperationError leaves the adapter.
Raised == [kind |-> "raised", auth |-> FALSE, retry |-> FALSE]

\* Both adapters ask the token endpoint first.
TokenConditions == {"no_credentials", "rejected", "busy", "no_token"}

TokenFailure(c) == Failed(TRUE, c = "busy")

-----------------------------------------------------------------------------
(* GraphProvider.  A network error is caught by check_health and           *)
(* refresh_authorization only, an error of the proxy nowhere.              *)

GraphAnswer(c) == IF c = "ok" THEN Ok ELSE Failed(FALSE, c = "overloaded")

GraphRefresh(c) ==
  CASE c \in TokenConditions -> TokenFailure(c)
    [] c = "bad_proxy" -> Raised
    [] c = "offline" -> Failed(FALSE, TRUE)
    [] OTHER -> Ok

GraphCheck(c) ==
  CASE c \in TokenConditions -> TokenFailure(c)
    [] c = "bad_proxy" -> Raised
    [] c \in {"offline", "cut"} -> Failed(FALSE, TRUE)
    [] OTHER -> GraphAnswer(c)

GraphMail(c) ==
  CASE c \in TokenConditions -> TokenFailure(c)
    [] c \in {"bad_proxy", "offline", "cut"} -> Raised
    [] OTHER -> GraphAnswer(c)

-----------------------------------------------------------------------------
(* ImapProvider.  The credentials are fetched outside the try of every     *)
(* call on messages; what the mail server does is caught.                  *)

ImapTokenFailure(c) == TokenFailure(c)

\* The login, a folder, a command: _imap_failure.
ServerFailure(c) == Failed(FALSE, c \in {"overloaded", "cut"})

ImapSession(c) == IF c = "ok" THEN Ok ELSE ServerFailure(c)

ImapRefresh(c) ==
  CASE c \in TokenConditions -> ImapTokenFailure(c)
    [] c = "bad_proxy" -> Raised
    [] c = "offline" -> Failed(FALSE, TRUE)
    [] OTHER -> Ok

ImapCheck(c) ==
  CASE c \in TokenConditions -> ImapTokenFailure(c)
    [] c = "bad_proxy" -> Failed(FALSE, FALSE)
    [] c = "offline" -> Failed(FALSE, TRUE)
    [] OTHER -> ImapSession(c)

ImapMail(c) ==
  CASE c \in TokenConditions -> ImapTokenFailure(c)
    [] c \in {"bad_proxy", "offline"} -> Raised
    [] OTHER -> ImapSession(c)

-----------------------------------------------------------------------------
(* ProviderRegistry                                                        *)

Attempt(channel, op, c) ==
  CASE op = "refresh" -> IF channel = "graph" THEN GraphRefresh(c) ELSE ImapRefresh(c)
    [] op = "health"  -> IF channel = "graph" THEN GraphCheck(c) ELSE ImapCheck(c)
    [] OTHER          -> IF channel = "graph" THEN GraphMail(c) ELSE ImapMail(c)

\* ordered_providers and check_health: the channel that worked last comes
\* first; a requested channel is the only one.
Order(type, method) ==
  IF method \in Channels THEN <<method>>
  ELSE IF type = "imap" THEN <<"imap", "graph">> ELSE <<"graph", "imap">>

\* Every channel is tried with every proxy, or directly if there is none.
Tries(type, method, proxies) ==
  LET n == IF proxies = 0 THEN 1 ELSE proxies
      order == Order(type, method) IN
  [i \in 1..(n * Len(order)) |-> order[1 + (i - 1) \div n]]
=============================================================================
