---------------------------- MODULE BulkPreviews ----------------------------
(***************************************************************************)
(* Bulk mutations of accounts: a preview stores which accounts match and   *)
(* how many would change; its token executes the mutation once, within     *)
(* fifteen minutes, on what the accounts have become.                      *)
(*                                                                         *)
(* For an account only one thing matters here: whether it already has the  *)
(* life cycle status, group, tags and forwarding that are asked for.       *)
(***************************************************************************)
EXTENDS Integers, FiniteSets, Sequences

CONSTANTS
  Bulked,      \* accounts
  Executions,  \* API sessions that execute the preview
  MaxVersion,  \* bound on row_version
  Absent       \* an account that was purged

\* What the constants have to be.
ASSUME BulkAssumption == IsFiniteSet(Bulked) /\ MaxVersion \in Nat \ {0}

VARIABLES
  has,        \* the accounts that exist: whether the mutation would change nothing
  rowVersion, \* their row_version
  preview,    \* the account_bulk_previews row
  expired,    \* fifteen minutes have passed
  executing,  \* execute_bulk_preview calls: what they are doing
  results,    \* updated_count of every execution
  disturbed   \* a previewed account was changed by someone else

bulkVars == <<has, rowVersion, preview, expired, executing, results, disturbed>>

Present == {a \in Bulked : has[a] # Absent}

\* bulk_changed_account_ids: the accounts of S the mutation would change.
Changes(S) == {a \in S \cap Present : ~has[a]}

NoPreview == [accounts |-> {}, eligible |-> 0, consumed |-> FALSE]

-----------------------------------------------------------------------------
\* create_bulk_preview: the ids or the filter have selected accounts that
\* exist; no account is an error.
CreatePreview ==
  /\ preview = NoPreview
  /\ \E S \in (SUBSET Present) \ {{}} :
       preview' = [accounts |-> S, eligible |-> Cardinality(Changes(S)), consumed |-> FALSE]
  /\ UNCHANGED <<has, rowVersion, expired, executing, results, disturbed>>

Expire ==
  /\ preview # NoPreview /\ ~expired
  /\ expired' = TRUE
  /\ UNCHANGED <<has, rowVersion, preview, executing, results, disturbed>>

\* Mutant: the SELECT of the preview takes no lock.
UnlockedAlways == TRUE

\* execute_bulk_preview selects the preview FOR UPDATE.
Unlocked == \A p \in Executions : executing[p] = "idle"

\* 409 for a token that was used and 410 for one that has expired.
Execute(p) ==
  /\ preview # NoPreview /\ executing[p] = "idle" /\ Unlocked
  /\ ~preview.consumed /\ ~expired
  /\ executing' = [executing EXCEPT ![p] = "locked"]
  /\ UNCHANGED <<has, rowVersion, preview, expired, results, disturbed>>

\* Mutant: every account that matched counts as updated.
UpdatedMatched(S) == S \cap Present

\* bulk_mutate_accounts works out the changes again, on locked rows.
Updated(S) == Changes(S)

\* The mutation and consumed_at are one transaction.
Commit(p) ==
  LET U == Updated(preview.accounts) IN
  /\ executing[p] = "locked"
  /\ \A a \in U : rowVersion[a] < MaxVersion
  /\ has' = [a \in Bulked |-> IF a \in U THEN TRUE ELSE has[a]]
  /\ rowVersion' = [a \in Bulked |-> IF a \in U THEN rowVersion[a] + 1 ELSE rowVersion[a]]
  /\ preview' = [preview EXCEPT !.consumed = TRUE]
  /\ results' = results \o <<Cardinality(U)>>
  /\ executing' = [executing EXCEPT ![p] = "idle"]
  /\ UNCHANGED <<expired, disturbed>>

\* Its group or tags were deleted, or the session dies: all is rolled back and
\* the token can be used again.
Fail(p) ==
  /\ executing[p] = "locked"
  /\ executing' = [executing EXCEPT ![p] = "idle"]
  /\ UNCHANGED <<has, rowVersion, preview, expired, results, disturbed>>

-----------------------------------------------------------------------------
\* update_account and archive_account.
ChangeAccount(a) ==
  /\ a \in Present /\ rowVersion[a] < MaxVersion
  /\ has' = [has EXCEPT ![a] = ~@]
  /\ rowVersion' = [rowVersion EXCEPT ![a] = @ + 1]
  /\ disturbed' = (disturbed \/ a \in preview.accounts)
  /\ UNCHANGED <<preview, expired, executing, results>>

PurgeAccount(a) ==
  /\ a \in Present
  /\ has' = [has EXCEPT ![a] = Absent]
  /\ disturbed' = (disturbed \/ a \in preview.accounts)
  /\ UNCHANGED <<rowVersion, preview, expired, executing, results>>

-----------------------------------------------------------------------------
Init ==
  /\ has \in [Bulked -> BOOLEAN]
  /\ rowVersion = [a \in Bulked |-> 1]
  /\ preview = NoPreview /\ expired = FALSE
  /\ executing = [p \in Executions |-> "idle"]
  /\ results = <<>> /\ disturbed = FALSE

Next ==
  \/ CreatePreview \/ Expire
  \/ \E p \in Executions : Execute(p) \/ Commit(p) \/ Fail(p)
  \/ \E a \in Bulked : ChangeAccount(a) \/ PurgeAccount(a)

Spec == Init /\ [][Next]_bulkVars

-----------------------------------------------------------------------------
(* Properties                                                              *)

TypeOK ==
  /\ has \in [Bulked -> BOOLEAN \cup {Absent}]
  /\ rowVersion \in [Bulked -> 1..MaxVersion]
  /\ preview \in [accounts: SUBSET Bulked, eligible: Nat, consumed: BOOLEAN]
  /\ expired \in BOOLEAN /\ disturbed \in BOOLEAN
  /\ executing \in [Executions -> {"idle", "locked"}]
  /\ \A i \in DOMAIN results : results[i] \in 0..Cardinality(Bulked)

\* The execution changes as many accounts as the preview has announced, unless
\* someone else changed one of them in between.
PreviewIsKept == ~disturbed => \A i \in DOMAIN results : results[i] = preview.eligible

\* To its users a preview is a token that works once and not after it expired;
\* it expires when nobody is executing it.
Token == INSTANCE OneShotToken WITH
  uses <- Len(results),
  token <- IF preview = NoPreview THEN "none"
           ELSE IF preview.consumed THEN "used"
           ELSE IF expired /\ Unlocked THEN "expired" ELSE "open"

\* Executions that overlap, fail or come late keep to that.
PreviewIsOneShot == Token!Spec

\* What a preview promises.
PreviewHolds == PreviewIsOneShot /\ [][PreviewIsKept']_bulkVars
=============================================================================
