---------------------------- MODULE ProjectLease ----------------------------
(***************************************************************************)
(* The leases of one work project: external agents claim its accounts,     *)
(* keep the lease alive, report a result or give the account back, and     *)
(* operators administer the same rows.  An agent proves its lease with the *)
(* token of its claim; any token ever issued may be presented at any time, *)
(* so late, repeated and overtaken requests are included.                  *)
(*                                                                         *)
(* claim_project_account, set_project_status and add_project_accounts hold *)
(* the project's row lock from their first read to their commit and wait   *)
(* for nothing in between: each is one action.  A heartbeat, the end of a  *)
(* lease (completed, failed or released) and a change of several accounts  *)
(* are two, for what happens between the locks they take and their commit. *)
(***************************************************************************)
EXTENDS Integers, FiniteSets

CONSTANTS
  Rows,       \* project_accounts rows of the project
  Sessions,   \* database sessions of the API that may be open at once
  MaxClaims   \* bound on the claims that are granted

ASSUME ProjectAssumption == MaxClaims \in Nat

VARIABLES
  project,  \* work_projects.status
  status,   \* "absent" before the row is inserted, "purged" once deleted
  token,    \* lease_token_hash: the claim it belongs to, 0 for NULL
  lease,    \* lease_expires_at: after, at or before now; "none" for NULL
  issued,   \* tokens issued so far
  op,       \* what the transaction of a session does; "none": no transaction
  target,   \* the rows it is about
  shown     \* the claim whose token it presented and had checked, 0: none

vars == <<project, status, token, lease, issued, op, target, shown>>

\* The status a holder ends its lease with: complete, fail or release.
Outcomes   == {"done", "failed", "to_claim"}
RowStatus  == Outcomes \cup {"absent", "leased", "removed", "purged"}
HolderOps  == Outcomes \cup {"heartbeat"}
AdminOps   == {"reset_failed", "remove", "restore"}

\* SELECT ... FOR UPDATE on the project and on its rows.
ProjectLocked == \E s \in Sessions : op[s] \in AdminOps
RowLocked(r)  == \E s \in Sessions : op[s] \in HolderOps /\ target[s] = {r}

\* The transaction of s ends and gives its locks back.
End(s) ==
  /\ op' = [op EXCEPT ![s] = "none"]
  /\ target' = [target EXCEPT ![s] = {}]
  /\ shown' = [shown EXCEPT ![s] = 0]

-----------------------------------------------------------------------------
(* Claims                                                                  *)

Claimable(r) == status[r] = "to_claim" \/ (status[r] = "leased" /\ lease[r] = "over")

\* Mutant: the candidates are read without skipping locked rows.
ClaimTakesLocked(r) ==
  /\ project = "active" /\ ~ProjectLocked
  /\ Claimable(r)
  /\ issued < MaxClaims
  /\ issued' = issued + 1
  /\ status' = [status EXCEPT ![r] = "leased"]
  /\ token'  = [token EXCEPT ![r] = issued + 1]
  /\ lease'  = [lease EXCEPT ![r] = "live"]
  /\ UNCHANGED <<project, op, target, shown>>

\* claim_project_account.  The oldest candidate is any candidate.
Claim(r) ==
  /\ project = "active" /\ ~ProjectLocked
  /\ Claimable(r)
  /\ ~RowLocked(r)
  /\ issued < MaxClaims
  /\ issued' = issued + 1
  /\ status' = [status EXCEPT ![r] = "leased"]
  /\ token'  = [token EXCEPT ![r] = issued + 1]
  /\ lease'  = [lease EXCEPT ![r] = "live"]
  /\ UNCHANGED <<project, op, target, shown>>

-----------------------------------------------------------------------------
(* The holder                                                              *)

\* _leased_row: the row is locked, then the token and the expiry are checked.
\* Any other request ends with PROJECT_LEASE_INVALID.
HoldLease(s, r, t) ==
  /\ op[s] = "none" /\ ~RowLocked(r)
  /\ status[r] = "leased" /\ token[r] = t /\ lease[r] = "live"
  /\ \E o \in HolderOps : op' = [op EXCEPT ![s] = o]
  /\ target' = [target EXCEPT ![s] = {r}]
  /\ shown' = [shown EXCEPT ![s] = t]
  /\ UNCHANGED <<project, status, token, lease, issued>>

\* The project_events row a request writes refers to the project, so its
\* INSERT waits while another session has the project FOR UPDATE.
Heartbeat(s) ==
  /\ op[s] = "heartbeat" /\ ~ProjectLocked
  /\ lease' = [r \in Rows |-> IF r \in target[s] THEN "live" ELSE lease[r]]
  /\ End(s)
  /\ UNCHANGED <<project, status, token, issued>>

\* finish_project_lease: the row is done, failed, or to be claimed again.
Finish(s) ==
  /\ op[s] \in Outcomes /\ ~ProjectLocked
  /\ status' = [r \in Rows |-> IF r \in target[s] THEN op[s] ELSE status[r]]
  /\ token'  = [r \in Rows |-> IF r \in target[s] THEN 0 ELSE token[r]]
  /\ lease'  = [r \in Rows |-> IF r \in target[s] THEN "none" ELSE lease[r]]
  /\ End(s)
  /\ UNCHANGED <<project, issued>>

-----------------------------------------------------------------------------
(* Administration                                                          *)

\* create_project (to_claim rows of a project nobody knows yet) and
\* add_project_accounts (ON CONFLICT DO NOTHING).
AddAccounts ==
  /\ ~ProjectLocked
  /\ \E S \in (SUBSET Rows) \ {{}} :
       status' = [r \in Rows |->
                    IF r \in S /\ status[r] = "absent" THEN "to_claim" ELSE status[r]]
  /\ UNCHANGED <<project, token, lease, issued, op, target, shown>>

\* set_project_status, to any status from any status.
SetStatus ==
  /\ ~ProjectLocked
  /\ project' \in {"active", "paused", "completed"}
  /\ UNCHANGED <<status, token, lease, issued, op, target, shown>>

\* mutate_project_accounts takes the project's lock, ...
BeginAdmin(s) ==
  /\ op[s] = "none" /\ ~ProjectLocked
  /\ \E o \in AdminOps : op' = [op EXCEPT ![s] = o]
  /\ \E S \in (SUBSET Rows) \ {{}} : target' = [target EXCEPT ![s] = S]
  /\ UNCHANGED <<project, status, token, lease, issued, shown>>

\* Mutants: remove also takes leased rows; the new status is not the one of
\* the CHECK constraint.
RemovesLeased(o, st) ==
  \/ o = "reset_failed" /\ st = "failed"
  \/ o = "remove" /\ st \in {"to_claim", "leased", "done", "failed"}
  \/ o = "restore" /\ st = "removed"

Applies(o, st) ==
  \/ o = "reset_failed" /\ st = "failed"
  \/ o = "remove" /\ st \in {"to_claim", "done", "failed"}
  \/ o = "restore" /\ st = "removed"

StatusIsAction(o) == IF o = "remove" THEN "remove" ELSE "to_claim"

NewStatus(o) == IF o = "remove" THEN "removed" ELSE "to_claim"

\* ... then the locks of the rows, waiting for their holders, and writes.
\* A lease that has expired is skipped like one that has not.
CommitAdmin(s) ==
  /\ op[s] \in AdminOps
  /\ \A r \in target[s] : ~RowLocked(r)
  /\ LET Changed == {r \in target[s] : Applies(op[s], status[r])} IN
       /\ status' = [r \in Rows |-> IF r \in Changed THEN NewStatus(op[s]) ELSE status[r]]
       /\ token'  = [r \in Rows |-> IF r \in Changed THEN 0 ELSE token[r]]
       /\ lease'  = [r \in Rows |-> IF r \in Changed THEN "none" ELSE lease[r]]
  /\ End(s)
  /\ UNCHANGED <<project, issued>>

\* A holder waits for the project an administrator has locked while the
\* administrator waits for the holder's row: PostgreSQL aborts one of them.
Deadlocked(h, a) == op[h] \in HolderOps /\ op[a] \in AdminOps /\ target[h] \subseteq target[a]

AbortDeadlocked(s) ==
  /\ \E t \in Sessions : Deadlocked(s, t) \/ Deadlocked(t, s)
  /\ End(s)
  /\ UNCHANGED <<project, status, token, lease, issued>>

\* Deleting the account deletes the row (ON DELETE CASCADE) when it gets its
\* lock.  claim_project_account cannot meet a row without an account.
Purge(r) ==
  /\ status[r] \notin {"absent", "purged"} /\ ~RowLocked(r)
  /\ status' = [status EXCEPT ![r] = "purged"]
  /\ token'  = [token EXCEPT ![r] = 0]
  /\ lease'  = [lease EXCEPT ![r] = "none"]
  /\ UNCHANGED <<project, issued, op, target, shown>>

\* Time passes, also between the check of a lease and its commit.
Tick(r) ==
  /\ lease[r] \in {"live", "due"}
  /\ lease' = [lease EXCEPT ![r] = IF lease[r] = "live" THEN "due" ELSE "over"]
  /\ UNCHANGED <<project, status, token, issued, op, target, shown>>

-----------------------------------------------------------------------------
Init ==
  /\ project = "active"
  /\ status = [r \in Rows |-> "absent"]
  /\ token = [r \in Rows |-> 0]
  /\ lease = [r \in Rows |-> "none"]
  /\ issued = 0
  /\ op = [s \in Sessions |-> "none"]
  /\ target = [s \in Sessions |-> {}]
  /\ shown = [s \in Sessions |-> 0]

Next ==
  \/ \E r \in Rows : Claim(r) \/ Purge(r) \/ Tick(r)
  \/ \E s \in Sessions, r \in Rows, t \in 1..issued : HoldLease(s, r, t)
  \/ \E s \in Sessions : Heartbeat(s) \/ Finish(s)
  \/ \E s \in Sessions : BeginAdmin(s) \/ CommitAdmin(s) \/ AbortDeadlocked(s)
  \/ AddAccounts \/ SetStatus

Spec == Init /\ [][Next]_vars

-----------------------------------------------------------------------------
(* Properties                                                              *)

TypeOK ==
  /\ project \in {"active", "paused", "completed"}
  /\ status \in [Rows -> RowStatus]
  /\ token \in [Rows -> 0..issued]
  /\ lease \in [Rows -> {"none", "live", "due", "over"}]
  /\ issued \in 0..MaxClaims
  /\ op \in [Sessions -> HolderOps \cup AdminOps \cup {"none"}]
  /\ target \in [Sessions -> SUBSET Rows]
  /\ shown \in [Sessions -> 0..issued]

\* The token and the expiry of a row are set exactly while it is leased, so
\* what one part of the service clears no other part finds again.
LeaseColumns ==
  \A r \in Rows : /\ status[r] = "leased" <=> token[r] # 0
                  /\ status[r] = "leased" <=> lease[r] # "none"

\* Two agents never hold the same row: a request that passed _leased_row
\* still finds its own claim on the row when it writes, although the lease may
\* expire in between while others claim, administer and purge, and no second
\* request is about to write the row.
HolderFence ==
  \A s \in Sessions : op[s] \in HolderOps =>
    /\ \A r \in target[s] : status[r] = "leased" /\ token[r] = shown[s] /\ shown[s] # 0
    /\ \A t \in Sessions \ {s} : op[t] \in HolderOps => target[t] # target[s]

\* A lease ends in three ways only: its own holder completes, fails or releases
\* it, another claim takes it after its expiry, or its account is deleted.  In
\* particular pausing the project, removing accounts and aborted transactions
\* end no lease, and no agent ends the lease of another: a request that comes
\* after a release does not end the lease of the next holder.
LeaseEndsDuly ==
  \A r \in Rows : (token[r] # 0 /\ token'[r] # token[r]) =>
    \/ \E s \in Sessions : /\ op[s] \in Outcomes /\ target[s] = {r}
                           /\ op'[s] = "none" /\ status'[r] = op[s]
    \/ lease[r] = "over" /\ token'[r] = issued' /\ issued' = issued + 1
    \/ status'[r] = "purged"

LeaseRespected == [][LeaseEndsDuly]_vars
=============================================================================
