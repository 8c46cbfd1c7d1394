----------------------------- MODULE MCAccounts -----------------------------
(***************************************************************************)
(* TLC's instances of Secrets, AccountHealth, Directory and BulkPreviews.  *)
(* They share no state, so one run checks them side by side: every         *)
(* behaviour is one of the component that running names, and leaves the    *)
(* others as they began.  Secrets comes twice, with every table and with   *)
(* many saves of one account; Directory too, with several edits of one     *)
(* account and with several addresses.                                     *)
(***************************************************************************)
EXTENDS Secrets, AccountHealth, Directory, BulkPreviews, TLC

VARIABLE running

\* The rows an account may have before anyone works on it.
UntriedOrWorking ==
  {[health |-> "unknown", failures |-> 0, auth |-> "unknown", token |-> "unknown",
    type |-> "unknown"],
   [health |-> "healthy", failures |-> 0, auth |-> "valid", token |-> "success",
    type |-> "graph"],
   [health |-> "failed", failures |-> 1, auth |-> "valid", token |-> "success",
    type |-> "imap"]}

allVars == <<running, secretVars, healthVars, directoryVars, bulkVars>>

AllInit ==
  /\ running \in {"secrets", "tokens", "health", "versions", "addresses", "bulk"}
  /\ SecretInit
  /\ HealthInit
  /\ running # "health" => account.health = "unknown"
  /\ DirectoryInit
  /\ Init
  /\ running # "bulk" => \A a \in Bulked : has[a] = FALSE

\* Bounds for Secrets: accounts only, or few saves.
AccountsOnly == \A r \in Rows \ AccountRows : version[r] = 0

FewSaves == \A a \in AccountRows : saves[a] <= 1

\* Bounds for Directory: several edits of one account, without imports and aliases ...
OneAccount ==
  /\ \A a \in Exists : ~row[a].quiet
  /\ \E a \in Accounts :
       /\ Exists \subseteq {a}
       /\ \A c \in Clients : shown[c] # None => shown[c].account = a
  /\ batch = "none"
  /\ \A e \in Editors : edit[e] # None => edit[e].kind # "aliases"

\* ... or one edit of each, one edit without a lock at a time, and quiet ones of
\* an account that was imported.
EditedOnce ==
  /\ \A a \in Accounts : row[a] # None => row[a].edits <= 1 /\ row[a].version <= 2
  /\ Cardinality({e \in Editors : edit[e] # None}) <= 1
  /\ Cardinality({a \in Exists : row[a].quiet}) <= 1
  /\ \A a \in Exists : row[a].quiet => \E x \in Lines : made[x] = a

AllNext ==
  \/ /\ running = "secrets" /\ SecretNext /\ FewSaves'
     /\ UNCHANGED <<running, healthVars, directoryVars, bulkVars>>
  \/ /\ running = "tokens" /\ SecretNext /\ AccountsOnly'
     /\ UNCHANGED <<running, healthVars, directoryVars, bulkVars>>
  \/ /\ running = "health" /\ HealthNext
     /\ UNCHANGED <<running, secretVars, directoryVars, bulkVars>>
  \/ /\ running = "versions" /\ DirectoryNext /\ OneAccount'
     /\ UNCHANGED <<running, secretVars, healthVars, bulkVars>>
  \/ /\ running = "addresses" /\ DirectoryNext /\ EditedOnce'
     /\ UNCHANGED <<running, secretVars, healthVars, bulkVars>>
  \/ /\ running = "bulk" /\ Next
     /\ UNCHANGED <<running, secretVars, healthVars, directoryVars>>

AllSpec == AllInit /\ [][AllNext]_allVars

Symmetry == Permutations(Sessions)

-----------------------------------------------------------------------------
\* The type invariants of the components.
AllTypeOK == SecretTypeOK /\ HealthTypeOK /\ DirectoryTypeOK /\ TypeOK
=============================================================================
