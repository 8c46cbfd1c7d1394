------------------------------ MODULE Directory ------------------------------
(***************************************************************************)
(* The account directory: accounts and their aliases, edited one by one    *)
(* and created and deleted by an import.                                   *)
(*                                                                         *)
(* update_account and archive_account lock the row.  Edits of tags,        *)
(* aliases and the proxy of an account, and purges, read it without a      *)
(* lock: OpenEdit, then CommitEdit, which stores the row_version that was  *)
(* read plus one.  Writing the secrets of an account and deleting its      *)
(* group leave the row_version alone.                                      *)
(***************************************************************************)
EXTENDS Integers, FiniteSets, Null

CONSTANTS
  Accounts,   \* ids of accounts
  Addresses,  \* normalized e-mail addresses
  Clients,    \* users that look at an account and send an update for it
  Editors,   \* API sessions with an edit that takes no lock
  Lines,      \* valid lines of the import batch: addresses
  MaxEdits    \* bound on the edits of an account

\* What the constants have to be.
ASSUME DirectoryAssumption ==
  /\ Lines \subseteq Addresses
  /\ MaxEdits \in Nat
  /\ None \notin Accounts \cup Addresses

VARIABLES
  row,       \* accounts: address, row_version, and how it was really edited
  alias,     \* account_aliases: the account of each address
  shown,     \* what a client has been shown of an account
  edit,      \* edits that take no lock, between their read and their commit
  batch,     \* status of the import batch
  item,      \* status of its lines
  made,      \* account that a line has created
  reading,   \* the lines commit_import_batch has found free
  overrun,   \* accounts an unlocked edit has given a version that was not the next
  unseen,    \* accounts a client has changed without having been shown a counted edit
  loose,     \* addresses that became primary unchecked, or were checked in two transactions at once
  edited     \* accounts a rollback has deleted although they were edited, and how

directoryVars == <<row, alias, shown, edit, batch, item, made, reading, overrun, unseen, loose,
                   edited>>

\* Edits that raise the version are counted, of the quiet ones whether there is any.
Row == [address: Addresses, version: 1..MaxEdits + 1, edits: 0..MaxEdits, quiet: BOOLEAN]

Exists == {a \in Accounts : row[a] # None}

Primary(x) == \E a \in Exists : row[a].address = x

Aliased(x) == alias[x] # None

\* A session has checked the address as an alias and not yet committed it.
Pending(x) == \E e \in Editors : edit[e] # None /\ x \in edit[e].aliases

\* An id no account has.  The id of a purged account may be drawn again, which uuid4
\* does not do; that of an imported one is not, so made names it even after the
\* foreign key of the item is set to NULL.
Fresh(a) == row[a] = None /\ \A x \in Addresses : made[x] # a

Without(a) == [x \in Addresses |-> IF alias[x] = a THEN None ELSE alias[x]]

NewRow(x) == [address |-> x, version |-> 1, edits |-> 0, quiet |-> FALSE]

ImportUnchanged == UNCHANGED <<batch, item, made, reading>>

-----------------------------------------------------------------------------
(* Accounts                                                                *)

\* create_account: the unique index is the only check, aliases are not asked.
CreateAccount(a, x) ==
  /\ Fresh(a) /\ ~Primary(x)
  /\ row' = [row EXCEPT ![a] = NewRow(x)]
  /\ loose' = IF Aliased(x) \/ Pending(x) THEN loose \cup {x} ELSE loose
  /\ UNCHANGED <<alias, shown, edit, overrun, unseen, edited>>
  /\ ImportUnchanged

\* get_account.
Show(c, a) ==
  /\ a \in Exists
  /\ shown' = [shown EXCEPT ![c] = [account |-> a, version |-> row[a].version,
                                        edits |-> row[a].edits]]
  /\ UNCHANGED <<row, alias, edit, overrun, unseen, loose, edited>>
  /\ ImportUnchanged

\* Mutant: the version is not compared.
CurrentAlways(c) == shown[c] # None /\ shown[c].account \in Exists

\* The row_version of the request is that of the locked row.
Current(c) ==
  /\ shown[c] # None /\ shown[c].account \in Exists
  /\ row[shown[c].account].version = shown[c].version

Renewed(r, x) == [r EXCEPT !.address = x, !.version = @ + 1, !.edits = @ + 1]

\* update_account with another address or the same one, or archive_account.
Update(c, x) ==
  LET a == shown[c].account IN
  /\ Current(c)
  /\ row[a].edits < MaxEdits /\ row[a].version <= MaxEdits
  /\ \A b \in Exists \ {a} : row[b].address # x
  /\ row' = [row EXCEPT ![a] = Renewed(@, x)]
  /\ unseen' = IF shown[c].edits # row[a].edits THEN unseen \cup {a} ELSE unseen
  /\ loose' = IF x # row[a].address /\ (Aliased(x) \/ Pending(x)) THEN loose \cup {x} ELSE loose
  /\ shown' = [shown EXCEPT ![c] = None]
  /\ UNCHANGED <<alias, edit, overrun, edited>>
  /\ ImportUnchanged

-----------------------------------------------------------------------------
(* Edits without a lock                                                    *)

\* mutate_account_tags, assign_account_proxy and purge_account read the
\* account; replace_account_aliases also looks for the aliases elsewhere.
OpenEdit(e, a, kind, aliases) ==
  /\ edit[e] = None /\ a \in Exists
  /\ kind # "aliases" => aliases = {}
  /\ \A x \in aliases : ~Primary(x) /\ alias[x] \in {None, a}
  /\ edit' = [edit EXCEPT ![e] = [account |-> a, kind |-> kind, aliases |-> aliases,
                                  version |-> row[a].version]]
  /\ UNCHANGED <<row, alias, shown, overrun, unseen, loose, edited>>
  /\ ImportUnchanged

\* Mutant: row_version stays as it is.
EditedSilently(r, version) == [r EXCEPT !.edits = @ + 1]

\* The UPDATE stores the version that was read plus one.
Edited(r, version) == [r EXCEPT !.version = version + 1, !.edits = @ + 1]

CommitEdit(e) ==
  LET d == edit[e]
      a == d.account IN
  /\ d # None /\ d.kind # "purge" /\ a \in Exists
  /\ row[a].edits < MaxEdits /\ d.version <= MaxEdits
  /\ \A x \in d.aliases : alias[x] \in {None, a}
  /\ row' = [row EXCEPT ![a] = Edited(@, d.version)]
  /\ alias' = IF d.kind = "aliases"
              THEN [x \in Addresses |-> IF x \in d.aliases THEN a ELSE Without(a)[x]] ELSE alias
  /\ overrun' = IF d.version # row[a].version THEN overrun \cup {a} ELSE overrun
  /\ loose' = loose \cup (d.aliases \cap reading)
  /\ edit' = [edit EXCEPT ![e] = None]
  /\ UNCHANGED <<shown, unseen, edited>>
  /\ ImportUnchanged

\* The account is gone, or an alias was taken meanwhile: an IntegrityError.
EditFails(e) ==
  /\ edit[e] # None
  /\ \/ edit[e].account \notin Exists
     \/ \E x \in edit[e].aliases : alias[x] \notin {None, edit[e].account}
  /\ edit' = [edit EXCEPT ![e] = None]
  /\ UNCHANGED <<row, alias, shown, overrun, unseen, loose, edited>>
  /\ ImportUnchanged

\* purge_account has compared the address of the request when it read the row.
Purge(e) ==
  /\ edit[e] # None /\ edit[e].kind = "purge"
  /\ row' = [row EXCEPT ![edit[e].account] = None]
  /\ alias' = Without(edit[e].account)
  /\ edit' = [edit EXCEPT ![e] = None]
  /\ UNCHANGED <<shown, overrun, unseen, loose, edited>>
  /\ ImportUnchanged

\* write_account_secrets, and the UPDATE of delete_group.
EditQuietly(a) ==
  /\ a \in Exists
  /\ row' = [row EXCEPT ![a].quiet = TRUE]
  /\ UNCHANGED <<alias, shown, edit, overrun, unseen, loose, edited>>
  /\ ImportUnchanged

-----------------------------------------------------------------------------
(* Imports                                                                 *)

\* Mutant: aliases are not looked up.
OccupiedByPrimary(x) == Primary(x)

\* _existing_email_set, and the two queries of commit_import_batch.
Occupied(x) == Primary(x) \/ Aliased(x)

\* create_import_batch checks every line and stores the batch.
CreateBatch ==
  /\ batch = "none"
  /\ batch' = "validated"
  /\ item' = [x \in Lines |-> IF Occupied(x) THEN "conflict" ELSE "valid"]
  /\ UNCHANGED <<row, alias, shown, edit, made, reading, overrun, unseen, loose, edited>>

\* commit_import_batch locks the batch and checks the valid lines again ...
CommitRead ==
  /\ batch = "validated"
  /\ batch' = "committing"
  /\ reading' = {x \in Lines : item[x] = "valid" /\ ~Occupied(x)}
  /\ UNCHANGED <<row, alias, shown, edit, item, made, overrun, unseen, loose, edited>>

Outcome(x) == IF item[x] # "valid" THEN item[x]
              ELSE IF x \notin reading THEN "skipped"
              ELSE IF Primary(x) THEN "failed" ELSE "created"

Final(created, failed) ==
  IF created # {} /\ created # Lines THEN "partial"
  ELSE IF failed # {} THEN "failed" ELSE "completed"

\* ... and inserts an account for each of them; the unique index refuses what
\* became a primary address meanwhile.
CommitBatch ==
  LET created == {x \in Lines : Outcome(x) = "created"} IN
  /\ batch = "committing"
  /\ \E new \in [created -> {a \in Accounts : Fresh(a)}] :
       /\ \A x, y \in created : new[x] = new[y] => x = y
       /\ row' = [a \in Accounts |-> IF \E x \in created : new[x] = a
                                     THEN NewRow(CHOOSE x \in created : new[x] = a) ELSE row[a]]
       /\ made' = [x \in Addresses |-> IF x \in created THEN new[x] ELSE made[x]]
  /\ item' = [x \in Lines |-> Outcome(x)]
  /\ batch' = Final(created, {x \in Lines : Outcome(x) = "failed"})
  /\ loose' = loose \cup {x \in created : Pending(x)}
  /\ reading' = {}
  /\ UNCHANGED <<alias, shown, edit, overrun, unseen, edited>>

\* Mutant: an account is deleted whatever its version.
UntouchedAlways(x) == made[x] \in Exists

\* The locked row has the version the import has given it.
Untouched(x) == made[x] \in Exists /\ row[made[x]].version = 1

\* The kinds of edits an account has had.
EditsOf(a) == {k \in {"counted", "quiet"} : IF k = "quiet" THEN row[a].quiet ELSE row[a].edits > 0}

\* rollback_import_batch deletes them, and may be called again for the others.
\* It skips the purged ones, whose items lost their account, but counts one
\* that is purged after it has read the items as changed.
RollbackBatch ==
  \E created \in SUBSET {x \in Lines : item[x] = "created"} :
  LET back == {x \in created : Untouched(x)} IN
  /\ \A x \in Lines : item[x] = "created" /\ made[x] \in Exists => x \in created
  /\ batch \in {"completed", "partial"}
  /\ row' = [a \in Accounts |-> IF \E x \in back : made[x] = a THEN None ELSE row[a]]
  /\ alias' = [x \in Addresses |-> IF \E y \in back : made[y] = alias[x] THEN None ELSE alias[x]]
  /\ edited' = edited \cup UNION {{made[x]} \X EditsOf(made[x]) : x \in back}
  /\ item' = [x \in Lines |-> IF x \in back THEN "rolled_back" ELSE item[x]]
  /\ batch' = IF back # created THEN "partial" ELSE "rolled_back"
  /\ UNCHANGED <<shown, edit, made, reading, overrun, unseen, loose>>

-----------------------------------------------------------------------------
DirectoryInit ==
  /\ row = [a \in Accounts |-> None]
  /\ alias = [x \in Addresses |-> None]
  /\ shown = [c \in Clients |-> None]
  /\ edit = [e \in Editors |-> None]
  /\ batch = "none" /\ reading = {}
  /\ item = [x \in Lines |-> "none"]
  /\ made = [x \in Addresses |-> None]
  /\ overrun = {} /\ unseen = {} /\ loose = {} /\ edited = {}

DirectoryNext ==
  \/ \E a \in Accounts, x \in Addresses : CreateAccount(a, x)
  \/ \E c \in Clients, a \in Accounts : Show(c, a)
  \/ \E c \in Clients, x \in Addresses : Update(c, x)
  \/ \E e \in Editors :
       \/ \E a \in Accounts, k \in {"tags", "aliases", "purge"}, S \in SUBSET Addresses :
            OpenEdit(e, a, k, S)
       \/ CommitEdit(e) \/ EditFails(e) \/ Purge(e)
  \/ \E a \in Accounts : EditQuietly(a)
  \/ CreateBatch \/ CommitRead \/ CommitBatch \/ RollbackBatch

DirectorySpec == DirectoryInit /\ [][DirectoryNext]_directoryVars

-----------------------------------------------------------------------------
(* Properties                                                              *)

DirectoryTypeOK ==
  /\ row \in [Accounts -> Row \cup {None}]
  /\ alias \in [Addresses -> Accounts \cup {None}]
  /\ batch \in {"none", "validated", "committing", "completed", "partial", "failed", "rolled_back"}
  /\ \A x \in Lines : item[x] \in {"none", "valid", "conflict", "created", "skipped", "failed",
                                   "rolled_back"}
  /\ made \in [Addresses -> Accounts \cup {None}]
  /\ reading \subseteq Lines
  /\ overrun \subseteq Accounts /\ unseen \subseteq Accounts
  /\ edited \subseteq Accounts \X {"counted", "quiet"}
  /\ loose \subseteq Addresses

\* A client changes an account only when it has been shown every edit before
\* that raised the version, unless an edit without a lock has overrun it.
EditsAreSeen == unseen \subseteq overrun

\* An address is the primary address of one account, and no alias of another,
\* unless an account was created with or renamed to an alias, or the check of
\* an alias or an import and the commit of another session overlapped.
AddressesUnique ==
  \A x \in Addresses :
    /\ Cardinality({a \in Exists : row[a].address = x}) <= 1
    /\ (\E a \in Exists : row[a].address = x) /\ alias[x] # None => x \in loose

\* Rolling back an import deletes no account since whose creation an edit has
\* raised the version, even one that was overrun: what it loses is quiet edits.
RollbackKeepsEdits == \A a \in Accounts : <<a, "counted">> \notin edited

\* Nobody undoes an edit he was not shown, by another edit or by rolling back an
\* import, as far as edits raise the version: secrets that were written and
\* groups that were deleted since then are overlooked by both.
EditsSurvive == EditsAreSeen /\ RollbackKeepsEdits
=============================================================================
