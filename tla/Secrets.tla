------------------------------- MODULE Secrets -------------------------------
(***************************************************************************)
(* Encrypted columns and the rotation of the master key.  Four tables hold *)
(* ciphertexts next to the version of the key that wrote them.  A process  *)
(* has one key and version for its lifetime; the operator restarts it with *)
(* the next one, then asks it to re-encrypt the rows of the previous one.  *)
(*                                                                         *)
(* Writes read their row without a lock and compare its version with their *)
(* own; the UPDATE of the flush writes the columns that were set and not   *)
(* the version, which was set to the value it had.  A column that is set   *)
(* to NULL and was NULL when the row was read is not in the UPDATE.        *)
(***************************************************************************)
EXTENDS Integers, FiniteSets, Null

CONSTANTS
  AccountRows, ProxyRows, DestinationRows, ItemRows,  \* rows of the four tables
  Processes,    \* API and worker processes
  MaxKey,       \* bound on the version of the master key
  MaxSaves      \* bound on the saves of a refresh token

Rows == AccountRows \cup ProxyRows \cup DestinationRows \cup ItemRows

\* What the constants have to be.
ASSUME SecretsAssumption ==
  /\ IsFiniteSet(Rows)
  /\ MaxKey \in Nat \ {0} /\ MaxSaves \in Nat
  /\ None \notin Rows
  /\ AccountRows \cap ItemRows = {}

VARIABLES
  version,   \* key_version of each row; 0 before it is inserted, Deleted after
  cipher,    \* ciphertext columns: the version that wrote them and the save they go back to
  process,   \* the key of each process and what it is doing
  saves,     \* how many tokens the user has saved for an account
  torn,      \* rows that were rotated between the read and the write of another process
  raced,     \* accounts whose token was last saved while it was being refreshed
  retired    \* versions rotated away after every process with their key had stopped

secretVars == <<version, cipher, process, saves, torn, raced, retired>>

Fields(r) == IF r \in AccountRows \cup ItemRows THEN {"password", "refresh_token"}
             ELSE IF r \in ProxyRows THEN {"primary_url", "fallback_url"}
             ELSE {"secret"}

FieldNames == {"password", "refresh_token", "primary_url", "fallback_url", "secret"}

Slots == {s \in Rows \X FieldNames : s[2] \in Fields(s[1])}

Versions == 1..MaxKey
Deleted == -1

Ciphertext == [by: Versions, save: 0..MaxSaves]

Process == [key: Versions, pc: {"idle", "write", "refresh", "import", "rotate"},
            row: Rows \cup {None}, fields: SUBSET FieldNames, loaded: 0..MaxKey,
            nulls: SUBSET FieldNames, save: 0..MaxSaves, locked: SUBSET Rows, last: BOOLEAN]

Idle(k) == [key |-> k, pc |-> "idle", row |-> None, fields |-> {}, loaded |-> 0,
            nulls |-> {}, save |-> 0, locked |-> {}, last |-> FALSE]

Done(p) == [process EXCEPT ![p] = Idle(@.key)]

Locked(r) == \E p \in Processes : r \in process[p].locked

\* What a process p may read: decrypt raises for other versions and tags.
Decrypts(p, r) ==
  /\ version[r] = process[p].key
  /\ \A f \in Fields(r) : cipher[<<r, f>>] # None => cipher[<<r, f>>].by = version[r]

-----------------------------------------------------------------------------
(* Writing                                                                 *)

\* A proxy write replaces every URL, the others the fields they are given.
FieldsWritten(r) == IF r \in ProxyRows THEN {Fields(r)} ELSE (SUBSET Fields(r)) \ {{}}

\* The columns of F that hold nothing.
Nulls(r, F) == {f \in F : cipher[<<r, f>>] = None}

\* A process that has read r and is going to set F.
Writing(p, r, F) ==
  [key |-> process[p].key, pc |-> "write", row |-> r, fields |-> F, loaded |-> version[r],
   nulls |-> Nulls(r, F), save |-> 0, locked |-> {}, last |-> FALSE]

\* Mutant: the version of the row is not compared with the active one.
WriteReadUnchecked(p, r) ==
  /\ process[p].pc = "idle" /\ r \notin ItemRows /\ version[r] # Deleted
  /\ \E F \in FieldsWritten(r) : process' = [process EXCEPT ![p] = Writing(p, r, F)]
  /\ UNCHANGED <<version, cipher, saves, torn, raced, retired>>

\* write_account_secrets, write_proxy_profile and write_forwarding_destination
\* answer 409 for a row of another version.
WriteRead(p, r) ==
  /\ process[p].pc = "idle" /\ r \notin ItemRows
  /\ version[r] \in {0, process[p].key}
  /\ \E F \in FieldsWritten(r) : process' = [process EXCEPT ![p] = Writing(p, r, F)]
  /\ UNCHANGED <<version, cipher, saves, torn, raced, retired>>

Refreshing(r) == \E p \in Processes : process[p].pc = "refresh" /\ process[p].row = r

\* Mutant: a column that holds something is left alone.
SavedIfEmpty(r, F, k, n, cleared) ==
  [s \in Slots |-> IF s[1] # r \/ s[2] \notin F \/ cipher[s] # None THEN cipher[s]
                   ELSE IF s[2] \in cleared THEN None
                   ELSE [by |-> k, save |-> IF s[2] = "refresh_token" THEN n ELSE 0]]

\* What save n of the fields F of r with the key k leaves in the columns.  A
\* field may be set to NULL.
Saved(r, F, k, n, cleared) ==
  [s \in Slots |-> IF s[1] # r \/ s[2] \notin F THEN cipher[s]
                   ELSE IF s[2] \in cleared THEN None
                   ELSE [by |-> k, save |-> IF s[2] = "refresh_token" THEN n ELSE 0]]

CountSave(r, F) ==
  /\ IF "refresh_token" \in F THEN saves[r] < MaxSaves /\ saves' = [saves EXCEPT ![r] = @ + 1]
     ELSE UNCHANGED saves
  /\ raced' = IF "refresh_token" \notin F THEN raced
              ELSE IF Refreshing(r) THEN raced \cup {r} ELSE raced \ {r}

\* The columns in the UPDATE of a process that clears some of its fields.
Changed(p, cleared) == process[p].fields \ (cleared \cap process[p].nulls)

\* The UPDATE, if there is one, waits for the lock of a rotation; the row may
\* be another by then.  The columns proxies.primary_url and
\* destinations.secret are never NULL.
WriteCommit(p) ==
  LET r == process[p].row IN
  /\ process[p].pc = "write"
  /\ IF process[p].loaded = 0 THEN version[r] = 0 ELSE version[r] \in Versions
  /\ \E cleared \in SUBSET (process[p].fields \ {"primary_url", "secret"}) :
       LET F == Changed(p, cleared) IN
       /\ Locked(r) => F = {}
       /\ cipher' = Saved(r, F, process[p].key, saves[r] + 1, cleared)
       /\ CountSave(r, F)
  /\ version' = [version EXCEPT ![r] = IF @ = 0 THEN process[p].key ELSE @]
  /\ process' = Done(p)
  /\ UNCHANGED <<torn, retired>>

\* The row to insert exists, or the row to update is gone: an error.
WriteFails(p) ==
  /\ process[p].pc = "write"
  /\ IF process[p].loaded = 0 THEN version[process[p].row] # 0
     ELSE version[process[p].row] = Deleted
  /\ process' = Done(p)
  /\ UNCHANGED <<version, cipher, saves, torn, raced, retired>>

\* Accounts, proxies and destinations are deleted with their secrets.
Delete(r) ==
  /\ version[r] \in Versions /\ ~Locked(r) /\ r \notin ItemRows
  /\ version' = [version EXCEPT ![r] = Deleted]
  /\ cipher' = [s \in Slots |-> IF s[1] = r THEN None ELSE cipher[s]]
  /\ UNCHANGED <<process, saves, torn, raced, retired>>

-----------------------------------------------------------------------------
(* Refreshing a token                                                      *)

\* handle_token_refresh decrypts the secrets, commits and calls the provider.
RefreshRead(p, a) ==
  /\ process[p].pc = "idle" /\ Decrypts(p, a) /\ cipher[<<a, "refresh_token">>] # None
  /\ process' = [process EXCEPT ![p] = [@ EXCEPT !.pc = "refresh", !.row = a,
                                                 !.save = cipher[<<a, "refresh_token">>].save]]
  /\ UNCHANGED <<version, cipher, saves, torn, raced, retired>>

\* The provider has rotated the token: it replaces the one of the locked row.
RefreshStore(p) ==
  LET a == process[p].row IN
  /\ process[p].pc = "refresh" /\ ~Locked(a)
  /\ version[a] = process[p].key
  /\ cipher' = [cipher EXCEPT ![<<a, "refresh_token">>] =
                  [by |-> process[p].key, save |-> process[p].save]]
  /\ process' = Done(p)
  /\ UNCHANGED <<version, saves, torn, raced, retired>>

\* It has not, or the row is gone (skipped), or has another version (RuntimeError).
RefreshEnds(p) ==
  /\ process[p].pc = "refresh"
  /\ process' = Done(p)
  /\ UNCHANGED <<version, cipher, saves, torn, raced, retired>>

-----------------------------------------------------------------------------
(* Imports                                                                 *)

\* create_import_batch stores the secrets of a line until the commit.
Stage(p, i) ==
  /\ process[p].pc = "idle" /\ version[i] = 0
  /\ \E F \in (SUBSET Fields(i)) \ {{}} : cipher' = Saved(i, F, process[p].key, 0, {})
  /\ version' = [version EXCEPT ![i] = process[p].key]
  /\ UNCHANGED <<process, saves, torn, raced, retired>>

\* commit_import_batch loads the items without locking them; an item it cannot
\* decrypt fails.
ImportRead(p, i) ==
  /\ process[p].pc = "idle" /\ Decrypts(p, i)
  /\ \E f \in Fields(i) : cipher[<<i, f>>] # None
  /\ process' = [process EXCEPT ![p] = [@ EXCEPT !.pc = "import", !.row = i,
                   !.fields = {f \in Fields(i) : cipher[<<i, f>>] # None}]]
  /\ UNCHANGED <<version, cipher, saves, torn, raced, retired>>

\* It creates an account with the secrets and clears those of the item.
ImportCommit(p) ==
  LET i == process[p].row
      F == process[p].fields
      k == process[p].key IN
  /\ process[p].pc = "import" /\ ~Locked(i)
  /\ \E a \in AccountRows :
       /\ version[a] = 0
       /\ CountSave(a, F)
       /\ cipher' = [s \in Slots |-> IF s[1] = i THEN None ELSE Saved(a, F, k, saves[a] + 1, {})[s]]
       /\ version' = [version EXCEPT ![a] = k]
  /\ process' = Done(p)
  /\ UNCHANGED <<torn, retired>>

-----------------------------------------------------------------------------
(* Rotation                                                                *)

Active(r, p) == process[p].row = r /\ process[p].pc = "write"

\* Mutant: items of imports are not selected.
SelectedWithoutItems(old) == {r \in Rows \ ItemRows : version[r] = old}

\* rotate_master_key selects the rows of the old version ...
Selected(old) == {r \in Rows : version[r] = old}

\* ... of all four tables FOR UPDATE.
RotateLock(p, old) ==
  /\ process[p].pc = "idle" /\ old < process[p].key
  /\ \A r \in Selected(old) : ~Locked(r)
  /\ process' = [process EXCEPT ![p] = [@ EXCEPT !.pc = "rotate", !.loaded = old,
                   !.locked = Selected(old), !.last = \A q \in Processes : process[q].key > old]]
  /\ UNCHANGED <<version, cipher, saves, torn, raced, retired>>

Reencrypted(s, R, k) ==
  IF s[1] \in R /\ cipher[s] # None THEN [cipher[s] EXCEPT !.by = k] ELSE cipher[s]

\* One transaction changes all of them.
RotateCommit(p) ==
  LET R == process[p].locked
      k == process[p].key
      old == process[p].loaded IN
  /\ process[p].pc = "rotate"
  /\ \A s \in Slots : s[1] \in R /\ cipher[s] # None => cipher[s].by = old
  /\ cipher' = [s \in Slots |-> Reencrypted(s, R, k)]
  /\ version' = [r \in Rows |-> IF r \in R THEN k ELSE version[r]]
  /\ torn' = torn \cup {r \in R : \E q \in Processes : Active(r, q)}
  /\ retired' = IF process[p].last THEN retired \cup {old} ELSE retired
  /\ process' = Done(p)
  /\ UNCHANGED <<saves, raced>>

\* A dry run, or a row that does not decrypt: nothing is changed.
RotateRollsBack(p) ==
  /\ process[p].pc = "rotate"
  /\ process' = Done(p)
  /\ UNCHANGED <<version, cipher, saves, torn, raced, retired>>

\* The operator restarts a process with the next key; what it was doing is lost.
Restart(p) ==
  /\ process[p].key < MaxKey
  /\ process' = [process EXCEPT ![p] = Idle(@.key + 1)]
  /\ UNCHANGED <<version, cipher, saves, torn, raced, retired>>

-----------------------------------------------------------------------------
SecretInit ==
  /\ version = [r \in Rows |-> 0]
  /\ cipher = [s \in Slots |-> None]
  /\ process = [p \in Processes |-> Idle(1)]
  /\ saves = [a \in AccountRows |-> 0]
  /\ torn = {} /\ raced = {} /\ retired = {}

SecretNext ==
  \E p \in Processes :
    \/ \E r \in Rows : WriteRead(p, r)
    \/ WriteCommit(p) \/ WriteFails(p)
    \/ \E r \in Rows : Delete(r)
    \/ \E a \in AccountRows : RefreshRead(p, a)
    \/ RefreshStore(p) \/ RefreshEnds(p)
    \/ \E i \in ItemRows : Stage(p, i) \/ ImportRead(p, i)
    \/ ImportCommit(p)
    \/ \E old \in Versions : RotateLock(p, old)
    \/ RotateCommit(p) \/ RotateRollsBack(p) \/ Restart(p)

SecretSpec == SecretInit /\ [][SecretNext]_secretVars

-----------------------------------------------------------------------------
(* Properties                                                              *)

SecretTypeOK ==
  /\ version \in [Rows -> 0..MaxKey \cup {Deleted}]
  /\ cipher \in [Slots -> Ciphertext \cup {None}]
  /\ process \in [Processes -> Process]
  /\ saves \in [AccountRows -> 0..MaxSaves]
  /\ torn \subseteq Rows /\ raced \subseteq AccountRows /\ retired \subseteq Versions

\* Every ciphertext can be read with the key of its row's version, whatever
\* writes, refreshes, imports, rotations and restarts overlap; except in a row
\* that was rotated while a write of a process with the old key had read it.
Readable ==
  \A s \in Slots : cipher[s] # None => cipher[s].by = version[s[1]] \/ s[1] \in torn

\* A rotation that begins when no process has the old key or an older one any
\* more leaves nothing that needs it, not even what is staged or was being
\* written.
OldKeyDisposable == \A v \in retired, r \in Rows : version[r] # v

\* Every secret can be read with a key that is still there.
SecretsReadable == Readable /\ OldKeyDisposable

\* The stored token is the last one the user saved or was exchanged for it,
\* except while the last save is one he made during a refresh: the next save
\* he makes when none is under way holds again, whatever is refreshed, cleared
\* or rotated around it.
LatestTokenKept ==
  \A a \in AccountRows \ raced :
    LET c == cipher[<<a, "refresh_token">>] IN c # None => c.save = saves[a]
=============================================================================
