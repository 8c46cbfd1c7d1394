--------------------------- MODULE AccountsProofs ----------------------------
(***************************************************************************)
(* Theorems about the state of accounts, each for any constants: Secrets,  *)
(* AccountHealth, Directory and BulkPreviews, and what MCAccounts makes of *)
(* them side by side.                                                      *)
(***************************************************************************)
EXTENDS MCAccounts, FiniteSetTheorems, SequenceTheorems, TLAPS

-----------------------------------------------------------------------------
(* Secrets: types                                                          *)

\* What a process works on.
WorksOn(p) ==
  /\ process[p].pc = "write" => /\ process[p].row \in Rows \ ItemRows
                                /\ process[p].fields \subseteq Fields(process[p].row)
                                /\ process[p].loaded \in {0, process[p].key}
  /\ process[p].pc = "refresh" => process[p].row \in AccountRows
  /\ process[p].pc = "import" => /\ process[p].row \in ItemRows
                                 /\ process[p].fields \subseteq Fields(process[p].row)
  /\ process[p].pc = "rotate" => /\ process[p].loaded \in Versions
                                 /\ process[p].loaded < process[p].key

SecretTypeInv == SecretTypeOK /\ \A p \in Processes : WorksOn(p)

\* The fields of the rows, and what a save leaves in them.
LEMMA FieldSlots ==
  ASSUME NEW r \in Rows
  PROVE  /\ \A f \in Fields(r) : <<r, f>> \in Slots
         /\ Fields(r) \subseteq FieldNames
BY DEF Fields, Slots, FieldNames

LEMMA SavedType ==
  ASSUME SecretTypeOK, NEW r \in Rows, NEW F \in SUBSET Fields(r), NEW k \in Versions,
         NEW n, "refresh_token" \in F => n \in 0..MaxSaves, NEW cleared
  PROVE  Saved(r, F, k, n, cleared) \in [Slots -> Ciphertext \cup {None}]
<1>1. 0 \in 0..MaxSaves
  BY SecretsAssumption
<1>2. ASSUME NEW s \in Slots
      PROVE  Saved(r, F, k, n, cleared)[s] \in Ciphertext \cup {None}
  BY <1>1 DEF Saved, SecretTypeOK, Ciphertext
<1> QED BY <1>2 DEF Saved

LEMMA IdleType == ASSUME NEW k \in Versions PROVE Idle(k) \in Process
BY SecretsAssumption DEF Idle, Process

\* A process that ends what it is doing.
LEMMA DoneType ==
  ASSUME SecretTypeInv, NEW p \in Processes, process' = Done(p)
  PROVE  process' \in [Processes -> Process] /\ \A q \in Processes : WorksOn(q)'
<1>1. process[p].key \in Versions
  BY DEF SecretTypeInv, SecretTypeOK, Process
<1>2. process' = [process EXCEPT ![p] = Idle(process[p].key)]
  BY DEF Done, SecretTypeInv, SecretTypeOK
<1>3. process' \in [Processes -> Process]
  BY <1>1, <1>2, IdleType DEF SecretTypeInv, SecretTypeOK
<1>4. ASSUME NEW q \in Processes PROVE WorksOn(q)'
  BY <1>2, <1>4 DEF WorksOn, SecretTypeInv, SecretTypeOK, Idle
<1> QED BY <1>3, <1>4

\* A process that begins something: only its own state changes.
LEMMA BeginsType ==
  ASSUME SecretTypeInv, NEW p \in Processes, NEW new \in Process,
         process' = [process EXCEPT ![p] = new], WorksOn(p)'
  PROVE  process' \in [Processes -> Process] /\ \A q \in Processes : WorksOn(q)'
<1>1. ASSUME NEW q \in Processes, q # p PROVE WorksOn(q)'
  BY <1>1 DEF WorksOn, SecretTypeInv, SecretTypeOK
<1> QED BY <1>1 DEF SecretTypeInv, SecretTypeOK

LEMMA SecretTypeInit == SecretInit => SecretTypeInv
<1> SUFFICES ASSUME SecretInit PROVE SecretTypeInv
  OBVIOUS
<1>1. 1 \in Versions
  BY SecretsAssumption DEF Versions
<1>2. process \in [Processes -> Process]
  BY <1>1, IdleType DEF SecretInit
<1>3. version \in [Rows -> 0..MaxKey \cup {Deleted}] /\ saves \in [AccountRows -> 0..MaxSaves]
  BY SecretsAssumption DEF SecretInit
<1>4. \A p \in Processes : WorksOn(p)
  BY DEF SecretInit, WorksOn, Idle
<1> QED BY <1>2, <1>3, <1>4 DEF SecretInit, SecretTypeInv, SecretTypeOK

\* An idle process that begins something with its key.
Begins(p, new) ==
  /\ process[p].pc = "idle"
  /\ process' = [process EXCEPT ![p] = new]
  /\ new \in Process /\ new.key = process[p].key
  /\ UNCHANGED <<version, cipher, saves, torn, raced, retired>>

LEMMA WriteReads ==
  ASSUME SecretTypeOK, NEW p \in Processes, NEW r \in Rows, WriteRead(p, r)
  PROVE  \E new : /\ Begins(p, new) /\ r \notin ItemRows
                  /\ new.pc = "write" /\ new.row = r /\ new.fields \subseteq Fields(r)
                  /\ new.loaded = version[r] /\ new.loaded \in {0, new.key} /\ new.locked = {}
<1> USE DEF SecretTypeOK
<1>1. PICK F \in FieldsWritten(r) : process' = [process EXCEPT ![p] = Writing(p, r, F)]
  BY DEF WriteRead
<1>2. /\ F \subseteq Fields(r) /\ F \in SUBSET FieldNames
      /\ Nulls(r, F) \in SUBSET FieldNames
  BY FieldSlots DEF FieldsWritten, Nulls
<1>3. version[r] \in 0..MaxKey /\ r \notin ItemRows /\ version[r] \in {0, process[p].key}
  BY SecretsAssumption DEF WriteRead, Process, Versions
<1> DEFINE new == Writing(p, r, F)
<1>4. 0 \in 0..MaxSaves /\ process[p].key \in Versions
  BY SecretsAssumption DEF Process
<1>5. /\ new \in Process /\ new.pc = "write" /\ new.row = r /\ new.fields = F
      /\ new.loaded = version[r] /\ new.key = process[p].key /\ new.locked = {}
  BY <1>2, <1>3, <1>4 DEF Process, Writing
<1> HIDE DEF new
<1>6. /\ process[p].pc = "idle" /\ process' = [process EXCEPT ![p] = new]
      /\ UNCHANGED <<version, cipher, saves, torn, raced, retired>>
  BY <1>1 DEF WriteRead, new
<1> QED BY <1>2, <1>3, <1>5, <1>6 DEF Begins

LEMMA RefreshReads ==
  ASSUME SecretTypeOK, NEW p \in Processes, NEW a \in AccountRows, RefreshRead(p, a)
  PROVE  \E new : /\ Begins(p, new) /\ new.pc = "refresh" /\ new.row = a
                  /\ cipher[<<a, "refresh_token">>] # None
                  /\ new.save = cipher[<<a, "refresh_token">>].save
                  /\ new.locked = process[p].locked
<1> USE DEF SecretTypeOK
<1> DEFINE c == cipher[<<a, "refresh_token">>]
           new == [process[p] EXCEPT !.pc = "refresh", !.row = a, !.save = c.save]
<1>1. a \in Rows /\ <<a, "refresh_token">> \in Slots
  BY DEF Rows, Slots, Fields, FieldNames
<1>2. c \in Ciphertext /\ c # None
  BY <1>1 DEF RefreshRead
<1>3. /\ process[p].pc = "idle" /\ process' = [process EXCEPT ![p] = new]
      /\ UNCHANGED <<version, cipher, saves, torn, raced, retired>>
  BY DEF RefreshRead
<1> HIDE DEF c
<1>4. /\ new \in Process /\ new.key = process[p].key /\ new.pc = "refresh" /\ new.row = a
      /\ new.save = c.save /\ new.locked = process[p].locked
  BY <1>1, <1>2 DEF Process, Ciphertext
<1> HIDE DEF new
<1>5. Begins(p, new)
  BY <1>3, <1>4 DEF Begins
<1> QED BY <1>2, <1>4, <1>5 DEF c

LEMMA ImportReads ==
  ASSUME SecretTypeOK, NEW p \in Processes, NEW i \in ItemRows, ImportRead(p, i)
  PROVE  \E new : /\ Begins(p, new) /\ new.pc = "import" /\ new.row = i
                  /\ new.fields \subseteq Fields(i) /\ new.locked = process[p].locked
<1> USE DEF SecretTypeOK
<1> DEFINE F == {f \in Fields(i) : cipher[<<i, f>>] # None}
           new == [process[p] EXCEPT !.pc = "import", !.row = i, !.fields = F]
<1>1. i \in Rows /\ F \in SUBSET FieldNames /\ F \subseteq Fields(i)
  BY FieldSlots DEF Rows
<1>2. /\ process[p].pc = "idle" /\ process' = [process EXCEPT ![p] = new]
      /\ UNCHANGED <<version, cipher, saves, torn, raced, retired>>
  BY DEF ImportRead
<1> HIDE DEF F
<1>3. /\ new \in Process /\ new.key = process[p].key /\ new.pc = "import" /\ new.row = i
      /\ new.fields = F /\ new.locked = process[p].locked
  BY <1>1 DEF Process
<1> HIDE DEF new
<1> QED BY <1>1, <1>2, <1>3 DEF Begins

LEMMA RotateLocks ==
  ASSUME SecretTypeOK, NEW p \in Processes, NEW old \in Versions, RotateLock(p, old)
  PROVE  /\ old < process[p].key /\ \A r \in Selected(old) : ~Locked(r)
         /\ \E new : /\ Begins(p, new) /\ new.pc = "rotate" /\ new.loaded = old
                     /\ new.locked = Selected(old)
                     /\ new.last => \A q \in Processes : process[q].key > old
<1> USE DEF SecretTypeOK
<1> DEFINE unused == \A q \in Processes : process[q].key > old
<1>1. unused \in BOOLEAN
  BY Zenon
<1>2. /\ process' = [process EXCEPT ![p] = [@ EXCEPT !.pc = "rotate", !.loaded = old,
                                              !.locked = Selected(old), !.last = unused]]
      /\ process[p].pc = "idle" /\ old < process[p].key /\ \A r \in Selected(old) : ~Locked(r)
      /\ UNCHANGED <<version, cipher, saves, torn, raced, retired>>
  BY Zenon DEF RotateLock
<1> HIDE DEF unused
<1> DEFINE new == [process[p] EXCEPT !.pc = "rotate", !.loaded = old,
                                     !.locked = Selected(old), !.last = unused]
<1>3. process' = [process EXCEPT ![p] = new]
  BY <1>2, Zenon
<1>4. old \in 0..MaxKey /\ Selected(old) \in SUBSET Rows
  BY SecretsAssumption DEF Selected, Versions
<1>5. /\ new \in Process /\ new.key = process[p].key /\ new.pc = "rotate" /\ new.loaded = old
      /\ new.locked = Selected(old) /\ new.last = unused
  BY <1>1, <1>4 DEF Process
<1> HIDE DEF new
<1>6. Begins(p, new)
  BY <1>2, <1>3, <1>5 DEF Begins
<1> QED BY <1>2, <1>5, <1>6 DEF unused

\* Steps that read a row.
LEMMA TypeOfReads ==
  ASSUME SecretTypeInv, NEW p \in Processes,
         \/ \E r \in Rows : WriteRead(p, r)
         \/ \E a \in AccountRows : RefreshRead(p, a)
         \/ \E i \in ItemRows : ImportRead(p, i)
         \/ \E old \in Versions : RotateLock(p, old)
  PROVE  SecretTypeInv'
<1> USE DEF SecretTypeInv
<1> DEFINE Goal == \E new : Begins(p, new) /\ WorksOn(p)'
<1>1. Goal
  <2>1. ASSUME NEW r \in Rows, WriteRead(p, r) PROVE Goal
    <3>1. PICK new : /\ Begins(p, new) /\ r \notin ItemRows /\ new.pc = "write"
                     /\ new.row = r /\ new.fields \subseteq Fields(r)
                     /\ new.loaded \in {0, new.key}
      BY <2>1, WriteReads
    <3> QED BY <3>1 DEF WorksOn, Begins, SecretTypeOK
  <2>2. ASSUME NEW a \in AccountRows, RefreshRead(p, a) PROVE Goal
    <3>1. PICK new : Begins(p, new) /\ new.pc = "refresh" /\ new.row = a
      BY <2>2, RefreshReads
    <3>2. WorksOn(p)'
      BY <2>2, <3>1 DEF WorksOn, Begins, SecretTypeOK
    <3> QED BY <3>1, <3>2
  <2>3. ASSUME NEW i \in ItemRows, ImportRead(p, i) PROVE Goal
    BY <2>3, ImportReads DEF WorksOn, Begins, SecretTypeOK
  <2>4. ASSUME NEW old \in Versions, RotateLock(p, old) PROVE Goal
    BY <2>4, RotateLocks DEF WorksOn, Begins, SecretTypeOK
  <2> QED BY <2>1, <2>2, <2>3, <2>4
<1>2. PICK new : Begins(p, new) /\ WorksOn(p)'
  BY <1>1
<1>3. process' \in [Processes -> Process] /\ \A q \in Processes : WorksOn(q)'
  BY <1>2, BeginsType DEF Begins
<1> QED BY <1>2, <1>3 DEF Begins, SecretTypeOK

\* Steps that write a row or end.
LEMMA TypeOfWrites ==
  ASSUME SecretTypeInv, NEW p \in Processes,
         \/ WriteCommit(p) \/ WriteFails(p) \/ RefreshStore(p) \/ RefreshEnds(p)
         \/ ImportCommit(p) \/ RotateCommit(p) \/ RotateRollsBack(p)
  PROVE  SecretTypeInv'
<1> USE DEF SecretTypeInv, SecretTypeOK
<1>1. /\ process[p] \in Process /\ WorksOn(p)
      /\ process[p].key \in Versions /\ process[p].key \in 0..MaxKey
  BY SecretsAssumption DEF Process, Versions
<1>2. process' = Done(p)
  BY DEF WriteCommit, WriteFails, RefreshStore, RefreshEnds, ImportCommit, RotateCommit,
         RotateRollsBack
<1>3. process' \in [Processes -> Process] /\ \A q \in Processes : WorksOn(q)'
  BY <1>2, DoneType
<1>4. CASE WriteCommit(p)
  <2> DEFINE r == process[p].row
  <2>1. PICK cleared : LET F == Changed(p, cleared) IN
          /\ cipher' = Saved(r, F, process[p].key, saves[r] + 1, cleared)
          /\ CountSave(r, F)
    BY <1>4 DEF WriteCommit
  <2> DEFINE F == Changed(p, cleared)
  <2>2. r \in Rows \ ItemRows /\ F \in SUBSET Fields(r)
    BY <1>1, <1>4 DEF WorksOn, WriteCommit, Changed
  <2>3. /\ "refresh_token" \in F => r \in AccountRows /\ saves[r] + 1 \in 0..MaxSaves
        /\ cipher' = Saved(r, F, process[p].key, saves[r] + 1, cleared)
        /\ CountSave(r, F)
    BY <2>1, <2>2, SecretsAssumption DEF Fields, CountSave
  <2>4. cipher' \in [Slots -> Ciphertext \cup {None}]
    <3> HIDE DEF r, F
    <3> QED BY <1>1, <2>2, <2>3, SavedType
  <2>5. saves' \in [AccountRows -> 0..MaxSaves] /\ raced' \subseteq AccountRows
    <3> HIDE DEF r, F
    <3> QED BY <2>2, <2>3 DEF CountSave
  <2>6. version' \in [Rows -> 0..MaxKey \cup {Deleted}]
    BY <1>1, <1>4 DEF WriteCommit
  <2> QED BY <1>3, <1>4, <2>4, <2>5, <2>6 DEF WriteCommit
<1>5. CASE RefreshStore(p)
  BY <1>1, <1>3, <1>5 DEF RefreshStore, Ciphertext, Process
<1>6. CASE ImportCommit(p)
  <2> DEFINE i == process[p].row
             F == process[p].fields
  <2>1. i \in ItemRows /\ F \in SUBSET Fields(i)
    BY <1>1, <1>6 DEF WorksOn, ImportCommit
  <2>2. PICK a \in AccountRows :
          /\ version[a] = 0 /\ CountSave(a, F)
          /\ cipher' = [s \in Slots |-> IF s[1] = i THEN None
                                        ELSE Saved(a, F, process[p].key, saves[a] + 1, {})[s]]
          /\ version' = [version EXCEPT ![a] = process[p].key]
    BY <1>6 DEF ImportCommit
  <2>3. a \in Rows /\ F \in SUBSET Fields(a)
    BY <2>1 DEF Rows, Fields
  <2>4. "refresh_token" \in F => saves[a] + 1 \in 0..MaxSaves
    BY <2>2, SecretsAssumption DEF CountSave
  <2>5. Saved(a, F, process[p].key, saves[a] + 1, {}) \in [Slots -> Ciphertext \cup {None}]
    <3> HIDE DEF F
    <3> QED BY <1>1, <2>3, <2>4, SavedType
  <2>6. cipher' \in [Slots -> Ciphertext \cup {None}]
    BY <2>2, <2>5
  <2>7. saves' \in [AccountRows -> 0..MaxSaves] /\ raced' \subseteq AccountRows
    BY <2>2, <2>4 DEF CountSave
  <2>8. version' \in [Rows -> 0..MaxKey \cup {Deleted}]
    BY <1>1, <2>2
  <2> QED BY <1>3, <1>6, <2>6, <2>7, <2>8 DEF ImportCommit
<1>7. CASE RotateCommit(p)
  <2>1. cipher' \in [Slots -> Ciphertext \cup {None}]
    BY <1>1, <1>7 DEF RotateCommit, Reencrypted, Ciphertext
  <2>2. version' \in [Rows -> 0..MaxKey \cup {Deleted}]
    BY <1>1, <1>7 DEF RotateCommit
  <2>3. torn' \subseteq Rows /\ retired' \subseteq Versions
    BY <1>1, <1>7 DEF RotateCommit, WorksOn, Process
  <2> QED BY <1>3, <1>7, <2>1, <2>2, <2>3 DEF RotateCommit
<1> QED BY <1>3, <1>4, <1>5, <1>6, <1>7 DEF WriteFails, RefreshEnds, RotateRollsBack

\* Rows that are deleted and staged, and a process that is restarted.
LEMMA TypeOfOthers ==
  ASSUME SecretTypeInv, NEW p \in Processes,
         \/ \E r \in Rows : Delete(r)
         \/ \E i \in ItemRows : Stage(p, i)
         \/ Restart(p)
  PROVE  SecretTypeInv'
<1> USE DEF SecretTypeInv, SecretTypeOK
<1>1. ASSUME NEW r \in Rows, Delete(r) PROVE SecretTypeInv'
  BY <1>1 DEF Delete, WorksOn
<1>2. ASSUME NEW i \in ItemRows, Stage(p, i) PROVE SecretTypeInv'
  <2>1. process[p].key \in Versions /\ process[p].key \in 0..MaxKey /\ 0 \in 0..MaxSaves
    BY SecretsAssumption DEF Process, Versions
  <2>2. PICK F \in SUBSET Fields(i) : cipher' = Saved(i, F, process[p].key, 0, {})
    BY <1>2 DEF Stage
  <2>3. cipher' \in [Slots -> Ciphertext \cup {None}]
    BY <2>1, <2>2, SavedType DEF Rows
  <2>4. version' \in [Rows -> 0..MaxKey \cup {Deleted}]
    BY <1>2, <2>1 DEF Stage
  <2> QED BY <1>2, <2>3, <2>4 DEF Stage, WorksOn
<1>3. CASE Restart(p)
  <2>1. process[p].key + 1 \in Versions
    BY <1>3, SecretsAssumption DEF Restart, Process, Versions
  <2>2. process' = [process EXCEPT ![p] = Idle(process[p].key + 1)]
    BY <1>3 DEF Restart
  <2>3. WorksOn(p)'
    BY <2>2 DEF WorksOn, Idle
  <2>4. process' \in [Processes -> Process] /\ \A q \in Processes : WorksOn(q)'
    BY <2>1, <2>2, <2>3, IdleType, BeginsType
  <2> QED BY <1>3, <2>4 DEF Restart
<1> QED BY <1>1, <1>2, <1>3

LEMMA SecretTypeStep == SecretTypeInv /\ [SecretNext]_secretVars => SecretTypeInv'
<1> SUFFICES ASSUME SecretTypeInv, [SecretNext]_secretVars PROVE SecretTypeInv'
  OBVIOUS
<1>1. CASE UNCHANGED secretVars
  BY <1>1 DEF SecretTypeInv, SecretTypeOK, WorksOn, secretVars
<1> QED BY <1>1, TypeOfReads, TypeOfWrites, TypeOfOthers DEF SecretNext

-----------------------------------------------------------------------------
(* Secrets: readable ciphertexts                                           *)

\* A rotation has its rows for itself, and they stay as it has selected them.
LockInv ==
  /\ \A p \in Processes : \A r \in process[p].locked :
       process[p].pc = "rotate" /\ version[r] = process[p].loaded
  /\ \A p, q \in Processes : p # q => process[p].locked \cap process[q].locked = {}

\* A row that is not there has no secrets.
EmptyInv == \A s \in Slots : version[s[1]] \notin Versions => cipher[s] = None

\* A row has the version its writer has seen, unless it was rotated meanwhile.
WriteInv ==
  \A p \in Processes : process[p].pc = "write" /\ process[p].loaded # 0 =>
    version[process[p].row] \in {process[p].key, Deleted} \/ process[p].row \in torn

ReadInv == LockInv /\ EmptyInv /\ WriteInv /\ Readable

LEMMA ReadInit == SecretInit => ReadInv
BY DEF SecretInit, Idle, Versions, ReadInv, LockInv, EmptyInv, WriteInv, Readable, Slots

\* A process that ends releases its rows; when the versions of the rows of
\* the others stay, so do their promises.
LEMMA LockEnds ==
  ASSUME SecretTypeInv, LockInv, NEW p \in Processes, process' = Done(p),
         \A q \in Processes \ {p} : \A r \in process[q].locked : version'[r] = version[r]
  PROVE  LockInv'
BY DEF SecretTypeInv, SecretTypeOK, LockInv, Done, Idle

\* A process begins to read or write a row, and locks none.
LEMMA LockReads ==
  ASSUME SecretTypeInv, LockInv, NEW p \in Processes, process[p].pc = "idle", version' = version,
         \A q \in Processes \ {p} : process'[q] = process[q],
         process'[p].locked = process[p].locked
  PROVE  LockInv'
BY DEF LockInv

LEMMA ReadOfReads ==
  ASSUME SecretTypeInv, ReadInv, NEW p \in Processes,
         \/ \E r \in Rows : WriteRead(p, r)
         \/ \E a \in AccountRows : RefreshRead(p, a)
         \/ \E i \in ItemRows : ImportRead(p, i)
  PROVE  ReadInv'
<1> USE DEF SecretTypeInv, SecretTypeOK
<1> DEFINE Sound(new) == /\ Begins(p, new) /\ new.locked \in {{}, process[p].locked}
                         /\ \/ new.pc \in {"refresh", "import"}
                            \/ new.pc = "write" /\ new.loaded = version[new.row]
                               /\ new.loaded \in {0, new.key}
           Goal == \E new : Sound(new)
<1>1. PICK new : Sound(new)
  <2>1. ASSUME NEW r \in Rows, WriteRead(p, r) PROVE Goal
    <3>1. PICK new : /\ Begins(p, new) /\ new.locked = {} /\ new.pc = "write"
                     /\ new.row = r /\ new.loaded = version[r] /\ new.loaded \in {0, new.key}
      BY <2>1, WriteReads
    <3> QED BY <3>1
  <2>2. ASSUME NEW a \in AccountRows, RefreshRead(p, a) PROVE Goal
    <3>1. PICK new : Begins(p, new) /\ new.pc = "refresh" /\ new.locked = process[p].locked
      BY <2>2, RefreshReads
    <3> QED BY <3>1
  <2>3. ASSUME NEW i \in ItemRows, ImportRead(p, i) PROVE Goal
    BY <2>3, ImportReads
  <2> QED BY <2>1, <2>2, <2>3
<1>2. /\ process[p].pc = "idle" /\ UNCHANGED <<version, cipher, torn>>
      /\ process'[p] = new /\ \A q \in Processes \ {p} : process'[q] = process[q]
  BY <1>1 DEF Begins
<1>3. LockInv'
  <2>1. process[p].locked = {}
    BY <1>2 DEF ReadInv, LockInv, Process
  <2> QED BY <1>1, <1>2, <2>1, LockReads DEF ReadInv
<1>4. WriteInv'
  BY <1>1, <1>2 DEF ReadInv, WriteInv
<1> QED BY <1>2, <1>3, <1>4 DEF ReadInv, EmptyInv, Readable

LEMMA ReadOfRotateLock ==
  ASSUME SecretTypeInv, ReadInv, NEW p \in Processes, NEW old \in Versions, RotateLock(p, old)
  PROVE  ReadInv'
<1> USE DEF SecretTypeInv, SecretTypeOK
<1>1. /\ \A q \in Processes \ {p} : process'[q] = process[q]
      /\ process'[p].pc = "rotate" /\ process'[p].locked = Selected(old)
      /\ process'[p].loaded = old
      /\ UNCHANGED <<version, cipher, torn>>
  BY RotateLocks DEF Begins
<1>2. \A q \in Processes : process[q].locked \cap Selected(old) = {}
  BY RotateLocks DEF Locked
<1>3. LockInv'
  BY <1>1, <1>2 DEF ReadInv, LockInv, Selected
<1>4. WriteInv'
  BY <1>1, <1>2 DEF ReadInv, WriteInv
<1> QED BY <1>1, <1>3, <1>4 DEF ReadInv, EmptyInv, Readable

LEMMA ReadOfWriteCommit ==
  ASSUME SecretTypeInv, ReadInv, NEW p \in Processes, WriteCommit(p)
  PROVE  ReadInv'
<1> USE DEF SecretTypeInv, SecretTypeOK
<1> DEFINE r == process[p].row
           k == process[p].key
<1>1. r \in Rows /\ WorksOn(p) /\ k \in Versions /\ process[p].pc = "write"
  BY DEF WriteCommit, WorksOn, Process
<1>2. /\ process' = Done(p) /\ torn' = torn
      /\ version' = [version EXCEPT ![r] = IF @ = 0 THEN k ELSE @]
      /\ version[r] \in Versions \cup {0}
      /\ process[p].loaded = 0 <=> version[r] = 0
  BY SecretsAssumption DEF WriteCommit, Versions
<1>3. PICK F, cleared : cipher' = Saved(r, F, k, saves[r] + 1, cleared)
  BY DEF WriteCommit
<1> HIDE DEF r, k
<1>4. /\ version'[r] \in Versions /\ \A x \in Rows \ {r} : version'[x] = version[x]
      /\ version[r] \in Versions => version'[r] = version[r]
  BY <1>1, <1>2 DEF Versions
\* Only a row that was not there gets another version, and nobody holds that.
<1>5. LockInv'
  <2>1. ASSUME NEW q \in Processes, NEW x \in process[q].locked PROVE version'[x] = version[x]
    <3>1. x \in Rows /\ version[x] \in Versions
      BY <2>1 DEF ReadInv, LockInv, WorksOn, Process
    <3> QED BY <1>4, <3>1
  <2> QED BY <1>2, <2>1, LockEnds DEF ReadInv
<1>6. ASSUME NEW s \in Slots
      PROVE  IF s[1] = r THEN cipher'[s] \in {cipher[s], None} \/ cipher'[s].by = k
             ELSE cipher'[s] = cipher[s]
  BY <1>3 DEF Saved
<1>7. EmptyInv'
  <2> SUFFICES ASSUME NEW s \in Slots, version'[s[1]] \notin Versions PROVE cipher'[s] = None
    BY DEF EmptyInv
  <2> QED BY <1>4, <1>6 DEF ReadInv, EmptyInv, Slots
<1>8. WriteInv'
  <2> SUFFICES ASSUME NEW q \in Processes, process'[q].pc = "write", process'[q].loaded # 0
               PROVE  \/ version'[process'[q].row] \in {process'[q].key, Deleted}
                      \/ process'[q].row \in torn
    BY <1>2 DEF WriteInv
  <2>1. q # p /\ process'[q] = process[q]
    BY <1>2 DEF Done, Idle
  <2>2. process[q].row \in Rows /\ process[q].key \in Versions
    BY <2>1 DEF WorksOn, Process
  <2>3. 0 \notin Versions /\ Deleted # 0
    BY DEF Versions, Deleted
  <2> QED BY <1>2, <1>4, <2>1, <2>2, <2>3 DEF ReadInv, WriteInv
<1>9. Readable'
  <2> SUFFICES ASSUME NEW s \in Slots, cipher'[s] # None, s[1] \notin torn
               PROVE  cipher'[s].by = version'[s[1]]
    BY <1>2 DEF Readable
  <2>1. s[1] \in Rows
    BY DEF Slots
  <2>2. CASE s[1] # r
    BY <1>4, <1>6, <2>1, <2>2 DEF ReadInv, Readable
  <2>3. CASE s[1] = r
    <3>1. version'[r] = k
      BY <1>1, <1>2, <2>3 DEF ReadInv, WriteInv, WorksOn, r, k, Deleted, Versions
    <3>2. cipher[s] # None => cipher[s].by = version[r] /\ version[r] \in Versions
      BY <2>3 DEF ReadInv, Readable, EmptyInv
    <3>3. version[r] \in Versions => version'[r] = version[r]
      BY <1>2, <1>1 DEF Versions
    <3> QED BY <1>6, <2>3, <3>1, <3>2, <3>3
  <2> QED BY <2>2, <2>3
<1> QED BY <1>5, <1>7, <1>8, <1>9 DEF ReadInv

\* A refresh stores its token in a row of its own version.
LEMMA ReadOfRefreshStore ==
  ASSUME SecretTypeInv, ReadInv, NEW p \in Processes, RefreshStore(p)
  PROVE  ReadInv'
<1> USE DEF SecretTypeInv, SecretTypeOK
<1> DEFINE a == process[p].row
           slot == <<a, "refresh_token">>
<1>1. a \in Rows /\ process[p].key \in Versions /\ slot \in Slots
  BY DEF RefreshStore, WorksOn, Process, Rows, Slots, Fields, FieldNames
<1>2. /\ process' = Done(p) /\ version' = version /\ torn' = torn
      /\ version[a] = process[p].key
      /\ cipher' = [cipher EXCEPT ![slot] = [by |-> process[p].key, save |-> process[p].save]]
  BY DEF RefreshStore
<1>3. LockInv'
  BY <1>2, LockEnds DEF ReadInv
<1>4. slot[1] = a
  OBVIOUS
<1> HIDE DEF a, slot
<1>5. EmptyInv'
  BY <1>1, <1>2, <1>4 DEF ReadInv, EmptyInv
<1>6. WriteInv'
  BY <1>2 DEF ReadInv, WriteInv, Done, Idle
<1>7. Readable'
  <2>1. ASSUME NEW s \in Slots, cipher'[s] # None
        PROVE  cipher'[s].by = version'[s[1]] \/ s[1] \in torn'
    BY <1>1, <1>2, <1>4, <2>1 DEF ReadInv, Readable
  <2> QED BY <2>1 DEF Readable
<1> QED BY <1>3, <1>5, <1>6, <1>7 DEF ReadInv

\* Processes that give up.
LEMMA ReadOfEnds ==
  ASSUME SecretTypeInv, ReadInv, NEW p \in Processes,
         WriteFails(p) \/ RefreshEnds(p) \/ RotateRollsBack(p)
  PROVE  ReadInv'
<1>1. process' = Done(p) /\ UNCHANGED <<version, cipher, torn>>
  BY DEF WriteFails, RefreshEnds, RotateRollsBack
<1>2. LockInv'
  BY <1>1, LockEnds DEF ReadInv
<1>3. WriteInv'
  BY <1>1 DEF ReadInv, WriteInv, Done, Idle, SecretTypeInv, SecretTypeOK
<1> QED BY <1>1, <1>2, <1>3 DEF ReadInv, EmptyInv, Readable

\* An import inserts a row and clears its item.
LEMMA ReadOfImportCommit ==
  ASSUME SecretTypeInv, ReadInv, NEW p \in Processes, ImportCommit(p)
  PROVE  ReadInv'
<1> USE DEF SecretTypeInv, SecretTypeOK
<1> DEFINE i == process[p].row
           F == process[p].fields
           k == process[p].key
<1>1. k \in Versions /\ process' = Done(p) /\ torn' = torn
  BY DEF ImportCommit, Process
<1>2. PICK a \in AccountRows :
        /\ version[a] = 0
        /\ cipher' = [s \in Slots |-> IF s[1] = i THEN None
                                      ELSE Saved(a, F, k, saves[a] + 1, {})[s]]
        /\ version' = [version EXCEPT ![a] = k]
  BY DEF ImportCommit
<1> HIDE DEF i, F, k
<1>3. a \in Rows /\ version'[a] = k /\ \A x \in Rows \ {a} : version'[x] = version[x]
  BY <1>2 DEF Rows
<1>4. ASSUME NEW q \in Processes, NEW r \in process[q].locked PROVE r # a
  BY <1>2, <1>4 DEF ReadInv, LockInv, WorksOn, Versions
<1>5. LockInv'
  BY <1>1, <1>3, <1>4, LockEnds DEF ReadInv, Process
<1>6. ASSUME NEW s \in Slots
      PROVE  \/ cipher'[s] = None
             \/ s[1] = a /\ cipher'[s].by = k
             \/ s[1] # a /\ cipher'[s] = cipher[s]
  <2>1. version[s[1]] \notin Versions => cipher[s] = None
    BY DEF ReadInv, EmptyInv
  <2>2. 0 \notin Versions
    BY DEF Versions
  <2> QED BY <1>2, <2>1, <2>2 DEF Saved
<1>7. EmptyInv' /\ Readable'
  <2>1. ASSUME NEW s \in Slots
        PROVE  /\ version'[s[1]] \notin Versions => cipher'[s] = None
               /\ cipher'[s] # None => cipher'[s].by = version'[s[1]] \/ s[1] \in torn'
    <3>1. s[1] \in Rows
      BY DEF Slots
    <3> QED BY <1>1, <1>3, <1>6, <3>1 DEF ReadInv, EmptyInv, Readable
  <2> QED BY <2>1 DEF EmptyInv, Readable
<1>8. WriteInv'
  <2> SUFFICES ASSUME NEW q \in Processes, process'[q].pc = "write", process'[q].loaded # 0
               PROVE  \/ version'[process'[q].row] \in {process'[q].key, Deleted}
                      \/ process'[q].row \in torn
    BY <1>1 DEF WriteInv
  <2>1. q # p /\ process'[q] = process[q]
    BY <1>1 DEF Done, Idle
  <2>2. process[q].row \in Rows /\ process[q].key \in Versions
    BY <2>1 DEF WorksOn, Process
  <2>3. 0 \notin Versions /\ Deleted # 0
    BY DEF Versions, Deleted
  <2> QED BY <1>2, <1>3, <2>1, <2>2, <2>3 DEF ReadInv, WriteInv
<1> QED BY <1>5, <1>7, <1>8 DEF ReadInv

\* A rotation changes the versions and the ciphertexts of its rows together.
LEMMA ReadOfRotateCommit ==
  ASSUME SecretTypeInv, ReadInv, NEW p \in Processes, RotateCommit(p)
  PROVE  ReadInv'
<1> USE DEF SecretTypeInv, SecretTypeOK
<1> DEFINE R == process[p].locked
           k == process[p].key
<1>1. /\ process' = Done(p)
      /\ cipher' = [s \in Slots |-> Reencrypted(s, R, k)]
      /\ version' = [r \in Rows |-> IF r \in R THEN k ELSE version[r]]
      /\ torn' = torn \cup {r \in R : \E q \in Processes : Active(r, q)}
  BY DEF RotateCommit
<1>2. k \in Versions /\ R \subseteq Rows
  BY DEF Process
<1>3. ASSUME NEW q \in Processes \ {p}, NEW r \in process[q].locked
      PROVE  version'[r] = version[r]
  BY <1>1, <1>3 DEF ReadInv, LockInv, Process
<1>4. LockInv'
  BY <1>1, <1>3, LockEnds DEF ReadInv
<1>5. ASSUME NEW s \in Slots
      PROVE  /\ cipher[s] = None => cipher'[s] = None
             /\ s[1] \in R /\ cipher[s] # None => cipher'[s].by = k
             /\ s[1] \notin R => cipher'[s] = cipher[s]
  BY <1>1 DEF Reencrypted, Ciphertext
<1> HIDE DEF R, k
<1>6. EmptyInv' /\ Readable'
  <2>1. ASSUME NEW s \in Slots
        PROVE  /\ version'[s[1]] \notin Versions => cipher'[s] = None
               /\ cipher'[s] # None => cipher'[s].by = version'[s[1]] \/ s[1] \in torn'
    <3>1. s[1] \in Rows
      BY DEF Slots
    <3> QED BY <1>1, <1>2, <1>5, <3>1 DEF ReadInv, EmptyInv, Readable
  <2> QED BY <2>1 DEF EmptyInv, Readable
<1>7. WriteInv'
  <2> SUFFICES ASSUME NEW q \in Processes, process'[q].pc = "write", process'[q].loaded # 0
               PROVE  \/ version'[process'[q].row] \in {process'[q].key, Deleted}
                      \/ process'[q].row \in torn'
    BY DEF WriteInv
  <2>1. q # p /\ process'[q] = process[q]
    BY <1>1 DEF Done, Idle
  <2>2. process[q].row \in Rows
    BY <2>1 DEF WorksOn
  <2> QED BY <1>1, <2>1, <2>2 DEF ReadInv, WriteInv, Active
<1> QED BY <1>4, <1>6, <1>7 DEF ReadInv

\* A row that no rotation holds is deleted with its secrets, or is staged.
LEMMA ReadOfOthers ==
  ASSUME SecretTypeInv, ReadInv, NEW p \in Processes,
         \/ \E r \in Rows : Delete(r)
         \/ \E i \in ItemRows : Stage(p, i)
         \/ Restart(p)
  PROVE  ReadInv'
<1> USE DEF SecretTypeInv, SecretTypeOK
<1>1. ASSUME NEW r \in Rows, Delete(r) PROVE ReadInv'
  <2>1. LockInv'
    BY <1>1 DEF Delete, ReadInv, LockInv, Locked, Process
  <2>2. EmptyInv' /\ Readable'
    <3>1. ASSUME NEW s \in Slots
          PROVE  /\ version'[s[1]] \notin Versions => cipher'[s] = None
                 /\ cipher'[s] # None => cipher'[s].by = version'[s[1]] \/ s[1] \in torn'
      <4>1. s[1] \in Rows
        BY DEF Slots
      <4> QED BY <1>1, <4>1 DEF ReadInv, EmptyInv, Readable, Delete
    <3> QED BY <3>1 DEF EmptyInv, Readable
  <2>3. WriteInv'
    BY <1>1 DEF Delete, ReadInv, WriteInv, WorksOn
  <2> QED BY <2>1, <2>2, <2>3 DEF ReadInv
<1>2. ASSUME NEW i \in ItemRows, Stage(p, i) PROVE ReadInv'
  <2> DEFINE k == process[p].key
  <2>1. k \in Versions /\ i \in Rows /\ version[i] = 0 /\ 0 \notin Versions
    BY <1>2 DEF Stage, Process, Rows, Versions
  <2>2. PICK F : cipher' = Saved(i, F, k, 0, {})
    BY <1>2 DEF Stage
  <2>3. version' = [version EXCEPT ![i] = k] /\ UNCHANGED <<process, torn>>
    BY <1>2 DEF Stage
  <2>4. LockInv'
    BY <2>1, <2>3 DEF ReadInv, LockInv, WorksOn, Process
  <2> HIDE DEF k
  <2>5. EmptyInv' /\ Readable'
    <3>1. ASSUME NEW s \in Slots
          PROVE  /\ version'[s[1]] \notin Versions => cipher'[s] = None
                 /\ cipher'[s] # None => cipher'[s].by = version'[s[1]] \/ s[1] \in torn'
      <4>1. s[1] \in Rows
        BY DEF Slots
      <4>2. s[1] = i => cipher'[s] = None \/ cipher'[s].by = k
        BY <2>1, <2>2 DEF Saved, ReadInv, EmptyInv
      <4>3. s[1] # i => cipher'[s] = cipher[s]
        BY <2>2 DEF Saved
      <4> QED BY <2>1, <2>3, <4>1, <4>2, <4>3 DEF ReadInv, EmptyInv, Readable
    <3> QED BY <3>1 DEF EmptyInv, Readable
  <2>6. WriteInv'
    <3> SUFFICES ASSUME NEW q \in Processes, process[q].pc = "write", process[q].loaded # 0
                 PROVE  \/ version'[process[q].row] \in {process[q].key, Deleted}
                        \/ process[q].row \in torn
      BY <2>3 DEF WriteInv
    <3>1. process[q].row \in Rows \ ItemRows
      BY DEF WorksOn
    <3> QED BY <2>3, <3>1 DEF ReadInv, WriteInv
  <2> QED BY <2>4, <2>5, <2>6 DEF ReadInv
<1>3. CASE Restart(p)
  <2>1. process' = [process EXCEPT ![p] = Idle(process[p].key + 1)]
        /\ UNCHANGED <<version, cipher, torn>>
    BY <1>3 DEF Restart
  <2>2. LockInv' /\ WriteInv'
    BY <2>1 DEF ReadInv, LockInv, WriteInv, Idle
  <2> QED BY <2>1, <2>2 DEF ReadInv, EmptyInv, Readable
<1> QED BY <1>1, <1>2, <1>3

LEMMA ReadStep == SecretTypeInv /\ ReadInv /\ [SecretNext]_secretVars => ReadInv'
<1> SUFFICES ASSUME SecretTypeInv, ReadInv, [SecretNext]_secretVars PROVE ReadInv'
  OBVIOUS
<1>1. CASE UNCHANGED secretVars
  BY <1>1 DEF ReadInv, LockInv, EmptyInv, WriteInv, Readable, secretVars
<1> QED BY <1>1, ReadOfReads, ReadOfRotateLock, ReadOfWriteCommit, ReadOfRefreshStore, ReadOfEnds,
           ReadOfImportCommit, ReadOfRotateCommit, ReadOfOthers DEF SecretNext

-----------------------------------------------------------------------------
(* Secrets: keys that are no longer needed                                 *)

\* When the last rotation of a version began, no process had its key any more,
\* and it has all the rows; afterwards there are none.
RetireInv ==
  /\ \A p \in Processes : process[p].pc = "rotate" /\ process[p].last =>
       /\ \A q \in Processes : process[q].key > process[p].loaded
       /\ \A r \in Rows : version[r] = process[p].loaded => r \in process[p].locked
  /\ \A v \in retired :
       /\ \A q \in Processes : process[q].key > v
       /\ \A r \in Rows : version[r] # v

\* A process keeps its key or gets a higher one, and rotates only what it has locked.
LEMMA KeyStep ==
  ASSUME SecretTypeInv, [SecretNext]_secretVars, NEW q \in Processes
  PROVE  /\ process'[q].key >= process[q].key
         /\ \/ process'[q].pc = "rotate" => process'[q] = process[q]
            \/ \E old \in Versions : RotateLock(q, old)
<1> USE DEF SecretTypeInv, SecretTypeOK
<1> DEFINE Grows == process'[q].key >= process[q].key
           Same == process'[q].pc = "rotate" => process'[q] = process[q]
<1>1. process[q] \in Process /\ process[q].key \in Int
  BY DEF Process, Versions
<1>2. ASSUME NEW p \in Processes, process' = Done(p) PROVE Grows /\ Same
  BY <1>1, <1>2 DEF Done, Idle
<1>3. ASSUME NEW p \in Processes,
             WriteCommit(p) \/ WriteFails(p) \/ RefreshStore(p) \/ RefreshEnds(p)
               \/ ImportCommit(p) \/ RotateCommit(p) \/ RotateRollsBack(p)
      PROVE  Grows /\ Same
  BY <1>2, <1>3 DEF WriteCommit, WriteFails, RefreshStore, RefreshEnds, ImportCommit,
                    RotateCommit, RotateRollsBack
<1>4. ASSUME NEW p \in Processes, NEW r \in Rows, WriteRead(p, r) PROVE Grows /\ Same
  BY <1>1, <1>4, WriteReads DEF Begins
<1>5. ASSUME NEW p \in Processes, NEW a \in AccountRows, RefreshRead(p, a) PROVE Grows /\ Same
  <2>1. PICK new : Begins(p, new) /\ new.pc = "refresh"
    BY <1>5, RefreshReads
  <2> QED BY <1>1, <2>1 DEF Begins
<1>6. ASSUME NEW p \in Processes, NEW i \in ItemRows, ImportRead(p, i) PROVE Grows /\ Same
  BY <1>1, <1>6, ImportReads DEF Begins
<1>7. ASSUME NEW p \in Processes, NEW old \in Versions, RotateLock(p, old)
      PROVE  Grows /\ (Same \/ RotateLock(q, old))
  <2>1. Grows /\ (p # q => process'[q] = process[q])
    BY <1>1, <1>7, RotateLocks DEF Begins
  <2> QED BY <1>7, <2>1
<1>8. ASSUME NEW p \in Processes,
             \/ \E r \in Rows : Delete(r)
             \/ \E i \in ItemRows : Stage(p, i)
             \/ Restart(p)
      PROVE  Grows /\ Same
  BY <1>1, <1>8 DEF Delete, Stage, Restart, Idle
<1>9. CASE UNCHANGED secretVars
  BY <1>1, <1>9 DEF secretVars
<1> QED BY <1>3, <1>4, <1>5, <1>6, <1>7, <1>8, <1>9 DEF SecretNext

\* A row keeps its version, is deleted, or gets the version of a process.
LEMMA VersionStep ==
  ASSUME SecretTypeInv, [SecretNext]_secretVars, NEW r \in Rows
  PROVE  \/ version'[r] \in {version[r], Deleted}
         \/ \E p \in Processes : version'[r] = process[p].key
<1> USE DEF SecretTypeInv, SecretTypeOK
<1> DEFINE Goal == \/ version'[r] \in {version[r], Deleted}
                   \/ \E p \in Processes : version'[r] = process[p].key
<1>1. ASSUME NEW p \in Processes, WriteCommit(p) \/ ImportCommit(p) \/ RotateCommit(p) PROVE Goal
  BY <1>1 DEF WriteCommit, ImportCommit, RotateCommit
<1>2. ASSUME NEW p \in Processes, NEW x \in Rows, Delete(x) \/ Stage(p, x) PROVE Goal
  BY <1>2 DEF Delete, Stage
<1>3. \/ version' = version
      \/ \E p \in Processes : WriteCommit(p) \/ ImportCommit(p) \/ RotateCommit(p)
      \/ \E p \in Processes, x \in Rows : Delete(x) \/ Stage(p, x)
  BY Zenon DEF SecretNext, WriteRead, WriteFails, RefreshRead, RefreshStore, RefreshEnds,
               ImportRead, RotateLock, RotateRollsBack, Restart, secretVars, Rows
<1> QED BY <1>1, <1>2, <1>3

LEMMA RetireStep ==
  ASSUME SecretTypeInv, RetireInv, [SecretNext]_secretVars
  PROVE  RetireInv'
<1> USE DEF SecretTypeInv, SecretTypeOK
<1>1. \A q \in Processes : process[q].key \in Int /\ process'[q].key \in Int
  BY SecretTypeStep DEF Process, Versions
<1>2. \A q \in Processes : process'[q].key >= process[q].key
  BY KeyStep
\* What every key is higher than is no version a row can get.
<1>3. ASSUME NEW v \in Versions, \A q \in Processes : process[q].key > v,
             NEW r \in Rows, version'[r] = v
      PROVE  version[r] = v
  <2>1. v # Deleted /\ v \in Int
    BY DEF Versions, Deleted
  <2> QED BY <1>1, <1>3, <2>1, VersionStep
<1>4. ASSUME NEW p \in Processes, process'[p].pc = "rotate", process'[p].last
      PROVE  /\ \A q \in Processes : process'[q].key > process'[p].loaded
             /\ \A r \in Rows : version'[r] = process'[p].loaded => r \in process'[p].locked
  <2> DEFINE Goal ==
        /\ \A q \in Processes : process'[q].key > process'[p].loaded
        /\ \A r \in Rows : version'[r] = process'[p].loaded => r \in process'[p].locked
  <2>1. CASE process'[p] = process[p]
    <3>1. process[p].loaded \in Versions
      BY <1>4, <2>1 DEF WorksOn
    <3>2. \A q \in Processes : process[q].key > process[p].loaded
      BY <1>4, <2>1 DEF RetireInv
    <3>3. \A q \in Processes : process'[q].key > process[p].loaded
      BY <1>1, <1>2, <3>1, <3>2 DEF Versions
    <3>4. \A r \in Rows : version'[r] = process[p].loaded => version[r] = process[p].loaded
      BY <1>3, <3>1, <3>2
    <3> QED BY <1>4, <2>1, <3>3, <3>4 DEF RetireInv
  <2>2. ASSUME NEW old \in Versions, RotateLock(p, old) PROVE Goal
    <3>1. /\ process'[p].loaded = old /\ process'[p].locked = Selected(old)
          /\ version' = version /\ \A x \in Processes : process[x].key > old
      BY <1>4, <2>2, RotateLocks DEF Begins
    <3>2. \A x \in Processes : process'[x].key > old
      BY <1>1, <1>2, <3>1 DEF Versions
    <3> QED BY <3>1, <3>2 DEF Selected
  <2>3. process'[p] = process[p] \/ \E old \in Versions : RotateLock(p, old)
    BY <1>4, KeyStep
  <2> QED BY <2>1, <2>2, <2>3
<1>5. ASSUME NEW v \in retired'
      PROVE  (\A q \in Processes : process'[q].key > v) /\ \A r \in Rows : version'[r] # v
  <2>1. CASE v \in retired
    <3>1. v \in Versions /\ \A q \in Processes : process[q].key > v
      BY <2>1 DEF RetireInv
    <3> QED BY <1>1, <1>2, <1>3, <2>1, <3>1 DEF RetireInv, Versions
  <2>2. CASE v \notin retired
    <3>1. PICK p \in Processes : RotateCommit(p) /\ process[p].last /\ v = process[p].loaded
      <4>1. retired' = retired \/ \E p \in Processes : RotateCommit(p)
        BY Zenon DEF SecretNext, WriteRead, WriteCommit, WriteFails, Delete, RefreshRead,
                     RefreshStore, RefreshEnds, Stage, ImportRead, ImportCommit, RotateLock,
                     RotateRollsBack, Restart, secretVars
      <4> QED BY <1>5, <2>2, <4>1 DEF RotateCommit
    <3>2. v \in Versions /\ \A q \in Processes : process[q].key > v
      BY <3>1 DEF RetireInv, RotateCommit, WorksOn
    <3>3. ASSUME NEW r \in Rows PROVE version'[r] # v
      BY <1>1, <3>1, <3>2 DEF RotateCommit, RetireInv, Versions
    <3> QED BY <1>1, <1>2, <3>2, <3>3 DEF Versions
  <2> QED BY <2>1, <2>2
<1> QED BY <1>4, <1>5 DEF RetireInv

LEMMA RetireInit == SecretInit => RetireInv
BY DEF SecretInit, RetireInv, Idle

-----------------------------------------------------------------------------
(* Secrets: the latest token                                               *)

\* A refresh holds the last token the user saved, unless he has saved another
\* since it was read.
SaveInv ==
  \A p \in Processes : process[p].pc = "refresh" /\ process[p].row \notin raced =>
    process[p].save = saves[process[p].row]

LEMMA SaveInit == SecretInit => SaveInv /\ LatestTokenKept
<1>1. \A a \in AccountRows : <<a, "refresh_token">> \in Slots
  BY DEF Slots, Rows, Fields, FieldNames
<1> QED BY <1>1 DEF SecretInit, SaveInv, LatestTokenKept, Idle

\* The columns of a row's token after a save.
LEMMA SavedToken ==
  ASSUME NEW r \in Rows, NEW F, NEW k, NEW n, NEW cleared, NEW a \in AccountRows
  PROVE  LET c == Saved(r, F, k, n, cleared)[<<a, "refresh_token">>] IN
         IF a = r /\ "refresh_token" \in F THEN c = None \/ c.save = n
         ELSE c = cipher[<<a, "refresh_token">>]
<1>1. <<a, "refresh_token">> \in Slots
  BY DEF Slots, Rows, Fields, FieldNames
<1> QED BY <1>1 DEF Saved

\* A save of a row that counts: refreshes that are under way are overtaken,
\* and without any, the row is in order again.
LEMMA SaveOfCommit ==
  ASSUME SecretTypeInv, SaveInv, LatestTokenKept,
         NEW p \in Processes, process' = Done(p), process[p].pc # "refresh",
         NEW r \in Rows, NEW F, "refresh_token" \in F => r \in AccountRows, CountSave(r, F),
         \A a \in AccountRows :
           LET c == cipher'[<<a, "refresh_token">>] IN
           \/ c = None
           \/ IF a = r /\ "refresh_token" \in F THEN c.save = saves[r] + 1
              ELSE c = cipher[<<a, "refresh_token">>]
  PROVE  SaveInv' /\ LatestTokenKept'
<1> USE DEF SecretTypeInv, SecretTypeOK
<1>1. SaveInv'
  <2> SUFFICES ASSUME NEW q \in Processes, process'[q].pc = "refresh", process'[q].row \notin raced'
               PROVE  process'[q].save = saves'[process'[q].row]
    BY DEF SaveInv
  <2>1. q # p /\ process'[q] = process[q] /\ process[q].row \in AccountRows
    BY DEF Done, Idle, WorksOn
  <2>2. "refresh_token" \in F => process[q].row # r
    BY <2>1 DEF CountSave, Refreshing
  <2>3. process[q].save = saves[process[q].row]
    BY <2>1, <2>2 DEF SaveInv, CountSave
  <2> QED BY <2>1, <2>2, <2>3 DEF CountSave
<1>2. LatestTokenKept'
  <2> SUFFICES ASSUME NEW a \in AccountRows, a \notin raced',
                      cipher'[<<a, "refresh_token">>] # None
               PROVE  cipher'[<<a, "refresh_token">>].save = saves'[a]
    BY DEF LatestTokenKept
  <2>1. CASE a = r /\ "refresh_token" \in F
    BY <2>1 DEF CountSave
  <2>2. CASE ~(a = r /\ "refresh_token" \in F)
    BY <2>2 DEF LatestTokenKept, CountSave
  <2> QED BY <2>1, <2>2
<1> QED BY <1>1, <1>2

LEMMA SaveStep ==
  ASSUME SecretTypeInv, SaveInv, LatestTokenKept, [SecretNext]_secretVars
  PROVE  SaveInv' /\ LatestTokenKept'
<1> USE DEF SecretTypeInv, SecretTypeOK
<1> DEFINE Goal == SaveInv' /\ LatestTokenKept'
<1>1. \A a \in AccountRows : a \in Rows /\ <<a, "refresh_token">> \in Slots
  BY DEF Slots, Rows, Fields, FieldNames
<1>2. ASSUME NEW p \in Processes, NEW a \in AccountRows, RefreshRead(p, a) PROVE Goal
  <2>1. PICK new : /\ Begins(p, new) /\ new.row = a
                   /\ cipher[<<a, "refresh_token">>] # None
                   /\ new.save = cipher[<<a, "refresh_token">>].save
    BY <1>2, RefreshReads
  <2>2. a \notin raced => new.save = saves[a]
    BY <2>1 DEF LatestTokenKept
  <2> QED BY <2>1, <2>2 DEF SaveInv, LatestTokenKept, Begins
\* Nothing is saved, and no process begins to refresh.
<1>3. ASSUME UNCHANGED <<saves, raced>>,
             \A q \in Processes : process'[q].pc = "refresh" => process'[q] = process[q],
             \A a \in AccountRows :
               LET c == cipher'[<<a, "refresh_token">>] IN
               c = None \/ a \in raced \/ c.save = saves[a]
      PROVE  Goal
  BY <1>3 DEF SaveInv, LatestTokenKept
<1>4. ASSUME NEW p \in Processes, NEW r \in Rows, WriteRead(p, r) PROVE Goal
  <2>1. \A q \in Processes : process'[q].pc = "refresh" => process'[q] = process[q]
    BY <1>4, WriteReads DEF Begins
  <2>2. UNCHANGED <<cipher, saves, raced>>
    BY <1>4, WriteReads DEF Begins
  <2> QED BY <1>3, <2>1, <2>2 DEF LatestTokenKept
<1>5. ASSUME NEW p \in Processes, NEW i \in ItemRows, ImportRead(p, i) PROVE Goal
  <2>1. \A q \in Processes : process'[q].pc = "refresh" => process'[q] = process[q]
    BY <1>5, ImportReads DEF Begins
  <2>2. UNCHANGED <<cipher, saves, raced>>
    BY <1>5, ImportReads DEF Begins
  <2> QED BY <1>3, <2>1, <2>2 DEF LatestTokenKept
<1>6. ASSUME NEW p \in Processes, NEW old \in Versions, RotateLock(p, old) PROVE Goal
  <2>1. \A q \in Processes : process'[q].pc = "refresh" => process'[q] = process[q]
    BY <1>6, RotateLocks DEF Begins
  <2>2. UNCHANGED <<cipher, saves, raced>>
    BY <1>6, RotateLocks DEF Begins
  <2> QED BY <1>3, <2>1, <2>2 DEF LatestTokenKept
<1>7. ASSUME NEW p \in Processes, process' = Done(p)
      PROVE  \A q \in Processes : process'[q].pc = "refresh" => process'[q] = process[q]
  BY <1>7 DEF Done, Idle
<1>8. ASSUME NEW p \in Processes, WriteFails(p) \/ RefreshEnds(p) \/ RotateRollsBack(p) PROVE Goal
  BY <1>3, <1>7, <1>8 DEF WriteFails, RefreshEnds, RotateRollsBack, LatestTokenKept
<1>9. ASSUME NEW p \in Processes, RefreshStore(p) PROVE Goal
  <2> DEFINE a == process[p].row
             s == process[p].save
  <2>1. /\ process' = Done(p) /\ UNCHANGED <<saves, raced>>
        /\ a \in AccountRows /\ (a \notin raced => s = saves[a])
        /\ cipher' = [cipher EXCEPT ![<<a, "refresh_token">>] = [by |-> process[p].key, save |-> s]]
    BY <1>9 DEF RefreshStore, WorksOn, SaveInv
  <2> HIDE DEF a, s
  <2>2. ASSUME NEW b \in AccountRows
        PROVE  LET c == cipher'[<<b, "refresh_token">>] IN
               c = None \/ b \in raced \/ c.save = saves[b]
    BY <1>1, <2>1 DEF LatestTokenKept
  <2> QED BY <1>3, <1>7, <2>1, <2>2
<1>10. ASSUME NEW p \in Processes, WriteCommit(p) PROVE Goal
  <2> DEFINE r == process[p].row
  <2>1. PICK F, cleared : /\ F \subseteq process[p].fields /\ CountSave(r, F)
                          /\ cipher' = Saved(r, F, process[p].key, saves[r] + 1, cleared)
    BY <1>10 DEF WriteCommit, Changed
  <2>2. /\ r \in Rows /\ ("refresh_token" \in F => r \in AccountRows)
        /\ process' = Done(p) /\ process[p].pc # "refresh" /\ CountSave(r, F)
    BY <1>10, <2>1 DEF WriteCommit, WorksOn, Fields
  <2> HIDE DEF r
  <2>3. ASSUME NEW a \in AccountRows
        PROVE  LET c == cipher'[<<a, "refresh_token">>] IN
               \/ c = None
               \/ IF a = r /\ "refresh_token" \in F THEN c.save = saves[r] + 1
                  ELSE c = cipher[<<a, "refresh_token">>]
    BY <2>1, <2>2, SavedToken
  <2> QED BY <2>2, <2>3, SaveOfCommit
<1>11. ASSUME NEW p \in Processes, ImportCommit(p) PROVE Goal
  <2> DEFINE i == process[p].row
             F == process[p].fields
  <2>1. PICK r \in AccountRows :
          /\ CountSave(r, F)
          /\ cipher' = [s \in Slots |-> IF s[1] = i THEN None
                                        ELSE Saved(r, F, process[p].key, saves[r] + 1, {})[s]]
    BY <1>11 DEF ImportCommit
  <2>2. r \in Rows /\ process' = Done(p) /\ process[p].pc # "refresh"
    BY <1>11 DEF ImportCommit, Rows
  <2> HIDE DEF i, F
  <2>3. ASSUME NEW a \in AccountRows
        PROVE  LET c == cipher'[<<a, "refresh_token">>] IN
               \/ c = None
               \/ IF a = r /\ "refresh_token" \in F THEN c.save = saves[r] + 1
                  ELSE c = cipher[<<a, "refresh_token">>]
    <3>1. \/ cipher'[<<a, "refresh_token">>] = None
          \/ cipher'[<<a, "refresh_token">>]
               = Saved(r, F, process[p].key, saves[r] + 1, {})[<<a, "refresh_token">>]
      BY <1>1, <2>1
    <3> QED BY <2>2, <3>1, SavedToken
  <2> QED BY <2>1, <2>2, <2>3, SaveOfCommit
<1>12. ASSUME NEW p \in Processes, RotateCommit(p) PROVE Goal
  <2>1. /\ process' = Done(p) /\ UNCHANGED <<saves, raced>>
        /\ cipher' = [s \in Slots |-> Reencrypted(s, process[p].locked, process[p].key)]
    BY <1>12 DEF RotateCommit
  <2>2. ASSUME NEW a \in AccountRows
        PROVE  LET c == cipher'[<<a, "refresh_token">>] IN
               c = None \/ a \in raced \/ c.save = saves[a]
    BY <1>1, <2>1 DEF Reencrypted, Ciphertext, LatestTokenKept
  <2> QED BY <1>3, <1>7, <2>1, <2>2
<1>13. ASSUME NEW r \in Rows, Delete(r) PROVE Goal
  <2>1. process' = process /\ UNCHANGED <<saves, raced>>
    BY <1>13 DEF Delete
  <2>2. ASSUME NEW a \in AccountRows
        PROVE  LET c == cipher'[<<a, "refresh_token">>] IN
               c = None \/ a \in raced \/ c.save = saves[a]
    BY <1>1, <1>13 DEF Delete, LatestTokenKept
  <2> QED BY <1>3, <2>1, <2>2
<1>14. ASSUME NEW p \in Processes, NEW i \in ItemRows, Stage(p, i) PROVE Goal
  <2>1. process' = process /\ UNCHANGED <<saves, raced>>
    BY <1>14 DEF Stage
  <2>2. PICK F : cipher' = Saved(i, F, process[p].key, 0, {})
    BY <1>14 DEF Stage
  <2>3. ASSUME NEW a \in AccountRows
        PROVE  cipher'[<<a, "refresh_token">>] = cipher[<<a, "refresh_token">>]
    BY <2>2, SavedToken, SecretsAssumption DEF Rows
  <2> QED BY <1>3, <2>1, <2>3 DEF LatestTokenKept
<1>15. ASSUME NEW p \in Processes, Restart(p) PROVE Goal
  BY <1>3, <1>15 DEF Restart, Idle, LatestTokenKept
<1>16. CASE UNCHANGED secretVars
  BY <1>3, <1>16 DEF secretVars, LatestTokenKept
<1> QED BY <1>2, <1>4, <1>5, <1>6, <1>8, <1>9, <1>10, <1>11, <1>12, <1>13, <1>14, <1>15, <1>16
        DEF SecretNext

-----------------------------------------------------------------------------
(* Secrets: theorems                                                       *)

\* Versions, ciphertexts, processes and counters keep their types, whatever
\* writes, refreshes, imports, rotations and restarts there are.
THEOREM SecretTypes == SecretSpec => []SecretTypeOK
<1>1. SecretSpec => []SecretTypeInv
  BY SecretTypeInit, SecretTypeStep, PTL DEF SecretSpec
<1>2. SecretTypeInv => SecretTypeOK
  BY DEF SecretTypeInv
<1> QED BY <1>1, <1>2, PTL

\* write_account_secrets, handle_token_refresh, the imports and
\* rotate_master_key leave every secret with a key that is still there, or in
\* a row whose rotation overtook a write.
THEOREM SecretsAreReadable == SecretSpec => []SecretsReadable
<1> DEFINE Inv == SecretTypeInv /\ ReadInv /\ RetireInv
<1>1. SecretInit => Inv
  BY SecretTypeInit, ReadInit, RetireInit
<1>2. Inv /\ [SecretNext]_secretVars => Inv'
  BY SecretTypeStep, ReadStep, RetireStep
<1>3. Inv => SecretsReadable
  BY DEF ReadInv, RetireInv, SecretsReadable, OldKeyDisposable
<1> HIDE DEF Inv
<1> QED BY <1>1, <1>2, <1>3, PTL DEF SecretSpec

\* The UPDATE of a token refresh brings back no token the user has replaced,
\* unless he did so between the read and the UPDATE and has saved none since.
THEOREM LatestTokensAreKept == SecretSpec => []LatestTokenKept
<1> DEFINE Inv == SecretTypeInv /\ SaveInv /\ LatestTokenKept
<1>1. SecretInit => Inv
  BY SecretTypeInit, SaveInit
<1>2. Inv /\ [SecretNext]_secretVars => Inv'
  BY SecretTypeStep, SaveStep
<1>3. Inv => LatestTokenKept
  OBVIOUS
<1> HIDE DEF Inv
<1> QED BY <1>1, <1>2, <1>3, PTL DEF SecretSpec

-----------------------------------------------------------------------------
(* AccountHealth: what providers answer                                    *)

\* Division by the number of proxies numbers the channels.
LEMMA ChannelOfTry ==
  ASSUME NEW n \in Nat \ {0}, NEW m \in {1, 2}, NEW i \in 1..(n * m)
  PROVE  1 + (i - 1) \div n \in 1..m
<1>1. CASE m = 1
  <2>1. i - 1 \in 0..(n - 1)
    BY <1>1
  <2>2. (i - 1) \div n = 0
    BY <2>1
  <2> QED BY <1>1, <2>2
<1>2. CASE m = 2
  <2>1. i - 1 \in 0..(2 * n - 1)
    BY <1>2
  <2>2. (i - 1) \div n \in {0, 1}
    BY <2>1
  <2> QED BY <1>2, <2>2
<1> QED BY <1>1, <1>2

\* There is always something to try.
LEMMA TriesType ==
  ASSUME NEW type, NEW method
  PROVE  Tries(type, method, ProxyUrls) \in Seq(Channels) \ {<<>>}
<1> DEFINE n == IF ProxyUrls = 0 THEN 1 ELSE ProxyUrls
           order == Order(type, method)
           m == Len(order)
<1>1. n \in Nat \ {0}
  BY HealthAssumption
<1>2. m \in {1, 2} /\ \A i \in 1..m : order[i] \in Channels
  <2>1. CASE method \in Channels
    BY <2>1 DEF Order
  <2>2. CASE method \notin Channels /\ type = "imap"
    BY <2>2 DEF Order, Channels
  <2>3. CASE method \notin Channels /\ type # "imap"
    BY <2>3 DEF Order, Channels
  <2> QED BY <2>1, <2>2, <2>3
<1>3. Tries(type, method, ProxyUrls) = [i \in 1..(n * m) |-> order[1 + (i - 1) \div n]]
  BY DEF Tries
<1> HIDE DEF n, order, m
<1>4. \A i \in 1..(n * m) : order[1 + (i - 1) \div n] \in Channels
  BY <1>1, <1>2, ChannelOfTry
<1>5. n * m \in Nat \ {0}
  BY <1>1, <1>2
<1>6. [i \in 1..(n * m) |-> order[1 + (i - 1) \div n]] \in Seq(Channels)
  BY <1>4, <1>5
<1>7. Len([i \in 1..(n * m) |-> order[1 + (i - 1) \div n]]) = n * m
  BY <1>5
<1> QED BY <1>3, <1>5, <1>6, <1>7

\* An attempt answers, fails or raises.  A check fails with a code of the
\* credentials only for them, and a refresh that fails for a reason that may
\* pass may be repeated.
LEMMA AnswerOfAttempt ==
  ASSUME NEW channel, NEW op, NEW c \in Conditions
  PROVE  LET answer == Attempt(channel, op, c) IN
         /\ answer \in [kind: {"ok", "failed", "raised"}, auth: BOOLEAN, retry: BOOLEAN]
         /\ answer.kind = "failed" /\ op = "health" /\ answer.auth => c \in TokenConditions
         /\ answer.kind = "failed" /\ op = "refresh" /\ c \in Transient => answer.retry
<1> USE DEF Conditions, TokenConditions, Transient, TokenFailure, Failed, Ok, Raised
<1>1. CASE op = "refresh"
  BY <1>1 DEF Attempt, GraphRefresh, ImapRefresh, ImapTokenFailure
<1>2. CASE op = "health"
  BY <1>2 DEF Attempt, GraphCheck, ImapCheck, ImapTokenFailure, GraphAnswer, ImapSession,
              ServerFailure
<1>3. CASE op \notin {"refresh", "health"}
  BY <1>3 DEF Attempt, GraphMail, ImapMail, ImapTokenFailure, GraphAnswer, ImapSession,
              ServerFailure
<1> QED BY <1>1, <1>2, <1>3

-----------------------------------------------------------------------------
(* AccountHealth: types                                                    *)

\* A session that calls has something to try, and one that holds the account
\* has read it.
AtWork(s) ==
  /\ session[s].pc = "call" => session[s].tries # <<>>
  /\ session[s].pc # "idle" /\ session[s].held => session[s].read \in Columns

HealthTypeInv ==
  /\ account \in Columns \cup {None}
  /\ session \in [Sessions -> SessionState]
  /\ lost \in BOOLEAN /\ since \in Nat /\ starts \in 0..MaxStarts
  /\ \A s \in Sessions : AtWork(s)

LEMMA NothingType == Nothing \in SessionState
BY DEF Nothing, SessionState

LEMMA HealthTypeInit == HealthInit => HealthTypeInv
<1> SUFFICES ASSUME HealthInit PROVE HealthTypeInv
  OBVIOUS
<1>1. account \in Columns /\ account.failures \in Nat
  BY HealthAssumption DEF HealthInit, Columns
<1>2. session \in [Sessions -> SessionState]
  BY NothingType DEF HealthInit
<1>3. \A s \in Sessions : AtWork(s)
  BY DEF HealthInit, AtWork, Nothing
<1>4. lost \in BOOLEAN
  BY Zenon DEF HealthInit
<1>5. since \in Nat /\ starts \in 0..MaxStarts
  BY <1>1, HealthAssumption DEF HealthInit
<1> QED BY <1>1, <1>2, <1>3, <1>4, <1>5 DEF HealthTypeInv

\* A session goes on to a new state.
LEMMA SessionStep ==
  ASSUME HealthTypeInv, NEW s \in Sessions, NEW new \in SessionState,
         session' = [session EXCEPT ![s] = new],
         new.pc = "call" => new.tries # <<>>,
         new.pc # "idle" /\ new.held => new.read \in Columns
  PROVE  session' \in [Sessions -> SessionState] /\ \A q \in Sessions : AtWork(q)'
<1>1. ASSUME NEW q \in Sessions PROVE AtWork(q)'
  BY DEF HealthTypeInv, AtWork
<1> QED BY <1>1 DEF HealthTypeInv

\* What a call makes of a session.
LEMMA TriedType ==
  ASSUME NEW r \in SessionState, r.pc = "call", r.tries # <<>>,
         NEW answer \in [kind: {"ok", "failed", "raised"}, auth: BOOLEAN, retry: BOOLEAN]
  PROVE  /\ Tried(r, answer) \in SessionState
         /\ Tried(r, answer).held = r.held /\ Tried(r, answer).read = r.read
         /\ Tried(r, answer).pc = "call" => Tried(r, answer).tries # <<>>
<1>1. /\ Head(r.tries) \in Channels /\ Tail(r.tries) \in Seq(Channels)
      /\ Len(r.tries) # 1 => Tail(r.tries) # <<>>
  <2>1. r.tries \in Seq(Channels)
    BY DEF SessionState
  <2>2. Len(r.tries) \in Nat /\ Len(Tail(r.tries)) = Len(r.tries) - 1
    BY <2>1, HeadTailProperties
  <2>3. Tail(r.tries) = <<>> => Len(Tail(r.tries)) = 0
    BY <2>1, HeadTailProperties, EmptySeq
  <2>4. Len(r.tries) # 1 => Tail(r.tries) # <<>>
    BY <2>2, <2>3
  <2> QED BY <2>1, <2>4, HeadTailProperties
<1>2. CASE answer.kind = "ok"
  <2>1. Tried(r, answer) =
          [Nothing EXCEPT !.pc = "store", !.op = r.op, !.auto = r.auto, !.held = r.held,
                          !.read = r.read, !.won = Head(r.tries)]
    BY <1>2, Zenon DEF Tried, Succeeded
  <2> QED BY <1>1, <2>1, NothingType DEF SessionState
<1>3. CASE answer.kind # "ok"
  <2> DEFINE pc == IF Len(r.tries) = 1 THEN "store" ELSE "call"
             auth == r.auth /\ (r.op = "health" => answer.auth)
             retry == r.retry \/ (r.op = "refresh" /\ answer.retry)
  <2>1. auth \in BOOLEAN /\ retry \in BOOLEAN
    OBVIOUS
  <2>2. Tried(r, answer) = [r EXCEPT !.pc = pc, !.tries = Tail(@), !.auth = auth, !.retry = retry]
    BY <1>3, Zenon DEF Tried
  <2>3. pc \in {"store", "call"} /\ (pc = "call" => Len(r.tries) # 1)
    OBVIOUS
  <2> HIDE DEF pc, auth, retry
  <2> QED BY <1>1, <2>1, <2>2, <2>3 DEF SessionState
<1> QED BY <1>2, <1>3

\* What is said of a session's failures is what happened.
Honest(r) == (r.auth => r.tokenless) /\ (r.transient => r.retry)

\* A call leaves a session that has something else to try, that is done, or
\* that has given up; and that tells the truth if it did before.
LEMMA CallResult ==
  ASSUME HealthTypeInv, NEW s \in Sessions, NEW c \in Conditions, Call(s, c)
  PROVE  \E new \in SessionState :
           /\ session' = [session EXCEPT ![s] = new]
           /\ new.pc = "call" => new.tries # <<>>
           /\ new.pc # "idle" /\ new.held => new.read \in Columns
           /\ Honest(session[s]) => Honest(new)
<1> DEFINE r == session[s]
           answer == Attempt(Head(r.tries), r.op, c)
           tokenless == Tried(r, answer).tokenless /\ (r.op = "health" => c \in TokenConditions)
           transient == Tried(r, answer).transient \/ (r.op = "refresh" /\ c \in Transient)
<1>1. /\ r \in SessionState /\ r.pc = "call" /\ r.tries # <<>>
      /\ r.held => r.read \in Columns
  BY DEF HealthTypeInv, AtWork, Call
<1>2. session' = [session EXCEPT ![s] =
        IF answer.kind = "raised" THEN Nothing
        ELSE IF answer.kind = "ok" THEN Tried(r, answer)
        ELSE [Tried(r, answer) EXCEPT !.tokenless = tokenless, !.transient = transient]]
  BY Zenon DEF Call
<1>3. /\ answer \in [kind: {"ok", "failed", "raised"}, auth: BOOLEAN, retry: BOOLEAN]
      /\ answer.kind = "failed" /\ r.op = "health" /\ answer.auth => c \in TokenConditions
      /\ answer.kind = "failed" /\ r.op = "refresh" /\ c \in Transient => answer.retry
  BY AnswerOfAttempt
<1>4. tokenless \in BOOLEAN /\ transient \in BOOLEAN
  BY Zenon
<1> HIDE DEF answer
<1>5. /\ Tried(r, answer) \in SessionState
      /\ Tried(r, answer).held = r.held /\ Tried(r, answer).read = r.read
      /\ Tried(r, answer).pc = "call" => Tried(r, answer).tries # <<>>
  BY <1>1, <1>3, TriedType
<1>6. CASE answer.kind = "raised"
  <2>1. Nothing.pc = "idle" /\ Honest(Nothing)
    BY DEF Nothing, Honest
  <2> QED BY <1>2, <1>6, <2>1, NothingType
<1>7. CASE answer.kind = "ok"
  <2>1. session' = [session EXCEPT ![s] = Tried(r, answer)]
    BY <1>2, <1>7
  <2>2. Honest(Tried(r, answer))
    <3>1. Tried(r, answer) = Succeeded(r)
      BY <1>7, Zenon DEF Tried
    <3>2. Honest(Succeeded(r))
      BY DEF Succeeded, Nothing, Honest
    <3> QED BY <3>1, <3>2
  <2> QED BY <1>1, <1>5, <2>1, <2>2
<1>8. CASE answer.kind = "failed"
  <2> DEFINE new == [Tried(r, answer) EXCEPT !.tokenless = tokenless, !.transient = transient]
  <2>1. session' = [session EXCEPT ![s] = new]
    BY <1>2, <1>8
  <2>2. /\ Tried(r, answer).auth = (r.auth /\ (r.op = "health" => answer.auth))
        /\ Tried(r, answer).retry = (r.retry \/ (r.op = "refresh" /\ answer.retry))
        /\ Tried(r, answer).tokenless = r.tokenless /\ Tried(r, answer).transient = r.transient
    <3> DEFINE pc == IF Len(r.tries) = 1 THEN "store" ELSE "call"
               auth == r.auth /\ (r.op = "health" => answer.auth)
               retry == r.retry \/ (r.op = "refresh" /\ answer.retry)
    <3>1. Tried(r, answer) = [r EXCEPT !.pc = pc, !.tries = Tail(@), !.auth = auth, !.retry = retry]
      BY <1>8, Zenon DEF Tried
    <3> HIDE DEF pc, auth, retry
    <3>2. /\ Tried(r, answer).auth = auth /\ Tried(r, answer).retry = retry
          /\ Tried(r, answer).tokenless = r.tokenless /\ Tried(r, answer).transient = r.transient
      BY <1>1, <3>1 DEF SessionState
    <3> QED BY <3>2 DEF auth, retry
  <2>3. tokenless = (r.tokenless /\ (r.op = "health" => c \in TokenConditions))
        /\ transient = (r.transient \/ (r.op = "refresh" /\ c \in Transient))
    BY <2>2, Zenon
  <2> HIDE DEF tokenless, transient
  <2>4. /\ new \in SessionState
        /\ new.held = r.held /\ new.read = r.read /\ new.pc = Tried(r, answer).pc
        /\ new.tries = Tried(r, answer).tries
        /\ new.auth = Tried(r, answer).auth /\ new.retry = Tried(r, answer).retry
        /\ new.tokenless = tokenless /\ new.transient = transient
    BY <1>4, <1>5 DEF SessionState
  <2>5. Honest(r) => Honest(new)
    <3> HIDE DEF new
    <3>1. Honest(r) => (new.auth => new.tokenless)
      BY <1>3, <1>8, <2>2, <2>3, <2>4, Zenon DEF Honest
    <3>2. Honest(r) => (new.transient => new.retry)
      BY <1>3, <1>8, <2>2, <2>3, <2>4, Zenon DEF Honest
    <3> QED BY <3>1, <3>2 DEF Honest
  <2> HIDE DEF new
  <2> QED BY <1>1, <1>5, <2>1, <2>4, <2>5
<1> QED BY <1>3, <1>6, <1>7, <1>8

\* What a session is started with.
LEMMA StartResult ==
  ASSUME HealthTypeInv, NEW s \in Sessions,
         \/ \E op \in {"health", "refresh"} : StartJob(s, op)
         \/ \E m \in Channels \cup {"auto"}, h \in BOOLEAN : StartMail(s, m, h)
  PROVE  \E new \in SessionState :
           /\ session' = [session EXCEPT ![s] = new]
           /\ new.pc = "call" /\ new.tries # <<>> /\ new.won = None
           /\ new.held => new.read \in Columns
           /\ Honest(new)
<1>1. ASSUME NEW op \in {"health", "refresh"}, StartJob(s, op)
      PROVE  \E new \in SessionState :
               /\ session' = [session EXCEPT ![s] = new]
               /\ new.pc = "call" /\ new.tries # <<>> /\ new.won = None
               /\ new.held => new.read \in Columns
               /\ Honest(new)
  <2> DEFINE t == Tries(account.type, "auto", ProxyUrls)
             new == [Nothing EXCEPT !.pc = "call", !.op = op, !.held = TRUE, !.read = account,
                                    !.tries = t]
  <2>1. t \in Seq(Channels) /\ t # <<>>
    BY TriesType
  <2>2. account \in Columns /\ session' = [session EXCEPT ![s] = new]
    BY <1>1 DEF StartJob, HealthTypeInv
  <2> HIDE DEF t
  <2>3. new \in SessionState
    BY <2>1, <2>2, NothingType DEF SessionState
  <2>4. new.pc = "call" /\ new.tries = t /\ new.read = account /\ new.won = None
        /\ new.auth = TRUE /\ new.tokenless = TRUE /\ new.transient = FALSE
    BY DEF Nothing
  <2> HIDE DEF new
  <2> QED BY <2>1, <2>2, <2>3, <2>4 DEF Honest
<1>2. ASSUME NEW m \in Channels \cup {"auto"}, NEW h \in BOOLEAN, StartMail(s, m, h)
      PROVE  \E new \in SessionState :
               /\ session' = [session EXCEPT ![s] = new]
               /\ new.pc = "call" /\ new.tries # <<>> /\ new.won = None
               /\ new.held => new.read \in Columns
               /\ Honest(new)
  <2> DEFINE t == Tries(account.type, m, ProxyUrls)
             auto == m = "auto"
             read == IF h THEN account ELSE None
             new == [Nothing EXCEPT !.pc = "call", !.op = "mail", !.auto = auto, !.held = h,
                                    !.read = read, !.tries = t]
  <2>1. t \in Seq(Channels) /\ t # <<>> /\ auto \in BOOLEAN
    BY TriesType
  <2>2. read \in Columns \cup {None} /\ (h => read \in Columns)
    BY <1>2 DEF StartMail, HealthTypeInv
  <2>3. session' = [session EXCEPT ![s] = new]
    BY <1>2, Zenon DEF StartMail
  <2> HIDE DEF t, auto, read
  <2>4. new \in SessionState
    BY <2>1, <2>2, NothingType DEF SessionState
  <2>5. new.pc = "call" /\ new.tries = t /\ new.read = read /\ new.held = h /\ new.won = None
        /\ new.auth = TRUE /\ new.tokenless = TRUE /\ new.transient = FALSE
    BY DEF Nothing
  <2> HIDE DEF new
  <2> QED BY <2>1, <2>2, <2>3, <2>4, <2>5 DEF Honest
<1> QED BY <1>1, <1>2

\* A session that stores knows the account, and what it computes is one.
LEMMA SeenType ==
  ASSUME HealthTypeInv, NEW s \in Sessions, session[s].pc = "store", account # None
  PROVE  Seen(s) \in Columns
BY DEF HealthTypeInv, AtWork, Seen

LEMMA NewColumns ==
  ASSUME NEW c \in Columns, NEW r \in SessionState
  PROVE  /\ r.won # None => Success(c, r) \in Columns
         /\ Refreshed(c, r) \in Columns
         /\ c.failures < MaxFailures =>
              [c EXCEPT !.health = "failed", !.failures = @ + 1,
                        !.auth = IF Withdraws(r) THEN "invalid" ELSE @,
                        !.token = IF Withdraws(r) THEN "failed" ELSE @] \in Columns
<1>1. ASSUME r.won # None PROVE Success(c, r) \in Columns
  <2>1. 0 \in 0..MaxFailures /\ r.won \in Channels
    BY <1>1, HealthAssumption DEF SessionState
  <2> QED BY <2>1 DEF Columns, Success
<1>2. Refreshed(c, r) \in Columns
  BY HealthAssumption DEF Columns, SessionState, Refreshed
<1>3. ASSUME c.failures < MaxFailures
      PROVE  [c EXCEPT !.health = "failed", !.failures = @ + 1,
                       !.auth = IF Withdraws(r) THEN "invalid" ELSE @,
                       !.token = IF Withdraws(r) THEN "failed" ELSE @] \in Columns
  <2>1. c.failures + 1 \in 0..MaxFailures
    BY <1>3, HealthAssumption DEF Columns
  <2> QED BY <2>1 DEF Columns
<1> QED BY <1>1, <1>2, <1>3

LEMMA WrittenType ==
  ASSUME NEW s, account \in Columns, NEW new \in Columns
  PROVE  Written(s, new) \in Columns
BY DEF Columns, Written

LEMMA StoreType ==
  ASSUME HealthTypeInv, NEW s \in Sessions, account # None, NEW new \in Columns, Store(s, new),
         since' \in Nat
  PROVE  HealthTypeInv'
<1>1. account' \in Columns
  BY WrittenType DEF Store, HealthTypeInv
<1>2. session' \in [Sessions -> SessionState] /\ \A q \in Sessions : AtWork(q)'
  <2>1. Nothing.pc = "idle"
    BY DEF Nothing
  <2>2. session' = [session EXCEPT ![s] = Nothing]
    BY DEF Store
  <2>3. ASSUME NEW q \in Sessions PROVE AtWork(q)'
    BY <2>1, <2>2 DEF HealthTypeInv, AtWork
  <2> QED BY <2>2, <2>3, NothingType DEF HealthTypeInv
<1>3. lost' \in BOOLEAN
  BY Zenon DEF Store
<1> QED BY <1>1, <1>2, <1>3 DEF Store, HealthTypeInv

\* The three ways to record an outcome.
LEMMA Recorded ==
  ASSUME HealthTypeInv, NEW s \in Sessions,
         RecordSuccess(s) \/ RecordFailure(s) \/ RecordRefresh(s)
  PROVE  \E new \in Columns : Store(s, new) /\ account # None /\ since' \in Nat
<1> DEFINE Goal == \E new \in Columns : Store(s, new) /\ account # None /\ since' \in Nat
<1>1. session[s] \in SessionState /\ since \in Nat
  BY DEF HealthTypeInv
<1>2. CASE RecordSuccess(s)
  BY <1>1, <1>2, SeenType, NewColumns DEF RecordSuccess
<1>3. CASE RecordRefresh(s)
  BY <1>1, <1>3, SeenType, NewColumns DEF RecordRefresh
<1>4. CASE RecordFailure(s)
  <2> DEFINE new == [Seen(s) EXCEPT !.health = "failed", !.failures = @ + 1,
                              !.auth = IF Withdraws(session[s]) THEN "invalid" ELSE @,
                              !.token = IF Withdraws(session[s]) THEN "failed" ELSE @]
  <2>1. new \in Columns
    BY <1>1, <1>4, SeenType, NewColumns DEF RecordFailure
  <2>2. Store(s, new) /\ account # None /\ since' = since + 1
    BY <1>4 DEF RecordFailure
  <2> HIDE DEF new
  <2> QED BY <1>1, <2>1, <2>2
<1> QED BY <1>2, <1>3, <1>4

LEMMA HealthTypeStep == HealthTypeInv /\ [HealthNext]_healthVars => HealthTypeInv'
<1> SUFFICES ASSUME HealthTypeInv, [HealthNext]_healthVars PROVE HealthTypeInv'
  OBVIOUS
<1>1. ASSUME NEW s \in Sessions,
             \/ \E op \in {"health", "refresh"} : StartJob(s, op)
             \/ \E m \in Channels \cup {"auto"}, h \in BOOLEAN : StartMail(s, m, h)
      PROVE  HealthTypeInv'
  <2>1. starts < MaxStarts /\ starts' = starts + 1 /\ UNCHANGED <<account, lost, since>>
    BY <1>1, Zenon DEF StartJob, StartMail
  <2>2. starts' \in 0..MaxStarts
    BY <2>1, HealthAssumption DEF HealthTypeInv
  <2> QED BY <1>1, <2>1, <2>2, StartResult, SessionStep DEF HealthTypeInv
<1>2. ASSUME NEW s \in Sessions, NEW c \in Conditions, Call(s, c) PROVE HealthTypeInv'
  <2>1. UNCHANGED <<account, lost, since, starts>>
    BY <1>2 DEF Call
  <2> QED BY <1>2, <2>1, CallResult, SessionStep DEF HealthTypeInv
<1>3. ASSUME NEW s \in Sessions, RecordSuccess(s) \/ RecordFailure(s) \/ RecordRefresh(s)
      PROVE  HealthTypeInv'
  BY <1>3, Recorded, StoreType
<1>4. ASSUME NEW s \in Sessions, RecordNothing(s) PROVE HealthTypeInv'
  <2>1. /\ session' = [session EXCEPT ![s] = Nothing]
        /\ UNCHANGED <<account, lost, since, starts>>
    BY <1>4 DEF RecordNothing
  <2>2. Nothing.pc = "idle"
    BY DEF Nothing
  <2> QED BY <2>1, <2>2, NothingType, SessionStep DEF HealthTypeInv
<1>5. CASE CheckMetadata
  <2>1. /\ account \in Columns /\ since \in Nat
        /\ UNCHANGED <<session, lost, starts>>
    BY <1>5 DEF CheckMetadata, HealthTypeInv
  <2>2. CASE account' = [account EXCEPT !.health = "unknown"] /\ since' = since
    BY <2>1, <2>2 DEF Columns, HealthTypeInv, AtWork
  <2>3. CASE /\ account.failures < MaxFailures
             /\ account' = [account EXCEPT !.health = "degraded", !.failures = @ + 1]
             /\ since' = since + 1
    <3>1. account.failures + 1 \in 0..MaxFailures
      BY <2>1, <2>3, HealthAssumption DEF Columns
    <3>2. account' \in Columns
      BY <2>1, <2>3, <3>1 DEF Columns
    <3> QED BY <2>1, <2>3, <3>2 DEF HealthTypeInv, AtWork
  <2> QED BY <1>5, <2>2, <2>3 DEF CheckMetadata
<1>6. CASE RemoveAccount \/ UNCHANGED healthVars
  BY <1>6 DEF RemoveAccount, healthVars, HealthTypeInv, AtWork
<1> QED BY <1>1, <1>2, <1>3, <1>4, <1>5, <1>6 DEF HealthNext

-----------------------------------------------------------------------------
(* AccountHealth: failures and authorizations                              *)

LEMMA FailuresInit == HealthInit => FailuresCounted
BY HealthAssumption DEF HealthInit, FailuresCounted

\* Without a lost update a session writes what it has computed.
LEMMA NothingLost ==
  ASSUME NEW s, account \in Columns, NEW new \in Columns, Store(s, new), ~lost'
  PROVE  Seen(s) = account /\ account' = new /\ ~lost
<1>1. Seen(s) = account /\ ~lost
  BY DEF Store
<1>2. /\ new = [health |-> new.health, failures |-> new.failures, auth |-> new.auth,
                token |-> new.token, type |-> new.type]
  BY DEF Columns
<1> QED BY <1>1, <1>2 DEF Store, Written

LEMMA FailuresStep ==
  HealthTypeInv /\ FailuresCounted /\ [HealthNext]_healthVars => FailuresCounted'
<1> SUFFICES ASSUME HealthTypeInv, FailuresCounted, [HealthNext]_healthVars, account' # None, ~lost'
             PROVE  account'.failures = since' /\ (account'.health = "healthy" => since' = 0)
  BY DEF FailuresCounted
<1> DEFINE Goal == account'.failures = since' /\ (account'.health = "healthy" => since' = 0)
<1>1. ASSUME UNCHANGED <<account, lost, since>> PROVE Goal
  BY <1>1 DEF FailuresCounted
<1>2. ASSUME NEW s \in Sessions, NEW new \in Columns, Store(s, new), account # None
      PROVE  /\ Seen(s) = account /\ account' = new
             /\ account.failures = since /\ (account.health = "healthy" => since = 0)
  BY <1>2, NothingLost DEF FailuresCounted, HealthTypeInv
<1>3. ASSUME NEW s \in Sessions, RecordSuccess(s) PROVE Goal
  <2>1. Success(Seen(s), session[s]) \in Columns /\ Seen(s) \in Columns
    BY <1>3, SeenType, NewColumns DEF RecordSuccess, HealthTypeInv
  <2>2. account' = Success(Seen(s), session[s]) /\ since' = 0
    BY <1>2, <1>3, <2>1 DEF RecordSuccess
  <2> QED BY <2>1, <2>2 DEF Success, Columns
<1>4. ASSUME NEW s \in Sessions, RecordFailure(s) PROVE Goal
  <2> DEFINE c == Seen(s)
             new == [c EXCEPT !.health = "failed", !.failures = @ + 1,
                              !.auth = IF Withdraws(session[s]) THEN "invalid" ELSE @,
                              !.token = IF Withdraws(session[s]) THEN "failed" ELSE @]
  <2>1. c \in Columns /\ new \in Columns
    BY <1>4, SeenType, NewColumns DEF RecordFailure, HealthTypeInv
  <2>2. account' = new /\ c = account /\ since' = since + 1 /\ account.failures = since
    BY <1>2, <1>4, <2>1 DEF RecordFailure
  <2> QED BY <2>1, <2>2 DEF Columns
<1>5. ASSUME NEW s \in Sessions, RecordRefresh(s) PROVE Goal
  <2>1. Seen(s) \in Columns /\ Refreshed(Seen(s), session[s]) \in Columns
    BY <1>5, SeenType, NewColumns DEF RecordRefresh, HealthTypeInv
  <2>2. /\ account' = Refreshed(account, session[s]) /\ since' = since /\ account \in Columns
        /\ account.failures = since /\ (account.health = "healthy" => since = 0)
    BY <1>2, <1>5, <2>1 DEF RecordRefresh
  <2> QED BY <2>2 DEF Refreshed, Columns
<1>6. CASE CheckMetadata
  <2>1. account \in Columns /\ ~lost /\ account.failures = since /\ since \in Nat
        /\ (account.health = "healthy" => since = 0)
    BY <1>6 DEF CheckMetadata, HealthTypeInv, FailuresCounted
  <2> QED BY <1>6, <2>1 DEF CheckMetadata, Columns
<1>7. ASSUME NEW s \in Sessions,
             \/ \E op \in {"health", "refresh"} : StartJob(s, op)
             \/ \E m \in Channels \cup {"auto"}, h \in BOOLEAN : StartMail(s, m, h)
             \/ \E c \in Conditions : Call(s, c)
             \/ RecordNothing(s)
      PROVE  Goal
  BY <1>1, <1>7 DEF StartJob, StartMail, Call, RecordNothing
<1>8. CASE RemoveAccount
  BY <1>8 DEF RemoveAccount
<1>9. CASE UNCHANGED healthVars
  BY <1>1, <1>9 DEF healthVars
<1> QED BY <1>3, <1>4, <1>5, <1>6, <1>7, <1>8, <1>9 DEF HealthNext

\* No session tells more of its failures than has happened.
HonestInv == \A s \in Sessions : Honest(session[s])

LEMMA HonestInit == HealthInit => HonestInv
BY DEF HealthInit, HonestInv, Honest, Nothing

LEMMA HonestStep == HealthTypeInv /\ HonestInv /\ [HealthNext]_healthVars => HonestInv'
<1> SUFFICES ASSUME HealthTypeInv, HonestInv, [HealthNext]_healthVars PROVE HonestInv'
  OBVIOUS
<1>1. ASSUME NEW s \in Sessions, NEW new, session' = [session EXCEPT ![s] = new], Honest(new)
      PROVE  HonestInv'
  BY <1>1 DEF HonestInv, HealthTypeInv
<1>2. Honest(Nothing)
  BY DEF Honest, Nothing
<1>3. ASSUME NEW s \in Sessions,
             \/ \E op \in {"health", "refresh"} : StartJob(s, op)
             \/ \E m \in Channels \cup {"auto"}, h \in BOOLEAN : StartMail(s, m, h)
      PROVE  HonestInv'
  BY <1>1, <1>3, StartResult
<1>4. ASSUME NEW s \in Sessions, NEW c \in Conditions, Call(s, c) PROVE HonestInv'
  BY <1>1, <1>4, CallResult DEF HonestInv
<1>5. ASSUME NEW s \in Sessions,
             RecordSuccess(s) \/ RecordFailure(s) \/ RecordRefresh(s) \/ RecordNothing(s)
      PROVE  HonestInv'
  BY <1>1, <1>2, <1>5 DEF RecordSuccess, RecordFailure, RecordRefresh, RecordNothing, Store
<1>6. CASE CheckMetadata \/ RemoveAccount \/ UNCHANGED healthVars
  BY <1>6 DEF CheckMetadata, RemoveAccount, healthVars, HonestInv
<1> QED BY <1>3, <1>4, <1>5, <1>6 DEF HealthNext

\* The step of WorkingAuthorizationKept.
Kept ==
  account # None /\ account' # None /\ account'.auth # account.auth =>
    \/ account'.auth \in {"valid", "unknown"}
    \/ account'.auth = "invalid" /\ \E s \in Sessions :
         /\ session[s].pc = "store" /\ session[s].op = "health"
         /\ session[s].won = None /\ session[s].tokenless
    \/ account'.auth = "reauthorization_required" /\ \E s \in Sessions :
         /\ session[s].pc = "store" /\ session[s].op = "refresh"
         /\ session[s].won = None /\ ~session[s].transient

\* A column that a session sets to another value than it has seen is written.
LEMMA AuthWritten ==
  ASSUME NEW s, NEW new, Store(s, new)
  PROVE  account'.auth = IF new.auth = Seen(s).auth THEN account.auth ELSE new.auth
BY DEF Store, Written

LEMMA KeptStep ==
  ASSUME HealthTypeInv, HonestInv, [HealthNext]_healthVars
  PROVE  Kept
<1> SUFFICES ASSUME account # None, account' # None, account'.auth # account.auth PROVE Kept
  BY DEF Kept
<1>1. ASSUME NEW s \in Sessions, RecordSuccess(s) PROVE Kept
  <2>1. Success(Seen(s), session[s]).auth = "valid"
    BY <1>1, SeenType DEF Success, Columns, RecordSuccess
  <2> QED BY <1>1, <2>1, AuthWritten DEF RecordSuccess, Kept
<1>2. ASSUME NEW s \in Sessions, RecordFailure(s) PROVE Kept
  <2> DEFINE c == Seen(s)
             new == [c EXCEPT !.health = "failed", !.failures = @ + 1,
                              !.auth = IF Withdraws(session[s]) THEN "invalid" ELSE @,
                              !.token = IF Withdraws(session[s]) THEN "failed" ELSE @]
  <2>1. c \in Columns /\ Store(s, new) /\ session[s].pc = "store"
    BY <1>2, SeenType DEF RecordFailure
  <2>2. new.auth = IF Withdraws(session[s]) THEN "invalid" ELSE c.auth
    BY <2>1 DEF Columns
  <2> HIDE DEF new
  <2>3. account'.auth = "invalid" /\ Withdraws(session[s])
    BY <2>1, <2>2, AuthWritten
  <2>4. session[s].op = "health" /\ session[s].won = None /\ session[s].tokenless
    BY <1>2, <2>3 DEF RecordFailure, Withdraws, HonestInv, Honest
  <2> QED BY <2>1, <2>3, <2>4 DEF Kept
<1>3. ASSUME NEW s \in Sessions, RecordRefresh(s) PROVE Kept
  <2> DEFINE c == Seen(s)
             new == Refreshed(c, session[s])
  <2>1. c \in Columns /\ Store(s, new) /\ session[s].pc = "store" /\ session[s].op = "refresh"
    BY <1>3, SeenType DEF RecordRefresh
  <2>2. new.auth = IF session[s].won # None THEN "valid"
                   ELSE IF session[s].retry THEN c.auth ELSE "reauthorization_required"
    BY <2>1 DEF Refreshed, Columns
  <2> HIDE DEF new
  <2>3. \/ account'.auth = "valid"
        \/ /\ account'.auth = "reauthorization_required"
           /\ session[s].won = None /\ ~session[s].retry
    BY <2>1, <2>2, AuthWritten
  <2>4. ~session[s].retry => ~session[s].transient
    BY DEF HonestInv, Honest
  <2> QED BY <2>1, <2>3, <2>4 DEF Kept
<1>4. CASE CheckMetadata
  <2>1. account \in Columns
    BY DEF HealthTypeInv
  <2> QED BY <1>4, <2>1 DEF CheckMetadata, Columns
<1>5. ASSUME NEW s \in Sessions,
             \/ \E op \in {"health", "refresh"} : StartJob(s, op)
             \/ \E m \in Channels \cup {"auto"}, h \in BOOLEAN : StartMail(s, m, h)
             \/ \E c \in Conditions : Call(s, c)
             \/ RecordNothing(s)
      PROVE  Kept
  BY <1>5 DEF StartJob, StartMail, Call, RecordNothing
<1>6. CASE RemoveAccount \/ UNCHANGED healthVars
  BY <1>6 DEF RemoveAccount, healthVars
<1> QED BY <1>1, <1>2, <1>3, <1>4, <1>5, <1>6 DEF HealthNext

-----------------------------------------------------------------------------
(* AccountHealth: theorems                                                 *)

\* The row and the sessions keep their types, whatever the providers answer.
THEOREM HealthTypes == HealthSpec => []HealthTypeOK
<1>1. HealthSpec => []HealthTypeInv
  BY HealthTypeInit, HealthTypeStep, PTL DEF HealthSpec
<1>2. HealthTypeInv => HealthTypeOK
  BY DEF HealthTypeInv, HealthTypeOK, SessionState
<1> QED BY <1>1, <1>2, PTL

\* consecutive_failures counts the failures since the last success, unless a
\* session has written over a row that changed after it was read.
THEOREM FailuresAreCounted == HealthSpec => []FailuresCounted
<1> DEFINE Inv == HealthTypeInv /\ FailuresCounted
<1>1. HealthInit => Inv
  BY HealthTypeInit, FailuresInit
<1>2. Inv /\ [HealthNext]_healthVars => Inv'
  BY HealthTypeStep, FailuresStep
<1>3. Inv => FailuresCounted
  OBVIOUS
<1> HIDE DEF Inv
<1> QED BY <1>1, <1>2, <1>3, PTL DEF HealthSpec

\* A check withdraws an authorization only when none of its attempts had a
\* token, be it for an outage of the token endpoint, and a refresh asks for a
\* new one only when none of its failures, such outages included, may pass.
THEOREM AuthorizationIsKept == HealthSpec => WorkingAuthorizationKept
<1> DEFINE Inv == HealthTypeInv /\ HonestInv
<1>1. HealthInit => Inv
  BY HealthTypeInit, HonestInit
<1>2. Inv /\ [HealthNext]_healthVars => Inv'
  BY HealthTypeStep, HonestStep
<1>3. Inv /\ [HealthNext]_healthVars => [Kept]_healthVars
  BY KeptStep
<1>4. HealthSpec => [][Kept]_healthVars
  <2> HIDE DEF Inv
  <2> QED BY <1>1, <1>2, <1>3, PTL DEF HealthSpec
<1> QED BY <1>4 DEF Kept, WorkingAuthorizationKept

-----------------------------------------------------------------------------
(* BulkPreviews                                                            *)

\* An execution holds the lock on a preview that exists and was not used, and
\* holds it alone.
LockedPreview ==
  \A p \in Executions :
    executing[p] = "locked" =>
      /\ preview # NoPreview /\ ~preview.consumed
      /\ \A q \in Executions : executing[q] = "locked" => q = p

\* The preview has one result when it was consumed, and none before.
OneResult ==
  IF preview.consumed
  THEN \E n \in 0..Cardinality(Bulked) : results = <<n>>
  ELSE results = <<>>

\* Only a preview expires.
ExpiredPreview == expired => preview # NoPreview

\* Until it is used a preview announces what it would change now, if nobody
\* has changed its accounts.
EligibleIsExact ==
  preview # NoPreview /\ ~preview.consumed /\ ~disturbed =>
    preview.eligible = Cardinality(Changes(preview.accounts))

BulkInv ==
  TypeOK /\ LockedPreview /\ OneResult /\ ExpiredPreview /\ EligibleIsExact /\ PreviewIsKept

LEMMA ChangesAreBulked ==
  \A S : /\ Changes(S) \subseteq Bulked
         /\ IsFiniteSet(Changes(S))
         /\ Cardinality(Changes(S)) \in 0..Cardinality(Bulked)
<1> SUFFICES ASSUME NEW S
             PROVE  /\ Changes(S) \subseteq Bulked
                    /\ IsFiniteSet(Changes(S))
                    /\ Cardinality(Changes(S)) \in 0..Cardinality(Bulked)
  OBVIOUS
<1>1. Changes(S) \subseteq Bulked
  BY DEF Changes, Present
<1> QED BY <1>1, BulkAssumption, FS_Subset, FS_CardinalityType

LEMMA BulkInvInit == Init => BulkInv
<1> SUFFICES ASSUME Init PROVE BulkInv
  OBVIOUS
<1>1. NoPreview \in [accounts: SUBSET Bulked, eligible: Nat, consumed: BOOLEAN]
  BY DEF NoPreview
<1>2. TypeOK
  <2>1. has \in [Bulked -> BOOLEAN \cup {Absent}] /\ rowVersion \in [Bulked -> 1..MaxVersion]
    BY BulkAssumption DEF Init
  <2>2. executing \in [Executions -> {"idle", "locked"}]
    BY DEF Init
  <2>3. \A i \in DOMAIN results : results[i] \in 0..Cardinality(Bulked)
    BY DEF Init
  <2> QED BY <1>1, <2>1, <2>2, <2>3 DEF Init, TypeOK
<1>3. LockedPreview /\ OneResult /\ ExpiredPreview /\ EligibleIsExact /\ PreviewIsKept
  BY DEF Init, LockedPreview, OneResult, ExpiredPreview, EligibleIsExact, PreviewIsKept, NoPreview
<1> QED BY <1>2, <1>3 DEF BulkInv

\* The changes of a set depend on the accounts in it only.
LEMMA ChangesAreLocal ==
  ASSUME NEW S, \A a \in S : has'[a] = has[a]
  PROVE  Changes(S)' = Changes(S')
BY DEF Changes, Present

LEMMA CreateStep == BulkInv /\ CreatePreview => BulkInv'
<1> SUFFICES ASSUME BulkInv, CreatePreview PROVE BulkInv'
  OBVIOUS
<1> USE DEF BulkInv
<1>1. PICK S \in (SUBSET Present) \ {{}} :
        preview' = [accounts |-> S, eligible |-> Cardinality(Changes(S)), consumed |-> FALSE]
  BY DEF CreatePreview
<1>2. Cardinality(Changes(S)) \in Nat
  BY ChangesAreBulked, BulkAssumption, FS_CardinalityType
<1>3. results = <<>> /\ preview = NoPreview /\ ~preview.consumed
  BY DEF OneResult, NoPreview, CreatePreview
<1>4. preview' # NoPreview
  <2>1. preview'.accounts = S /\ NoPreview.accounts = {}
    BY <1>1 DEF NoPreview
  <2> QED BY <2>1
<1>5. TypeOK'
  BY <1>1, <1>2 DEF TypeOK, CreatePreview, Present
<1>6. LockedPreview' /\ ExpiredPreview'
  BY <1>3, <1>4 DEF LockedPreview, ExpiredPreview, CreatePreview
<1>7. OneResult' /\ PreviewIsKept'
  BY <1>1, <1>3 DEF OneResult, PreviewIsKept, CreatePreview
<1>8. EligibleIsExact'
  <2>1. has' = has /\ preview'.accounts = S
    BY <1>1 DEF CreatePreview
  <2>2. Changes(preview.accounts)' = Changes(S)
    BY <2>1 DEF Changes, Present
  <2>3. preview'.eligible = Cardinality(Changes(S))
    BY <1>1
  <2> QED BY <2>2, <2>3 DEF EligibleIsExact
<1> QED BY <1>5, <1>6, <1>7, <1>8

\* The lock of the preview is taken or given back, or time passes.
LEMMA LockStep ==
  ASSUME BulkInv, \/ Expire
                  \/ \E p \in Executions : Execute(p) \/ Fail(p)
  PROVE  BulkInv'
<1> USE DEF BulkInv
<1>1. UNCHANGED <<has, rowVersion, preview, results, disturbed>>
  BY DEF Expire, Execute, Fail
<1>2. OneResult' /\ EligibleIsExact' /\ PreviewIsKept'
  BY <1>1 DEF OneResult, EligibleIsExact, PreviewIsKept, Changes, Present
<1>3. TypeOK' /\ LockedPreview' /\ ExpiredPreview'
  <2>1. CASE Expire
    BY <2>1 DEF Expire, TypeOK, LockedPreview, ExpiredPreview
  <2>2. ASSUME NEW p \in Executions, Execute(p)
        PROVE  TypeOK' /\ LockedPreview' /\ ExpiredPreview'
    BY <2>2 DEF Execute, Unlocked, TypeOK, LockedPreview, ExpiredPreview
  <2>3. ASSUME NEW p \in Executions, Fail(p)
        PROVE  TypeOK' /\ LockedPreview' /\ ExpiredPreview'
    BY <2>3 DEF Fail, TypeOK, LockedPreview, ExpiredPreview
  <2> QED BY <2>1, <2>2, <2>3
<1> QED BY <1>2, <1>3

LEMMA CommitStep ==
  ASSUME BulkInv, NEW p \in Executions, Commit(p)
  PROVE  BulkInv'
<1> USE DEF BulkInv
<1> DEFINE U == Changes(preview.accounts)
<1>1. preview # NoPreview /\ ~preview.consumed /\ results = <<>>
  BY DEF Commit, LockedPreview, OneResult
<1>2. /\ preview' = [preview EXCEPT !.consumed = TRUE]
      /\ results' = <<Cardinality(U)>>
      /\ UNCHANGED <<expired, disturbed>>
  BY <1>1 DEF Commit, Updated
<1>3. Cardinality(U) \in 0..Cardinality(Bulked)
  BY ChangesAreBulked
<1>4. preview'.consumed /\ preview' # NoPreview /\ preview'.eligible = preview.eligible
  BY <1>2 DEF TypeOK, NoPreview
<1>5. TypeOK'
  <2>1. has' \in [Bulked -> BOOLEAN \cup {Absent}]
    BY DEF Commit, TypeOK
  <2>2. rowVersion' \in [Bulked -> 1..MaxVersion]
    BY BulkAssumption DEF Commit, TypeOK, Updated
  <2>3. preview' \in [accounts: SUBSET Bulked, eligible: Nat, consumed: BOOLEAN]
    BY <1>2 DEF TypeOK
  <2>4. executing' \in [Executions -> {"idle", "locked"}]
    BY DEF Commit, TypeOK
  <2>5. \A i \in DOMAIN results' : results'[i] \in 0..Cardinality(Bulked)
    BY <1>2, <1>3
  <2> QED BY <1>2, <2>1, <2>2, <2>3, <2>4, <2>5 DEF TypeOK
<1>6. LockedPreview'
  BY DEF LockedPreview, Commit, TypeOK
<1>7. OneResult' /\ ExpiredPreview' /\ EligibleIsExact'
  BY <1>2, <1>3, <1>4 DEF OneResult, ExpiredPreview, EligibleIsExact
<1>8. PreviewIsKept'
  BY <1>1, <1>2, <1>4 DEF PreviewIsKept, EligibleIsExact
<1> QED BY <1>5, <1>6, <1>7, <1>8

\* Someone else changes or purges an account.
LEMMA DisturbStep ==
  ASSUME BulkInv, NEW a \in Bulked, ChangeAccount(a) \/ PurgeAccount(a)
  PROVE  BulkInv'
<1> USE DEF BulkInv
<1>1. /\ UNCHANGED <<preview, expired, executing, results>>
      /\ disturbed' = (disturbed \/ a \in preview.accounts)
  BY DEF ChangeAccount, PurgeAccount
<1>2. \A b \in Bulked \ {a} : has'[b] = has[b]
  BY DEF ChangeAccount, PurgeAccount, TypeOK
<1>3. TypeOK'
  <2>1. CASE ChangeAccount(a)
    <3>1. has[a] \in BOOLEAN
      BY <2>1 DEF ChangeAccount, Present, TypeOK
    <3>2. has' \in [Bulked -> BOOLEAN \cup {Absent}]
      BY <2>1, <3>1 DEF ChangeAccount, TypeOK
    <3>3. rowVersion' \in [Bulked -> 1..MaxVersion]
      BY <2>1, BulkAssumption DEF ChangeAccount, TypeOK
    <3>4. disturbed' \in BOOLEAN
      BY <1>1 DEF TypeOK
    <3> QED BY <1>1, <3>2, <3>3, <3>4 DEF TypeOK
  <2>2. CASE PurgeAccount(a)
    BY <2>2 DEF PurgeAccount, TypeOK
  <2> QED BY <2>1, <2>2
<1>4. LockedPreview' /\ OneResult' /\ ExpiredPreview' /\ PreviewIsKept'
  BY <1>1 DEF LockedPreview, OneResult, ExpiredPreview, PreviewIsKept
<1>5. EligibleIsExact'
  <2>1. ASSUME a \notin preview.accounts
        PROVE  Changes(preview.accounts)' = Changes(preview.accounts)
    BY <1>1, <1>2, <2>1 DEF Changes, Present, TypeOK
  <2> QED BY <1>1, <2>1 DEF EligibleIsExact
<1> QED BY <1>3, <1>4, <1>5

LEMMA BulkStep == BulkInv /\ [Next]_bulkVars => BulkInv'
<1> SUFFICES ASSUME BulkInv, [Next]_bulkVars PROVE BulkInv'
  OBVIOUS
<1>1. CASE Next
  BY <1>1, CreateStep, LockStep, CommitStep, DisturbStep DEF Next
<1>2. CASE UNCHANGED bulkVars
  BY <1>2 DEF bulkVars, BulkInv, TypeOK, LockedPreview, OneResult, ExpiredPreview,
              EligibleIsExact, PreviewIsKept, Changes, Present
<1> QED BY <1>1, <1>2

LEMMA BulkInvariant == Spec => []BulkInv
BY BulkInvInit, BulkStep, PTL DEF Spec

-----------------------------------------------------------------------------
\* Accounts, preview and results have the form TypeOK states.
THEOREM BulkTypes == Spec => []TypeOK
<1>1. BulkInv => TypeOK
  BY DEF BulkInv
<1> QED BY BulkInvariant, <1>1, PTL

LEMMA TokenInit == Init => Token!Init
BY DEF Init, Token!Init, Unlocked

\* Every step of the implementation is a step of the token, or none.
LEMMA TokenNext == BulkInv /\ [Next]_bulkVars => [Token!Next]_(Token!tokenVars)
<1> SUFFICES ASSUME BulkInv, [Next]_bulkVars PROVE [Token!Next]_(Token!tokenVars)
  OBVIOUS
<1> USE DEF BulkInv, Token!Next, Token!tokenVars
<1>1. CASE CreatePreview
  <2>1. preview = NoPreview /\ ~expired /\ UNCHANGED <<expired, results>>
    BY <1>1 DEF CreatePreview, ExpiredPreview
  <2>2. preview' # NoPreview /\ ~preview'.consumed
    <3>1. PICK S \in (SUBSET Present) \ {{}} :
            preview' = [accounts |-> S, eligible |-> Cardinality(Changes(S)), consumed |-> FALSE]
      BY <1>1 DEF CreatePreview
    <3>2. preview'.accounts = S /\ NoPreview.accounts = {} /\ ~preview'.consumed
      BY <3>1 DEF NoPreview
    <3> QED BY <3>2
  <2> QED BY <2>1, <2>2 DEF Token!Issue
<1>2. CASE Expire
  <2>1. Unlocked' <=> Unlocked
    BY <1>2 DEF Expire, Unlocked
  <2> QED BY <1>2, <2>1 DEF Expire, Token!Expire
<1>3. ASSUME NEW p \in Executions, Execute(p) PROVE [Token!Next]_(Token!tokenVars)
  BY <1>3 DEF Execute
<1>4. ASSUME NEW p \in Executions, Commit(p) PROVE [Token!Next]_(Token!tokenVars)
  <2>1. preview # NoPreview /\ ~preview.consumed /\ ~Unlocked /\ results = <<>>
    BY <1>4 DEF Commit, LockedPreview, Unlocked, OneResult
  <2>2. preview'.consumed /\ preview' # NoPreview
    BY <1>4 DEF Commit, TypeOK, NoPreview
  <2>3. results' = <<Cardinality(Updated(preview.accounts))>>
    BY <1>4, <2>1 DEF Commit
  <2>4. Len(results') = Len(results) + 1
    BY <2>1, <2>3
  <2> QED BY <2>1, <2>2, <2>4 DEF Token!Use
<1>5. ASSUME NEW p \in Executions, Fail(p) PROVE [Token!Next]_(Token!tokenVars)
  <2>1. preview # NoPreview /\ ~preview.consumed /\ ~Unlocked
    BY <1>5 DEF Fail, LockedPreview, Unlocked
  <2>2. UNCHANGED <<preview, expired, results>>
    BY <1>5 DEF Fail
  <2> QED BY <2>1, <2>2 DEF Token!Expire
<1>6. ASSUME NEW a \in Bulked, ChangeAccount(a) \/ PurgeAccount(a)
      PROVE  [Token!Next]_(Token!tokenVars)
  <2>1. UNCHANGED <<preview, expired, executing, results>>
    BY <1>6 DEF ChangeAccount, PurgeAccount
  <2> QED BY <2>1 DEF Unlocked
<1>7. CASE UNCHANGED bulkVars
  BY <1>7 DEF bulkVars, Unlocked
<1> QED BY <1>1, <1>2, <1>3, <1>4, <1>5, <1>6, <1>7 DEF Next

\* The token of a preview has its effect once at most and none after it has
\* expired, and the effect is the announced one while nobody else changes the
\* previewed accounts.
THEOREM PreviewsHold == Spec => PreviewHolds
<1>1. BulkInv' => PreviewIsKept'
  BY DEF BulkInv
<1>2. BulkInv /\ [Next]_bulkVars => [PreviewIsKept']_bulkVars
  BY BulkStep, <1>1
<1> QED BY BulkInvariant, TokenInit, TokenNext, <1>2, PTL
        DEF Spec, PreviewHolds, PreviewIsOneShot, Token!Spec

-----------------------------------------------------------------------------
(* Directory: types                                                        *)

Shown == [account: Accounts, version: 1..MaxEdits + 1, edits: 0..MaxEdits]

Kinds == {"tags", "aliases", "purge"}

Edit == [account: Accounts, kind: Kinds, aliases: SUBSET Addresses, version: 1..MaxEdits + 1]

\* With what clients have been shown and what sessions have read.
DirectoryTypeInv ==
  /\ DirectoryTypeOK
  /\ shown \in [Clients -> Shown \cup {None}]
  /\ edit \in [Editors -> Edit \cup {None}]

LEMMA DirectoryTypeInit == DirectoryInit => DirectoryTypeInv
BY DirectoryAssumption DEF DirectoryInit, DirectoryTypeInv, DirectoryTypeOK

LEMMA NewRowType == ASSUME NEW x \in Addresses PROVE NewRow(x) \in Row
BY DirectoryAssumption DEF NewRow, Row

LEMMA EditedType ==
  ASSUME NEW r \in Row, r.edits < MaxEdits, NEW v \in 1..MaxEdits + 1, v <= MaxEdits
  PROVE  /\ Edited(r, v) \in Row
         /\ Edited(r, v).address = r.address
         /\ Edited(r, v).version = v + 1 /\ Edited(r, v).edits = r.edits + 1
<1>1. r.edits + 1 \in 0..MaxEdits /\ v + 1 \in 1..MaxEdits + 1
  BY DirectoryAssumption DEF Row
<1>2. Edited(r, v).version = v + 1 /\ Edited(r, v).edits = r.edits + 1
  BY DEF Edited, Row
<1> QED BY <1>1, <1>2 DEF Edited, Row

\* What update_account leaves in a row, and what a quiet edit does.
LEMMA RenewedType ==
  ASSUME NEW r \in Row, r.edits < MaxEdits, r.version <= MaxEdits, NEW x \in Addresses
  PROVE  /\ Renewed(r, x) \in Row /\ Renewed(r, x).address = x
         /\ Renewed(r, x).version = r.version + 1 /\ Renewed(r, x).edits = r.edits + 1
<1>1. r.edits + 1 \in 0..MaxEdits /\ r.version + 1 \in 1..MaxEdits + 1
  BY DirectoryAssumption DEF Row
<1>2. /\ Renewed(r, x).address = x
      /\ Renewed(r, x).version = r.version + 1 /\ Renewed(r, x).edits = r.edits + 1
  BY DEF Renewed, Row
<1> QED BY <1>1, <1>2 DEF Renewed, Row

LEMMA QuietType ==
  ASSUME NEW r \in Row, NEW new, new = [r EXCEPT !.quiet = TRUE]
  PROVE  /\ new \in Row /\ new.address = r.address
         /\ new.version = r.version /\ new.edits = r.edits
BY DEF Row

LEMMA QuietRows ==
  ASSUME DirectoryTypeInv, NEW a \in Accounts, EditQuietly(a)
  PROVE  /\ row' \in [Accounts -> Row \cup {None}]
         /\ \A b \in Exists' : /\ b \in Exists /\ row'[b].address = row[b].address
                              /\ row'[b].version = row[b].version /\ row'[b].edits = row[b].edits
         /\ UNCHANGED <<alias, shown, edit, batch, item, made, reading, overrun, unseen, loose,
                        edited>>
<1> DEFINE new == [row[a] EXCEPT !.quiet = TRUE]
<1>1. row \in [Accounts -> Row \cup {None}] /\ a \in Exists /\ row[a] \in Row
  BY DEF EditQuietly, Exists, DirectoryTypeInv, DirectoryTypeOK
<1>2. row' = [row EXCEPT ![a] = new]
  BY DEF EditQuietly
<1>3. /\ new \in Row /\ new.address = row[a].address
      /\ new.version = row[a].version /\ new.edits = row[a].edits
  BY <1>1, QuietType
<1> HIDE DEF new
<1>4. /\ row' \in [Accounts -> Row \cup {None}]
      /\ \A b \in Exists' : /\ b \in Exists /\ row'[b].address = row[b].address
                           /\ row'[b].version = row[b].version /\ row'[b].edits = row[b].edits
  BY <1>1, <1>2, <1>3 DEF Exists
<1> QED BY <1>4 DEF EditQuietly, ImportUnchanged

\* What a rollback makes of the accounts and the batch.
LEMMA RollbackRows ==
  ASSUME RollbackBatch
  PROVE  \E back \in SUBSET Lines :
           /\ \A x \in back : Untouched(x)
           /\ row' = [a \in Accounts |-> IF \E x \in back : made[x] = a THEN None ELSE row[a]]
           /\ alias' = [x \in Addresses |-> IF \E y \in back : made[y] = alias[x] THEN None
                                            ELSE alias[x]]
           /\ edited' = edited \cup UNION {{made[x]} \X EditsOf(made[x]) : x \in back}
           /\ \A x \in Lines : item'[x] \in {item[x], "rolled_back"}
           /\ batch' \in {"partial", "rolled_back"}
           /\ UNCHANGED <<shown, edit, made, reading, overrun, unseen, loose>>
<1>1. PICK created \in SUBSET {x \in Lines : item[x] = "created"} :
        LET back == {x \in created : Untouched(x)} IN
        /\ row' = [a \in Accounts |-> IF \E x \in back : made[x] = a THEN None ELSE row[a]]
        /\ alias' = [x \in Addresses |-> IF \E y \in back : made[y] = alias[x] THEN None
                                         ELSE alias[x]]
        /\ edited' = edited \cup UNION {{made[x]} \X EditsOf(made[x]) : x \in back}
        /\ item' = [x \in Lines |-> IF x \in back THEN "rolled_back" ELSE item[x]]
        /\ batch' = IF back # created THEN "partial" ELSE "rolled_back"
        /\ UNCHANGED <<shown, edit, made, reading, overrun, unseen, loose>>
  BY Zenon DEF RollbackBatch
<1> DEFINE back == {x \in created : Untouched(x)}
<1>2. back \in SUBSET Lines /\ \A x \in back : Untouched(x)
  OBVIOUS
<1>3. /\ \A x \in Lines : item'[x] \in {item[x], "rolled_back"}
      /\ batch' \in {"partial", "rolled_back"}
  BY <1>1
<1> WITNESS back \in SUBSET Lines
<1> QED BY <1>1, <1>2, <1>3, Zenon

LEMMA WithoutType ==
  ASSUME DirectoryTypeInv, NEW a
  PROVE  Without(a) \in [Addresses -> Accounts \cup {None}]
BY DEF DirectoryTypeInv, DirectoryTypeOK, Without

\* Rows and clients.
LEMMA TypeOfClients ==
  ASSUME DirectoryTypeInv,
         \/ \E a \in Accounts, x \in Addresses : CreateAccount(a, x)
         \/ \E c \in Clients, a \in Accounts : Show(c, a)
         \/ \E c \in Clients, x \in Addresses : Update(c, x)
         \/ \E a \in Accounts : EditQuietly(a)
  PROVE  DirectoryTypeInv'
<1> USE DEF DirectoryTypeInv, DirectoryTypeOK, ImportUnchanged
<1>1. ASSUME NEW a \in Accounts, NEW x \in Addresses, CreateAccount(a, x) PROVE DirectoryTypeInv'
  BY <1>1, NewRowType DEF CreateAccount
<1>2. ASSUME NEW c \in Clients, NEW a \in Accounts, Show(c, a) PROVE DirectoryTypeInv'
  <2>1. row[a] \in Row
    BY <1>2 DEF Show, Exists
  <2> QED BY <1>2, <2>1 DEF Show, Shown, Row
<1>3. ASSUME NEW c \in Clients, NEW x \in Addresses, Update(c, x) PROVE DirectoryTypeInv'
  <2> DEFINE a == shown[c].account
  <2>1. a \in Accounts /\ row[a] \in Row
    BY <1>3 DEF Update, Current, Exists
  <2>2. Renewed(row[a], x) \in Row /\ row' = [row EXCEPT ![a] = Renewed(@, x)]
    BY <1>3, <2>1, RenewedType DEF Update
  <2>3. row' \in [Accounts -> Row \cup {None}]
    BY <2>1, <2>2
  <2>4. unseen' \subseteq Accounts /\ loose' \subseteq Addresses
    BY <1>3, <2>1 DEF Update
  <2> QED BY <1>3, <2>3, <2>4 DEF Update
<1>4. ASSUME NEW a \in Accounts, EditQuietly(a) PROVE DirectoryTypeInv'
  BY <1>4, QuietRows
<1> QED BY <1>1, <1>2, <1>3, <1>4

\* Edits without a lock.
LEMMA TypeOfEdits ==
  ASSUME DirectoryTypeInv, NEW e \in Editors,
         \/ \E a \in Accounts, k \in Kinds, S \in SUBSET Addresses : OpenEdit(e, a, k, S)
         \/ CommitEdit(e) \/ EditFails(e) \/ Purge(e)
  PROVE  DirectoryTypeInv'
<1> USE DEF DirectoryTypeInv, DirectoryTypeOK, ImportUnchanged
<1>1. ASSUME NEW a \in Accounts, NEW k \in Kinds, NEW S \in SUBSET Addresses, OpenEdit(e, a, k, S)
      PROVE  DirectoryTypeInv'
  <2>1. row[a] \in Row
    BY <1>1 DEF OpenEdit, Exists
  <2> QED BY <1>1, <2>1 DEF OpenEdit, Edit, Row
<1>2. CASE CommitEdit(e)
  <2> DEFINE d == edit[e]
             a == d.account
  <2>1. d \in Edit /\ a \in Accounts /\ row[a] \in Row
    BY <1>2 DEF CommitEdit, Exists
  <2>2. Edited(row[a], d.version) \in Row
    BY <1>2, <2>1, EditedType DEF CommitEdit, Edit
  <2>3. row' \in [Accounts -> Row \cup {None}]
    BY <1>2, <2>2 DEF CommitEdit
  <2>4. alias' \in [Addresses -> Accounts \cup {None}]
    BY <1>2, <2>1, WithoutType DEF CommitEdit
  <2>5. overrun' \subseteq Accounts /\ loose' \subseteq Addresses
    BY <1>2, <2>1, DirectoryAssumption DEF CommitEdit
  <2> QED BY <1>2, <2>3, <2>4, <2>5 DEF CommitEdit
<1>3. CASE EditFails(e)
  BY <1>3 DEF EditFails
<1>4. CASE Purge(e)
  BY <1>4, WithoutType DEF Purge
<1> QED BY <1>1, <1>2, <1>3, <1>4

\* Imports.
LEMMA TypeOfImports ==
  ASSUME DirectoryTypeInv, CreateBatch \/ CommitRead \/ CommitBatch \/ RollbackBatch
  PROVE  DirectoryTypeInv'
<1> USE DEF DirectoryTypeInv, DirectoryTypeOK
<1>1. CASE CreateBatch
  BY <1>1 DEF CreateBatch
<1>2. CASE CommitRead
  BY <1>2 DEF CommitRead
<1>3. CASE CommitBatch
  <2> DEFINE created == {x \in Lines : Outcome(x) = "created"}
  <2>1. created \subseteq Addresses
    BY DirectoryAssumption
  <2>2. PICK new \in [created -> {a \in Accounts : Fresh(a)}] :
          /\ row' = [a \in Accounts |-> IF \E x \in created : new[x] = a
                                        THEN NewRow(CHOOSE x \in created : new[x] = a) ELSE row[a]]
          /\ made' = [x \in Addresses |-> IF x \in created THEN new[x] ELSE made[x]]
    BY <1>3 DEF CommitBatch
  <2> HIDE DEF created
  <2>3. row' \in [Accounts -> Row \cup {None}]
    BY <2>1, <2>2, NewRowType
  <2>4. made' \in [Addresses -> Accounts \cup {None}]
    BY <2>2
  <2>5. \A x \in Lines : item'[x] \in {"none", "valid", "conflict", "created", "skipped", "failed",
                                       "rolled_back"}
    BY <1>3 DEF CommitBatch, Outcome
  <2>6. batch' \in {"completed", "partial", "failed"}
    BY <1>3 DEF CommitBatch, Final
  <2>7. loose' \subseteq Addresses
    BY <1>3, <2>1 DEF CommitBatch, created
  <2> QED BY <1>3, <2>3, <2>4, <2>5, <2>6, <2>7 DEF CommitBatch
<1>4. CASE RollbackBatch
  <2>1. PICK back \in SUBSET Lines :
          /\ \A x \in back : Untouched(x)
          /\ row' = [a \in Accounts |-> IF \E x \in back : made[x] = a THEN None ELSE row[a]]
          /\ alias' = [x \in Addresses |-> IF \E y \in back : made[y] = alias[x] THEN None
                                           ELSE alias[x]]
          /\ edited' = edited \cup UNION {{made[x]} \X EditsOf(made[x]) : x \in back}
          /\ \A x \in Lines : item'[x] \in {item[x], "rolled_back"}
          /\ batch' \in {"partial", "rolled_back"}
          /\ UNCHANGED <<shown, edit, made, reading, overrun, unseen, loose>>
    BY <1>4, RollbackRows
  <2>2. edited' \subseteq Accounts \X {"counted", "quiet"}
    <3>1. \A x \in back : made[x] \in Accounts
      BY <2>1 DEF Untouched, Exists
    <3>2. \A x \in back : {made[x]} \X EditsOf(made[x]) \subseteq Accounts \X {"counted", "quiet"}
      BY <3>1 DEF EditsOf
    <3> QED BY <2>1, <3>2
  <2>3. row' \in [Accounts -> Row \cup {None}] /\ alias' \in [Addresses -> Accounts \cup {None}]
    BY <2>1
  <2> QED BY <2>1, <2>2, <2>3
<1> QED BY <1>1, <1>2, <1>3, <1>4

LEMMA DirectoryTypeStep == DirectoryTypeInv /\ [DirectoryNext]_directoryVars => DirectoryTypeInv'
<1> SUFFICES ASSUME DirectoryTypeInv, [DirectoryNext]_directoryVars PROVE DirectoryTypeInv'
  OBVIOUS
<1>1. CASE UNCHANGED directoryVars
  BY <1>1 DEF DirectoryTypeInv, DirectoryTypeOK, directoryVars
<1> QED BY <1>1, TypeOfClients, TypeOfEdits, TypeOfImports DEF DirectoryNext, Kinds

-----------------------------------------------------------------------------
(* Directory: edits that were not shown                                    *)

\* Every counted edit raises row_version by one, unless it has overrun another; so the
\* version that a client sends back tells which edits it has been shown.
SeenInv ==
  /\ \A a \in Exists \ overrun : row[a].version = row[a].edits + 1
  /\ \A c \in Clients : shown[c] # None /\ shown[c].account \notin overrun =>
       shown[c].version = shown[c].edits + 1
  /\ EditsAreSeen

\* An account that was edited has not the version it was created with.
RollbackInv ==
  /\ \A a \in Exists : row[a].version = 1 => row[a].edits = 0
  /\ RollbackKeepsEdits

EditInv == SeenInv /\ RollbackInv

LEMMA EditInit == DirectoryInit => EditInv
BY DEF DirectoryInit, EditInv, SeenInv, RollbackInv, EditsAreSeen, RollbackKeepsEdits, Exists

\* Steps that leave every account as it is, remove it or make it anew.
LEMMA EditOfRows ==
  ASSUME DirectoryTypeInv, EditInv, UNCHANGED <<shown, overrun, unseen>>,
         edited' = edited \/ RollbackKeepsEdits',
         \A a \in Accounts : row'[a] \in {row[a], None} \cup {NewRow(x) : x \in Addresses}
  PROVE  EditInv'
<1> USE DEF DirectoryTypeInv, DirectoryTypeOK, EditInv, SeenInv, RollbackInv
<1>1. ASSUME NEW a \in Exists'
      PROVE  \/ a \in Exists /\ row'[a] = row[a]
             \/ row'[a].version = 1 /\ row'[a].edits = 0
  BY <1>1 DEF Exists, NewRow
<1> QED BY <1>1 DEF EditsAreSeen, RollbackKeepsEdits

LEMMA EditStep == DirectoryTypeInv /\ EditInv /\ [DirectoryNext]_directoryVars => EditInv'
<1> SUFFICES ASSUME DirectoryTypeInv, EditInv, [DirectoryNext]_directoryVars PROVE EditInv'
  OBVIOUS
<1> USE DEF DirectoryTypeInv, DirectoryTypeOK
<1>1. ASSUME NEW a \in Accounts, NEW x \in Addresses, CreateAccount(a, x) PROVE EditInv'
  BY <1>1, EditOfRows DEF CreateAccount
<1>2. ASSUME NEW c \in Clients, NEW a \in Accounts, Show(c, a) PROVE EditInv'
  <2>1. UNCHANGED <<row, overrun, unseen, edited>> /\ a \in Exists
        /\ shown' = [shown EXCEPT ![c] = [account |-> a, version |-> row[a].version,
                                              edits |-> row[a].edits]]
    BY <1>2 DEF Show
  <2> QED BY <2>1 DEF EditInv, SeenInv, RollbackInv, Exists, EditsAreSeen, RollbackKeepsEdits
<1>3. ASSUME NEW c \in Clients, NEW x \in Addresses, Update(c, x) PROVE EditInv'
  <2> DEFINE a == shown[c].account
             new == Renewed(row[a], x)
  <2>1. /\ a \in Exists /\ row[a] \in Row /\ shown[c] # None /\ shown[c] \in Shown
        /\ row[a].version = shown[c].version
        /\ row' = [row EXCEPT ![a] = new]
        /\ unseen' = IF shown[c].edits # row[a].edits THEN unseen \cup {a} ELSE unseen
        /\ shown' = [shown EXCEPT ![c] = None] /\ UNCHANGED <<overrun, edited>>
        /\ row[a].edits < MaxEdits /\ row[a].version <= MaxEdits
    BY <1>3 DEF Update, Current, Exists
  <2> HIDE DEF a
  <2>2. /\ row[a].version \in 1..MaxEdits + 1 /\ row[a].edits \in 0..MaxEdits
        /\ new.version = row[a].version + 1 /\ new.edits = row[a].edits + 1
    BY <2>1, RenewedType DEF Row
  <2> HIDE DEF new
  <2>3. a \notin overrun => shown[c].version = shown[c].edits + 1
    BY <2>1 DEF EditInv, SeenInv, a
  <2>4. a \notin overrun => unseen' = unseen
    <3>1. shown[c].version \in Int /\ shown[c].edits \in Int /\ row[a].edits \in Int
      BY <2>1, DirectoryAssumption DEF Shown, Row
    <3>2. a \notin overrun => row[a].version = row[a].edits + 1
      BY <2>1 DEF EditInv, SeenInv
    <3>3. a \notin overrun => shown[c].edits = row[a].edits
      BY <2>1, <2>3, <3>1, <3>2
    <3> QED BY <2>1, <3>3
  <2>5. \A b \in Exists' : IF b = a THEN row'[b] = new ELSE b \in Exists /\ row'[b] = row[b]
    BY <2>1 DEF Exists
  <2>6. SeenInv'
    BY <2>1, <2>2, <2>4, <2>5, DirectoryAssumption DEF EditInv, SeenInv, EditsAreSeen
  <2>7. RollbackInv'
    BY <2>1, <2>2, <2>5, DirectoryAssumption DEF EditInv, RollbackInv, RollbackKeepsEdits
  <2> QED BY <2>6, <2>7 DEF EditInv
<1>4. ASSUME NEW e \in Editors, CommitEdit(e) PROVE EditInv'
  <2> DEFINE d == edit[e]
             a == d.account
  <2>1. /\ d \in Edit /\ a \in Exists /\ row[a] \in Row
        /\ row' = [row EXCEPT ![a] = Edited(@, d.version)]
        /\ overrun' = IF d.version # row[a].version THEN overrun \cup {a} ELSE overrun
        /\ UNCHANGED <<shown, unseen, edited>>
    BY <1>4 DEF CommitEdit, Exists
  <2>2. Edited(row[a], d.version).version = d.version + 1
        /\ Edited(row[a], d.version).edits = row[a].edits + 1
    BY <1>4, <2>1, EditedType DEF CommitEdit, Edit
  <2>3. d.version \in Int /\ d.version >= 1 /\ row[a].edits \in Int
    BY <2>1, DirectoryAssumption DEF Edit, Row
  <2> HIDE DEF d, a
  <2>4. \A b \in Exists' : IF b = a THEN row'[b] = Edited(row[a], d.version)
                           ELSE b \in Exists /\ row'[b] = row[b]
    BY <2>1 DEF Exists
  <2>5. SeenInv'
    BY <2>1, <2>2, <2>3, <2>4 DEF EditInv, SeenInv, EditsAreSeen
  <2>6. RollbackInv'
    BY <2>1, <2>2, <2>3, <2>4 DEF EditInv, RollbackInv, RollbackKeepsEdits
  <2> QED BY <2>5, <2>6 DEF EditInv
<1>5. ASSUME NEW e \in Editors, Purge(e) PROVE EditInv'
  BY <1>5, EditOfRows DEF Purge
<1>6. CASE CommitBatch
  <2> DEFINE created == {x \in Lines : Outcome(x) = "created"}
  <2>1. PICK new \in [created -> {a \in Accounts : Fresh(a)}] :
          row' = [a \in Accounts |-> IF \E x \in created : new[x] = a
                                     THEN NewRow(CHOOSE x \in created : new[x] = a) ELSE row[a]]
    BY <1>6 DEF CommitBatch
  <2>2. created \subseteq Addresses
    BY DirectoryAssumption
  <2> HIDE DEF created
  <2>3. \A a \in Accounts : row'[a] = row[a] \/ \E x \in Addresses : row'[a] = NewRow(x)
    BY <2>1, <2>2
  <2> QED BY <1>6, <2>3, EditOfRows DEF CommitBatch
<1>7. CASE RollbackBatch
  <2>1. PICK back \in SUBSET Lines :
          /\ \A x \in back : Untouched(x)
          /\ row' = [a \in Accounts |-> IF \E x \in back : made[x] = a THEN None ELSE row[a]]
          /\ edited' = edited \cup UNION {{made[x]} \X EditsOf(made[x]) : x \in back}
          /\ UNCHANGED <<shown, overrun, unseen>>
    BY <1>7, RollbackRows
  <2>2. \A x \in back : row[made[x]].edits = 0
    BY <2>1 DEF Untouched, EditInv, RollbackInv
  <2>3. \A x \in back : "counted" \notin EditsOf(made[x])
    BY <2>2 DEF EditsOf
  <2>4. RollbackKeepsEdits'
    <3>1. ASSUME NEW a \in Accounts, NEW x \in back,
                 <<a, "counted">> \in {made[x]} \X EditsOf(made[x])
          PROVE  FALSE
      BY <2>3, <3>1
    <3>2. \A a \in Accounts : <<a, "counted">> \notin edited
      BY DEF EditInv, RollbackInv, RollbackKeepsEdits
    <3> QED BY <2>1, <3>1, <3>2 DEF RollbackKeepsEdits
  <2>5. \A a \in Accounts : row'[a] \in {row[a], None}
    BY <2>1
  <2> QED BY <2>1, <2>4, <2>5, EditOfRows
<1>8. ASSUME UNCHANGED <<row, shown, overrun, unseen, edited>> PROVE EditInv'
  BY <1>8, EditOfRows
<1>9. ASSUME NEW e \in Editors,
             \/ \E a \in Accounts, k \in Kinds, S \in SUBSET Addresses : OpenEdit(e, a, k, S)
             \/ EditFails(e)
      PROVE  EditInv'
  BY <1>8, <1>9 DEF OpenEdit, EditFails
<1>10. CASE CreateBatch \/ CommitRead
  BY <1>8, <1>10 DEF CreateBatch, CommitRead
<1>11. CASE UNCHANGED directoryVars
  BY <1>8, <1>11 DEF directoryVars
<1>12. ASSUME NEW a \in Accounts, EditQuietly(a) PROVE EditInv'
  BY <1>12, QuietRows DEF EditInv, SeenInv, RollbackInv, EditsAreSeen, RollbackKeepsEdits
<1> QED BY <1>1, <1>2, <1>3, <1>4, <1>5, <1>6, <1>7, <1>9, <1>10, <1>11, <1>12
        DEF DirectoryNext, Kinds

-----------------------------------------------------------------------------
(* Directory: unique addresses                                             *)

\* The unique index.
PrimaryInv == \A a, b \in Exists : row[a].address = row[b].address => a = b

\* No primary address is an alias, or is about to become one.
AliasInv == \A x \in Addresses \ loose : Primary(x) => ~Aliased(x) /\ ~Pending(x)

\* What an import has found free is no alias.
ReadingInv == \A x \in reading \ loose : ~Aliased(x)

UniqueInv == PrimaryInv /\ AliasInv /\ ReadingInv

\* A batch that is not committed has created nothing.
BatchInv ==
  batch \in {"none", "validated", "committing"} =>
    \A x \in Lines : item[x] \in {"none", "valid", "conflict"}

LEMMA BatchInit == DirectoryInit => BatchInv
BY DEF DirectoryInit, BatchInv

LEMMA BatchStep == BatchInv /\ [DirectoryNext]_directoryVars => BatchInv'
<1> SUFFICES ASSUME BatchInv, [DirectoryNext]_directoryVars PROVE BatchInv'
  OBVIOUS
<1>1. CASE CreateBatch
  BY <1>1 DEF CreateBatch, BatchInv
<1>2. CASE CommitRead
  BY <1>2 DEF CommitRead, BatchInv
<1>3. CASE CommitBatch
  BY <1>3 DEF CommitBatch, Final, BatchInv
<1>4. CASE RollbackBatch
  BY <1>4, RollbackRows DEF BatchInv
<1>5. ~(CreateBatch \/ CommitRead \/ CommitBatch \/ RollbackBatch) => UNCHANGED <<batch, item>>
  BY Zenon DEF DirectoryNext, CreateAccount, Show, Update, OpenEdit, CommitEdit, EditFails, Purge,
               EditQuietly, ImportUnchanged, directoryVars
<1> QED BY <1>1, <1>2, <1>3, <1>4, <1>5 DEF BatchInv

LEMMA UniqueInit == DirectoryInit => UniqueInv
BY DEF DirectoryInit, UniqueInv, PrimaryInv, AliasInv, ReadingInv, Exists, Primary

\* A step that makes no alias of an address no session has checked, and no
\* primary address of one that is an alias or has been checked as one.
LEMMA AliasStep ==
  ASSUME AliasInv, loose \subseteq loose',
         \A x \in Addresses \ loose' : Aliased(x)' \/ Pending(x)' => Aliased(x) \/ Pending(x),
         \A x \in Addresses \ loose' : Primary(x)' => Primary(x) \/ (~Aliased(x) /\ ~Pending(x))
  PROVE  AliasInv'
BY DEF AliasInv

\* Accounts are only removed, with aliases.
LEMMA UniqueOfRemoval ==
  ASSUME DirectoryTypeInv, UniqueInv,
         \A a \in Accounts : row'[a] \in {row[a], None},
         \A x \in Addresses : alias'[x] \in {alias[x], None},
         \A x \in Addresses : Pending(x)' => Pending(x),
         reading' \subseteq reading, loose' = loose
  PROVE  UniqueInv'
<1> USE DEF DirectoryTypeInv, DirectoryTypeOK, UniqueInv
<1>1. \A a \in Exists' : a \in Exists /\ row'[a] = row[a]
  BY DEF Exists
<1>2. PrimaryInv'
  BY <1>1 DEF PrimaryInv
<1>3. \A x \in Addresses : (Primary(x)' => Primary(x)) /\ (Aliased(x)' => Aliased(x))
  BY <1>1 DEF Primary, Aliased
<1>4. AliasInv'
  BY <1>3, AliasStep
<1>5. ReadingInv'
  BY <1>3, DirectoryAssumption DEF ReadingInv
<1> QED BY <1>2, <1>4, <1>5

\* One account gets an address no other has.
LEMMA UniqueOfPrimary ==
  ASSUME DirectoryTypeInv, UniqueInv, NEW a \in Accounts, NEW x \in Addresses,
         \A b \in Exists \ {a} : row[b].address # x,
         \A b \in Exists' : IF b = a THEN row'[a].address = x ELSE b \in Exists /\ row'[b] = row[b],
         loose \subseteq loose',
         (a \in Exists /\ x = row[a].address) \/ x \in loose' \/ (~Aliased(x) /\ ~Pending(x)),
         UNCHANGED <<alias, edit, reading>>
  PROVE  UniqueInv'
<1> USE DEF DirectoryTypeInv, DirectoryTypeOK, UniqueInv
<1>1. PrimaryInv'
  BY DEF PrimaryInv
<1>2. AliasInv'
  <2>1. \A y \in Addresses : Primary(y)' => Primary(y) \/ y = x
    BY DEF Primary
  <2>2. a \in Exists /\ x = row[a].address => Primary(x)
    BY DEF Primary
  <2>3. \A y \in Addresses : (Aliased(y)' => Aliased(y)) /\ (Pending(y)' => Pending(y))
    BY DEF Aliased, Pending
  <2> QED BY <2>1, <2>2, <2>3, AliasStep
<1>3. ReadingInv'
  BY DirectoryAssumption DEF ReadingInv, Aliased
<1> QED BY <1>1, <1>2, <1>3

LEMMA UniqueOfCommitEdit ==
  ASSUME DirectoryTypeInv, UniqueInv, NEW e \in Editors, CommitEdit(e)
  PROVE  UniqueInv'
<1> USE DEF DirectoryTypeInv, DirectoryTypeOK, UniqueInv
<1> DEFINE d == edit[e]
           a == d.account
<1>1. /\ d \in Edit /\ d # None /\ a \in Exists /\ row[a] \in Row
      /\ row' = [row EXCEPT ![a] = Edited(@, d.version)]
      /\ alias' = IF d.kind = "aliases"
                  THEN [x \in Addresses |-> IF x \in d.aliases THEN a ELSE Without(a)[x]] ELSE alias
      /\ loose' = loose \cup (d.aliases \cap reading)
      /\ edit' = [edit EXCEPT ![e] = None] /\ reading' = reading
  BY DEF CommitEdit, Exists, ImportUnchanged
<1>2. row[a].edits < MaxEdits /\ d.version <= MaxEdits /\ d.version \in 1..MaxEdits + 1
  BY <1>1 DEF CommitEdit, Edit
<1> HIDE DEF d, a
<1>3. Edited(row[a], d.version).address = row[a].address
  BY <1>1, <1>2, EditedType
<1>4. \A b \in Exists' : b \in Exists /\ row'[b].address = row[b].address
  BY <1>1, <1>3 DEF Exists
<1>5. PrimaryInv'
  BY <1>4 DEF PrimaryInv
<1>6. \A x \in Addresses : Primary(x)' => Primary(x)
  BY <1>4 DEF Primary
<1>7. \A x \in Addresses : (Aliased(x)' => Aliased(x) \/ x \in d.aliases)
  BY <1>1 DEF Aliased, Without
<1>8. \A x \in Addresses : (Pending(x)' \/ x \in d.aliases => Pending(x))
  BY <1>1 DEF Pending, d
<1>9. AliasInv'
  BY <1>1, <1>6, <1>7, <1>8, AliasStep
<1>10. ReadingInv'
  BY <1>1, <1>7, DirectoryAssumption DEF ReadingInv
<1> QED BY <1>5, <1>9, <1>10

\* The accounts of an import have addresses it has found free.
LEMMA UniqueOfCommitBatch ==
  ASSUME DirectoryTypeInv, BatchInv, UniqueInv, CommitBatch
  PROVE  UniqueInv'
<1> USE DEF DirectoryTypeInv, DirectoryTypeOK, UniqueInv
<1> DEFINE created == {x \in Lines : Outcome(x) = "created"}
<1>1. /\ created \subseteq Addresses /\ created \subseteq reading
      /\ \A x \in created : ~Primary(x)
  BY DirectoryAssumption DEF Outcome, CommitBatch, BatchInv
<1>2. /\ UNCHANGED <<alias, edit>> /\ reading' = {}
      /\ loose' = loose \cup {x \in created : Pending(x)}
  BY DEF CommitBatch
<1>3. PICK new \in [created -> {a \in Accounts : Fresh(a)}] :
        row' = [a \in Accounts |-> IF \E x \in created : new[x] = a
                                   THEN NewRow(CHOOSE x \in created : new[x] = a) ELSE row[a]]
  BY DEF CommitBatch
<1> HIDE DEF created
\* A row is new, with an address of its own, or is as it was.
<1>4. ASSUME NEW a \in Exists'
      PROVE  \/ \E x \in created : new[x] = a /\ row'[a].address = x
             \/ a \in Exists /\ row'[a] = row[a]
  <2>1. a \in Accounts
    BY DEF Exists
  <2>2. CASE \E x \in created : new[x] = a
    BY <1>3, <2>1, <2>2 DEF NewRow
  <2>3. CASE ~ \E x \in created : new[x] = a
    BY <1>3, <2>1, <2>3 DEF Exists
  <2> QED BY <2>2, <2>3
<1>5. PrimaryInv'
  <2> SUFFICES ASSUME NEW a \in Exists', NEW b \in Exists', row'[a].address = row'[b].address
               PROVE  a = b
    BY DEF PrimaryInv
  <2> QED BY <1>1, <1>4 DEF PrimaryInv, Primary
<1>6. \A x \in Addresses : Primary(x)' => Primary(x) \/ x \in created
  BY <1>4 DEF Primary
<1>7. \A x \in Addresses : (Aliased(x)' => Aliased(x)) /\ (Pending(x)' => Pending(x))
  BY <1>2 DEF Aliased, Pending
<1>8. \A x \in created \ loose' : ~Aliased(x) /\ ~Pending(x)
  BY <1>1, <1>2 DEF ReadingInv
<1>9. AliasInv'
  BY <1>2, <1>6, <1>7, <1>8, AliasStep
<1> QED BY <1>2, <1>5, <1>9 DEF ReadingInv

LEMMA UniqueStep ==
  DirectoryTypeInv /\ BatchInv /\ UniqueInv /\ [DirectoryNext]_directoryVars => UniqueInv'
<1> SUFFICES ASSUME DirectoryTypeInv, BatchInv, UniqueInv, [DirectoryNext]_directoryVars
             PROVE  UniqueInv'
  OBVIOUS
<1> USE DEF DirectoryTypeInv, DirectoryTypeOK
<1>1. ASSUME NEW a \in Accounts, NEW x \in Addresses, CreateAccount(a, x) PROVE UniqueInv'
  <2>1. /\ row' = [row EXCEPT ![a] = NewRow(x)] /\ ~Primary(x)
        /\ loose' = IF Aliased(x) \/ Pending(x) THEN loose \cup {x} ELSE loose
        /\ UNCHANGED <<alias, edit, reading>>
    BY <1>1 DEF CreateAccount, ImportUnchanged
  <2>2. \A b \in Exists' : IF b = a THEN row'[a].address = x ELSE b \in Exists /\ row'[b] = row[b]
    BY <2>1 DEF Exists, NewRow
  <2>3. loose \subseteq loose' /\ (x \in loose' \/ (~Aliased(x) /\ ~Pending(x)))
    BY <2>1
  <2>4. \A b \in Exists \ {a} : row[b].address # x
    BY <2>1 DEF Primary
  <2> QED BY <2>1, <2>2, <2>3, <2>4, UniqueOfPrimary
<1>2. ASSUME NEW c \in Clients, NEW x \in Addresses, Update(c, x) PROVE UniqueInv'
  <2> DEFINE a == shown[c].account
  <2>1. /\ a \in Accounts /\ a \in Exists
        /\ \A b \in Exists \ {a} : row[b].address # x
        /\ row' = [row EXCEPT ![a] = Renewed(@, x)] /\ Renewed(row[a], x).address = x
        /\ loose' = IF x # row[a].address /\ (Aliased(x) \/ Pending(x)) THEN loose \cup {x}
                    ELSE loose
        /\ UNCHANGED <<alias, edit, reading>>
    <3>1. a \in Accounts /\ row[a] \in Row /\ row[a].edits < MaxEdits /\ row[a].version <= MaxEdits
      BY <1>2 DEF Update, Current, Exists
    <3>2. Renewed(row[a], x).address = x
      BY <3>1, RenewedType
    <3> QED BY <1>2, <3>2 DEF Update, Current, Exists, ImportUnchanged
  <2> HIDE DEF a
  <2>2. \A b \in Exists' : IF b = a THEN row'[a].address = x ELSE b \in Exists /\ row'[b] = row[b]
    BY <2>1 DEF Exists
  <2>3. /\ loose \subseteq loose'
        /\ (a \in Exists /\ x = row[a].address) \/ x \in loose' \/ (~Aliased(x) /\ ~Pending(x))
    BY <2>1
  <2> QED BY <2>1, <2>2, <2>3, UniqueOfPrimary
<1>3. ASSUME NEW e \in Editors, NEW a \in Accounts, NEW k \in Kinds, NEW S \in SUBSET Addresses,
             OpenEdit(e, a, k, S)
      PROVE  UniqueInv'
  <2>1. /\ \A x \in S : ~Primary(x)
        /\ edit' = [edit EXCEPT ![e] = [account |-> a, kind |-> k, aliases |-> S,
                                        version |-> row[a].version]]
        /\ UNCHANGED <<row, alias, reading, loose>>
    BY <1>3 DEF OpenEdit, ImportUnchanged
  <2>2. \A x \in Addresses : Pending(x)' => Pending(x) \/ x \in S
    BY <2>1 DEF Pending
  <2>3. AliasInv'
    BY <2>1, <2>2 DEF UniqueInv, AliasInv, Primary, Aliased, Exists
  <2> QED BY <2>1, <2>3 DEF UniqueInv, PrimaryInv, ReadingInv, Aliased, Exists
<1>4. ASSUME NEW e \in Editors, EditFails(e) \/ Purge(e) PROVE UniqueInv'
  <2>1. /\ \A a \in Accounts : row'[a] \in {row[a], None}
        /\ \A x \in Addresses : alias'[x] \in {alias[x], None}
        /\ edit' = [edit EXCEPT ![e] = None] /\ UNCHANGED <<reading, loose>>
    BY <1>4 DEF EditFails, Purge, ImportUnchanged, Without
  <2>2. \A x \in Addresses : Pending(x)' => Pending(x)
    BY <2>1 DEF Pending
  <2> QED BY <2>1, <2>2, UniqueOfRemoval
<1>5. CASE CommitRead
  <2>1. UNCHANGED <<row, alias, edit, loose>> /\ \A x \in reading' : ~Aliased(x)
    BY <1>5 DEF CommitRead, Occupied
  <2> QED BY <2>1 DEF UniqueInv, PrimaryInv, AliasInv, ReadingInv, Primary, Aliased, Pending, Exists
<1>6. CASE RollbackBatch
  <2>1. PICK back \in SUBSET Lines :
        /\ row' = [a \in Accounts |-> IF \E x \in back : made[x] = a THEN None ELSE row[a]]
        /\ alias' = [x \in Addresses |-> IF \E y \in back : made[y] = alias[x] THEN None
                                         ELSE alias[x]]
        /\ UNCHANGED <<edit, reading, loose>>
    BY <1>6, RollbackRows
  <2>2. /\ \A a \in Accounts : row'[a] \in {row[a], None}
        /\ \A x \in Addresses : alias'[x] \in {alias[x], None}
        /\ \A x \in Addresses : Pending(x)' => Pending(x)
    BY <2>1 DEF Pending
  <2> QED BY <2>1, <2>2, UniqueOfRemoval
<1>7. ASSUME UNCHANGED <<row, alias, edit, reading, loose>> PROVE UniqueInv'
  BY <1>7 DEF UniqueInv, PrimaryInv, AliasInv, ReadingInv, Primary, Aliased, Pending, Exists
<1>8. ASSUME NEW c \in Clients, NEW a \in Accounts, Show(c, a) PROVE UniqueInv'
  BY <1>7, <1>8 DEF Show, ImportUnchanged
<1>9. CASE CreateBatch
  BY <1>7, <1>9 DEF CreateBatch
<1>10. CASE UNCHANGED directoryVars
  BY <1>7, <1>10 DEF directoryVars
<1>11. ASSUME NEW a \in Accounts, EditQuietly(a) PROVE UniqueInv'
  BY <1>11, QuietRows DEF UniqueInv, PrimaryInv, AliasInv, ReadingInv, Primary, Aliased, Pending
<1> QED BY <1>1, <1>2, <1>3, <1>4, <1>5, <1>6, <1>8, <1>9, <1>10, <1>11, UniqueOfCommitEdit,
           UniqueOfCommitBatch DEF DirectoryNext, Kinds

-----------------------------------------------------------------------------
(* Directory: theorems                                                     *)

\* Rows, aliases, edits and batches keep their types, whatever clients,
\* sessions and imports do.
THEOREM DirectoryTypes == DirectorySpec => []DirectoryTypeOK
<1>1. DirectorySpec => []DirectoryTypeInv
  BY DirectoryTypeInit, DirectoryTypeStep, PTL DEF DirectorySpec
<1>2. DirectoryTypeInv => DirectoryTypeOK
  BY DEF DirectoryTypeInv
<1> QED BY <1>1, <1>2, PTL

\* update_account accepts no version that hides an edit, as long as the edits
\* that take no lock do not overrun each other, and rollback_import_batch
\* deletes no account that was edited, where the edits are those that raise
\* row_version.
THEOREM EditsAreKept == DirectorySpec => []EditsSurvive
<1> DEFINE Inv == DirectoryTypeInv /\ EditInv
<1>1. DirectoryInit => Inv
  BY DirectoryTypeInit, EditInit
<1>2. Inv /\ [DirectoryNext]_directoryVars => Inv'
  BY DirectoryTypeStep, EditStep
<1>3. Inv => EditsSurvive
  BY DEF EditInv, SeenInv, RollbackInv, EditsSurvive
<1> HIDE DEF Inv
<1> QED BY <1>1, <1>2, <1>3, PTL DEF DirectorySpec

\* An address is the primary address of one account at most, and an alias of
\* none unless its check was overtaken.
THEOREM AddressesStayUnique == DirectorySpec => []AddressesUnique
<1> DEFINE Inv == DirectoryTypeInv /\ BatchInv /\ UniqueInv
<1>1. DirectoryInit => Inv
  BY DirectoryTypeInit, BatchInit, UniqueInit
<1>2. Inv /\ [DirectoryNext]_directoryVars => Inv'
  BY DirectoryTypeStep, BatchStep, UniqueStep
<1>3. Inv => AddressesUnique
  <2> SUFFICES ASSUME UniqueInv, NEW x \in Addresses
               PROVE  /\ Cardinality({a \in Exists : row[a].address = x}) <= 1
                      /\ (\E a \in Exists : row[a].address = x) /\ alias[x] # None => x \in loose
    BY DEF AddressesUnique
  <2> DEFINE S == {a \in Exists : row[a].address = x}
  <2>1. S = {} \/ \E a \in Exists : S = {a}
    BY DEF UniqueInv, PrimaryInv
  <2> HIDE DEF S
  <2>2. Cardinality(S) <= 1
    BY <2>1, FS_EmptySet, FS_Singleton
  <2>3. Primary(x) /\ Aliased(x) => x \in loose
    BY DEF UniqueInv, AliasInv
  <2> QED BY <2>2, <2>3 DEF S, Primary, Aliased
<1> HIDE DEF Inv
<1> QED BY <1>1, <1>2, <1>3, PTL DEF DirectorySpec

-----------------------------------------------------------------------------
(* Side by side                                                            *)

\* The components keep their types as well when MCAccounts runs them side by
\* side: every step of AllSpec is one of a single component.
THEOREM AccountTypes == AllSpec => []AllTypeOK
<1>1. AllInit => SecretInit /\ HealthInit /\ DirectoryInit /\ Init
  BY DEF AllInit
<1>2. [AllNext]_allVars => [SecretNext]_secretVars
  BY DEF AllNext, allVars
<1>3. [AllNext]_allVars => [HealthNext]_healthVars
  BY DEF AllNext, allVars
<1>4. [AllNext]_allVars => [DirectoryNext]_directoryVars
  BY DEF AllNext, allVars
<1>5. [AllNext]_allVars => [Next]_bulkVars
  BY DEF AllNext, allVars
<1>6. AllSpec => SecretSpec /\ HealthSpec /\ DirectorySpec /\ Spec
  BY <1>1, <1>2, <1>3, <1>4, <1>5, PTL DEF AllSpec, SecretSpec, HealthSpec, DirectorySpec, Spec
<1> QED BY <1>6, SecretTypes, HealthTypes, DirectoryTypes, BulkTypes, PTL DEF AllTypeOK
==============================================================================
