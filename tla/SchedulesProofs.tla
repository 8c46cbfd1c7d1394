-------------------------- MODULE SchedulesProofs --------------------------
(***************************************************************************)
(* What the row locks and the idempotency keys of Schedules are worth, for *)
(* any number of schedules, workers and concurrent edits.                  *)
(***************************************************************************)
EXTENDS Schedules, FiniteSetTheorems, TLAPS

\* The next run is always later.
LEMMA NextRunLater ==
  ASSUME NEW p \in Nat \ {0}, NEW t \in Nat
  PROVE  NextRun(p, t) \in Nat /\ NextRun(p, t) > t
<1>1. t % p \in 0..(p - 1)
  OBVIOUS
<1> QED BY <1>1 DEF NextRun

\* What the API stores is a row of the table.
LEMMA RequestIsRow ==
  ASSUME TypeOK, NEW t \in Tasks, NEW p \in Payloads, NEW c \in Periods, NEW b \in BOOLEAN
  PROVE  [task |-> t, payload |-> p, period |-> c, enabled |-> b,
          next |-> NextRun(c, now)] \in Row
<1>1. NextRun(c, now) \in Nat
  BY NextRunLater, ScheduleAssumption DEF TypeOK
<1> QED BY <1>1 DEF Row

LEMMA MergeIsRow ==
  ASSUME NEW r \in Row, NEW l \in Row, NEW n \in Row
  PROVE  Merge(r, l, n) \in Row
BY DEF Row, Merge, Changed

\* Moving a row to its next due time.
LEMMA AdvanceIsRow ==
  ASSUME NEW r \in Row, NEW t \in Nat
  PROVE  [r EXCEPT !.next = NextRun(r.period, t)] \in Row
<1>1. NextRun(r.period, t) \in Nat
  BY NextRunLater, ScheduleAssumption DEF Row
<1> QED BY <1>1 DEF Row

-----------------------------------------------------------------------------
\* TypeOK is not inductive: a commit keeps the table well typed only because
\* the rows it locked are still there.
RunInv == TypeOK /\ BatchIsDue

LEMMA RunInit == Init => RunInv
BY ScheduleAssumption DEF Init, RunInv, TypeOK, BatchIsDue

\* The API changes no row a worker has locked.
LEMMA ApiStep ==
  ASSUME RunInv,
         \/ \E s \in Schedules : CreateSchedule(s) \/ DeleteSchedule(s)
         \/ \E e \in Editors, s \in Schedules : EditRead(e, s)
         \/ \E e \in Editors : EditWrite(e)
  PROVE  RunInv'
<1> USE DEF RunInv, TypeOK
<1>1. ASSUME NEW s \in Schedules, CreateSchedule(s) PROVE RunInv'
  <2>1. TypeOK'
    BY <1>1, RequestIsRow DEF CreateSchedule
  <2>2. \A w \in Workers : s \notin batch[w]
    BY <1>1 DEF CreateSchedule, BatchIsDue
  <2>3. BatchIsDue'
    BY <1>1, <2>2 DEF CreateSchedule, BatchIsDue
  <2> QED BY <2>1, <2>3
<1>2. ASSUME NEW s \in Schedules, DeleteSchedule(s) PROVE RunInv'
  BY <1>2 DEF DeleteSchedule, Locked, BatchIsDue
<1>3. ASSUME NEW e \in Editors, NEW s \in Schedules, EditRead(e, s) PROVE RunInv'
  <2>1. PICK r \in Row :
          edit' = [edit EXCEPT ![e] = [schedule |-> s, loaded |-> row[s], new |-> r]]
    BY <1>3, RequestIsRow DEF EditRead
  <2>2. row[s] \in Row
    BY <1>3 DEF EditRead
  <2>3. UNCHANGED <<now, row, gone, jobs, started, up, batch, current, crashes>>
    BY <1>3 DEF EditRead
  <2> QED BY <2>1, <2>2, <2>3 DEF BatchIsDue
<1>4. ASSUME NEW e \in Editors, EditWrite(e) PROVE RunInv'
  <2>1. PICK s \in Schedules :
          /\ ~Locked(s)
          /\ row' = [row EXCEPT ![s] = IF row[s] = None THEN None
                                       ELSE Merge(row[s], edit[e].loaded, edit[e].new)]
    BY <1>4 DEF EditWrite
  <2>2. row[s] # None => Merge(row[s], edit[e].loaded, edit[e].new) \in Row
    BY <1>4, MergeIsRow DEF EditWrite
  <2>3. row' \in [Schedules -> Row \cup {None}]
    BY <2>1, <2>2
  <2>4. /\ UNCHANGED <<now, gone, jobs, started, up, batch, current, crashes>>
        /\ edit' = [edit EXCEPT ![e] = None]
    BY <1>4 DEF EditWrite
  <2>5. TypeOK'
    BY <2>3, <2>4
  <2>6. \A w \in Workers : s \notin batch[w]
    BY <2>1 DEF Locked
  <2>7. \A w \in Workers : \A t \in batch[w] : row'[t] = row[t]
    BY <2>1, <2>6
  <2>8. BatchIsDue'
    BY <2>4, <2>7 DEF BatchIsDue
  <2> QED BY <2>5, <2>8
<1> QED BY <1>1, <1>2, <1>3, <1>4

\* A worker locks rows nobody has locked and changes only those.
LEMMA SelectStep ==
  ASSUME RunInv, NEW w \in Workers, RunSelect(w)
  PROVE  RunInv'
<1> USE DEF RunInv, TypeOK
<1>1. PICK S \in SUBSET Schedules :
        /\ \A s \in S : Due(s) /\ ~Locked(s)
        /\ batch' = [batch EXCEPT ![w] = S]
  BY DEF RunSelect
<1>2. /\ current' = [current EXCEPT ![w] = now]
      /\ UNCHANGED <<now, row, gone, jobs, started, up, crashes, edit>>
  BY DEF RunSelect
<1>3. TypeOK'
  BY <1>1, <1>2
<1>4. ASSUME NEW v \in Workers, NEW s \in batch'[v]
      PROVE  /\ row'[s] # None /\ row'[s].enabled /\ row'[s].next <= current'[v]
             /\ \A u \in Workers \ {v} : s \notin batch'[u]
  <2>1. CASE v = w
    BY <1>1, <1>2, <1>4, <2>1 DEF Due, Locked
  <2>2. CASE v # w
    <3>1. s \in batch[v] /\ s \notin S
      BY <1>1, <1>4, <2>2 DEF Locked
    <3> QED BY <1>1, <1>2, <2>2, <3>1 DEF BatchIsDue
  <2> QED BY <2>1, <2>2
<1> QED BY <1>3, <1>4 DEF BatchIsDue

LEMMA CommitStep ==
  ASSUME RunInv, NEW w \in Workers, RunCommit(w)
  PROVE  RunInv'
<1> USE DEF RunInv, TypeOK
<1>1. \A s \in batch[w] : row[s] \in Row
  BY DEF BatchIsDue
<1>2. \A s \in batch[w] :
        [row[s] EXCEPT !.next = NextRun(row[s].period, current[w])] \in Row
  BY <1>1, AdvanceIsRow, ScheduleAssumption
<1>3. row' \in [Schedules -> Row \cup {None}]
  BY <1>2 DEF RunCommit
<1>4. jobs' \subseteq Schedules \X Nat
  BY <1>1 DEF RunCommit, Row
<1>5. started' \in [Schedules -> Nat]
  BY DEF RunCommit
<1>6. batch' = [batch EXCEPT ![w] = {}] /\ UNCHANGED <<now, gone, up, current, crashes, edit>>
  BY DEF RunCommit
<1>7. TypeOK'
  BY <1>3, <1>4, <1>5, <1>6
<1>8. \A v \in Workers : \A s \in batch'[v] : v # w /\ s \in batch[v] /\ row'[s] = row[s]
  BY <1>6 DEF RunCommit, BatchIsDue
<1>9. BatchIsDue'
  BY <1>6, <1>8 DEF BatchIsDue
<1> QED BY <1>7, <1>9

LEMMA OtherRunStep ==
  ASSUME RunInv,
         \/ \E w \in Workers : RunRaises(w) \/ Crash(w) \/ Restart(w)
         \/ Tick \/ UNCHANGED vars
  PROVE  RunInv'
<1> USE DEF RunInv, TypeOK
<1>1. TypeOK'
  <2>1. ASSUME NEW w \in Workers, RunRaises(w) PROVE TypeOK'
    BY <2>1 DEF RunRaises
  <2>2. ASSUME NEW w \in Workers, Crash(w) PROVE TypeOK'
    BY <2>2, ScheduleAssumption DEF Crash
  <2>3. ASSUME NEW w \in Workers, Restart(w) PROVE TypeOK'
    BY <2>3 DEF Restart
  <2>4. CASE Tick
    BY <2>4, ScheduleAssumption DEF Tick
  <2>5. CASE UNCHANGED vars
    BY <2>5 DEF vars
  <2> QED BY <2>1, <2>2, <2>3, <2>4, <2>5
<1>2. row' = row /\ current' = current
  BY DEF RunRaises, Crash, Restart, Tick, vars
<1>3. \A v \in Workers : batch'[v] \subseteq batch[v]
  BY DEF RunRaises, Crash, Restart, Tick, vars
<1>4. BatchIsDue'
  BY <1>2, <1>3 DEF BatchIsDue
<1> QED BY <1>1, <1>4

LEMMA RunStep == RunInv /\ [Next]_vars => RunInv'
BY ApiStep, SelectStep, CommitStep, OtherRunStep DEF Next, RunOnce

-----------------------------------------------------------------------------
(* One job per due time                                                    *)

KeysOf(s) == {j \in jobs : j[1] = s}

\* A key that is new adds one job, a key that exists adds none.
KeyInv == \A s \in Schedules : IsFiniteSet(KeysOf(s)) /\ started[s] = Cardinality(KeysOf(s))

LEMMA KeyInit == Init => KeyInv
BY FS_EmptySet DEF Init, KeyInv, KeysOf

LEMMA KeyStep == RunInv /\ KeyInv /\ [Next]_vars => KeyInv'
<1> SUFFICES ASSUME RunInv, KeyInv, [Next]_vars PROVE KeyInv'
  OBVIOUS
<1> USE DEF RunInv, TypeOK
<1>1. CASE jobs' = jobs /\ started' = started
  BY <1>1 DEF KeyInv, KeysOf
<1>2. ASSUME NEW w \in Workers, RunCommit(w), NEW s \in Schedules
      PROVE  IsFiniteSet(KeysOf(s)') /\ started'[s] = Cardinality(KeysOf(s)')
  <2>1. CASE s \in batch[w]
    <3>1. KeysOf(s)' = KeysOf(s) \cup {<<s, row[s].next>>}
      BY <1>2, <2>1 DEF RunCommit, KeysOf
    <3>2. NewKey(s) <=> <<s, row[s].next>> \notin KeysOf(s)
      BY DEF NewKey, KeysOf
    <3>3. started'[s] = IF NewKey(s) THEN started[s] + 1 ELSE started[s]
      BY <1>2, <2>1 DEF RunCommit
    <3>4. IsFiniteSet(KeysOf(s)) /\ started[s] = Cardinality(KeysOf(s))
      BY DEF KeyInv
    <3>5. /\ IsFiniteSet(KeysOf(s) \cup {<<s, row[s].next>>})
          /\ Cardinality(KeysOf(s) \cup {<<s, row[s].next>>})
               = IF <<s, row[s].next>> \in KeysOf(s) THEN Cardinality(KeysOf(s))
                 ELSE Cardinality(KeysOf(s)) + 1
      BY <3>4, FS_AddElement
    <3> QED BY <3>1, <3>2, <3>3, <3>4, <3>5
  <2>2. CASE s \notin batch[w]
    <3>1. KeysOf(s)' = KeysOf(s)
      BY <1>2, <2>2 DEF RunCommit, KeysOf
    <3>2. started'[s] = started[s]
      BY <1>2, <2>2 DEF RunCommit
    <3> QED BY <3>1, <3>2 DEF KeyInv
  <2> QED BY <2>1, <2>2
<1>3. (\E w \in Workers : RunCommit(w)) \/ (jobs' = jobs /\ started' = started)
  BY DEF Next, RunOnce, CreateSchedule, DeleteSchedule, EditRead, EditWrite, RunSelect,
         RunRaises, Crash, Restart, Tick, vars
<1> QED BY <1>1, <1>2, <1>3 DEF KeyInv

-----------------------------------------------------------------------------
(* Stored payloads                                                         *)

\* Edits do not overlap.
OneEditor == \A e, f \in Editors : e = f

\* An edit still knows the task type and payload of its row, and writes a pair
\* that was validated; only a row that was created before is edited.
EditsKnow ==
  \A e \in Editors :
    edit[e] # None =>
      LET s == edit[e].schedule
          l == edit[e].loaded
      IN /\ <<edit[e].new.task, edit[e].new.payload>> \in Fits
         /\ row[s] = None => s \in gone
         /\ row[s] # None => row[s].task = l.task /\ row[s].payload = l.payload

FitInv == StoredPayloadFits /\ EditsKnow

LEMMA FitInit == Init => FitInv
BY DEF Init, FitInv, StoredPayloadFits, EditsKnow

LEMMA FitStep ==
  ASSUME OneEditor, RunInv, FitInv, [Next]_vars
  PROVE  FitInv'
<1> USE DEF RunInv, TypeOK, FitInv
<1>1. ASSUME NEW s \in Schedules, CreateSchedule(s) PROVE FitInv'
  <2>1. PICK r \in Row : Request(r) /\ row' = [row EXCEPT ![s] = r]
    BY <1>1, RequestIsRow DEF CreateSchedule
  <2>2. row[s] = None /\ s \notin gone /\ edit' = edit /\ gone' = gone
    BY <1>1 DEF CreateSchedule
  <2>3. StoredPayloadFits'
    BY <2>1 DEF StoredPayloadFits, Valid, Request
  <2>4. \A e \in Editors : edit[e] # None => edit[e].schedule # s
    BY <2>2 DEF EditsKnow
  <2>5. EditsKnow'
    BY <2>1, <2>2, <2>4 DEF EditsKnow
  <2> QED BY <2>3, <2>5
<1>2. ASSUME NEW s \in Schedules, DeleteSchedule(s) PROVE FitInv'
  BY <1>2 DEF DeleteSchedule, StoredPayloadFits, Valid, EditsKnow
<1>3. ASSUME NEW e \in Editors, NEW s \in Schedules, EditRead(e, s) PROVE FitInv'
  <2>1. PICK r \in Row :
          /\ Request(r)
          /\ edit' = [edit EXCEPT ![e] = [schedule |-> s, loaded |-> row[s], new |-> r]]
    BY <1>3, RequestIsRow DEF EditRead
  <2>2. row[s] # None /\ row' = row /\ gone' = gone
    BY <1>3 DEF EditRead
  <2>3. StoredPayloadFits'
    BY <2>2 DEF StoredPayloadFits, Valid
  <2>4. EditsKnow'
    BY <2>1, <2>2 DEF EditsKnow, Request
  <2> QED BY <2>3, <2>4
<1>4. ASSUME NEW e \in Editors, EditWrite(e) PROVE FitInv'
  <2> DEFINE s == edit[e].schedule
             l == edit[e].loaded
             n == edit[e].new
  <2>1. edit[e] # None /\ s \in Schedules /\ l \in Row /\ n \in Row
    BY <1>4 DEF EditWrite
  <2>2. /\ row' = [row EXCEPT ![s] = IF row[s] = None THEN None ELSE Merge(row[s], l, n)]
        /\ edit' = [edit EXCEPT ![e] = None]
    BY <1>4 DEF EditWrite
  <2>3. row[s] # None => <<Merge(row[s], l, n).task, Merge(row[s], l, n).payload>> \in Fits
    BY <2>1 DEF EditsKnow, Merge, Changed
  <2>4. StoredPayloadFits'
    BY <2>1, <2>2, <2>3 DEF StoredPayloadFits, Valid
  <2>5. \A f \in Editors : edit'[f] = None
    BY <2>2 DEF OneEditor
  <2>6. EditsKnow'
    BY <2>5 DEF EditsKnow
  <2> QED BY <2>4, <2>6
<1>5. ASSUME NEW w \in Workers, RunCommit(w) PROVE FitInv'
  <2>1. edit' = edit /\ gone' = gone
    BY <1>5 DEF RunCommit
  <2>2. \A s \in Schedules :
          /\ row'[s] = None <=> row[s] = None
          /\ row[s] # None => row'[s].task = row[s].task /\ row'[s].payload = row[s].payload
    <3>1. \A s \in batch[w] : row[s] \in Row
      BY DEF BatchIsDue
    <3>2. \A s \in Schedules \ batch[w] : row'[s] = row[s]
      BY <1>5 DEF RunCommit
    <3>3. \A s \in batch[w] :
            row'[s] = [row[s] EXCEPT !.next = NextRun(row[s].period, current[w])]
      BY <1>5 DEF RunCommit
    <3>4. ASSUME NEW s \in batch[w]
          PROVE  /\ row'[s] \in Row
                 /\ row'[s].task = row[s].task /\ row'[s].payload = row[s].payload
      <4>1. row[s] \in Row /\ current[w] \in Nat
        BY <3>1, ScheduleAssumption
      <4>2. [row[s] EXCEPT !.next = NextRun(row[s].period, current[w])] \in Row
        BY <4>1, AdvanceIsRow
      <4>3. row'[s] = [row[s] EXCEPT !.next = NextRun(row[s].period, current[w])]
        BY <3>3
      <4> QED BY <4>1, <4>2, <4>3 DEF Row
    <3>5. \A s \in batch[w] : row[s] # None /\ row'[s] # None
      BY <3>1, <3>4, NoneIsNoRow
    <3> QED BY <3>2, <3>4, <3>5
  <2>3. StoredPayloadFits'
    BY <2>2 DEF StoredPayloadFits, Valid
  <2>4. EditsKnow'
    BY <2>1, <2>2 DEF EditsKnow
  <2> QED BY <2>3, <2>4
<1>6. ASSUME UNCHANGED <<row, gone, edit>> PROVE FitInv'
  BY <1>6 DEF StoredPayloadFits, Valid, EditsKnow
<1>7. ASSUME NEW w \in Workers,
             RunSelect(w) \/ RunRaises(w) \/ Restart(w) \/ Crash(w)
      PROVE  UNCHANGED <<row, gone, edit>>
  BY <1>7 DEF RunSelect, RunRaises, Restart, Crash
<1>8. ASSUME Tick \/ UNCHANGED vars PROVE UNCHANGED <<row, gone, edit>>
  BY <1>8 DEF Tick, vars
<1> QED BY <1>1, <1>2, <1>3, <1>4, <1>5, <1>6, <1>7, <1>8 DEF Next, RunOnce

-----------------------------------------------------------------------------
\* Every reachable state is well typed.
THEOREM ScheduleTypes == Spec => []TypeOK
<1>1. RunInv => TypeOK
  BY DEF RunInv
<1> QED BY RunInit, RunStep, <1>1, PTL DEF Spec

\* What a worker has selected is still due, enabled and its own at commit.
THEOREM BatchesAreDue == Spec => []BatchIsDue
<1>1. RunInv => BatchIsDue
  BY DEF RunInv
<1> QED BY RunInit, RunStep, <1>1, PTL DEF Spec

\* One due time starts one job, however many edits overlap with the runs.
THEOREM DueTimesStartOnce == Spec => []OneJobPerDueTime
<1>1. KeyInv => OneJobPerDueTime
  BY DEF KeyInv, OneJobPerDueTime, KeysOf
<1> QED BY RunInit, RunStep, KeyInit, KeyStep, <1>1, PTL DEF Spec

\* While edits do not overlap, no stored schedule has a payload that its task
\* type refuses, whatever the workers do meanwhile.
THEOREM PayloadsFit == OneEditor => (Spec => []StoredPayloadFits)
<1> SUFFICES ASSUME OneEditor PROVE Spec => []StoredPayloadFits
  OBVIOUS
<1>1. RunInv /\ FitInv /\ [Next]_vars => FitInv'
  BY FitStep
<1>2. FitInv => StoredPayloadFits
  BY DEF FitInv
<1> QED BY RunInit, RunStep, FitInit, <1>1, <1>2, PTL DEF Spec
=============================================================================
