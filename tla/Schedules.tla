----------------------------- MODULE Schedules -----------------------------
(***************************************************************************)
(* Schedules: the API writes and deletes rows, and every worker starts the *)
(* jobs of the due ones at the beginning of run_once.                      *)
(*                                                                         *)
(* run_due_schedules locks a batch (FOR UPDATE SKIP LOCKED) and commits    *)
(* all of it or nothing: RunSelect and RunCommit or RunRaises.             *)
(* write_schedule reads the row without a lock and updates the columns     *)
(* whose value differs from what it read: EditRead and EditWrite.          *)
(***************************************************************************)
EXTENDS Integers, FiniteSets, Null

CONSTANTS
  Schedules,   \* schedules that may be created
  Workers,     \* worker processes
  Editors,     \* API sessions that may be editing at once
  Periods,     \* cron expressions, as the distance of their due times
  Tasks,       \* task types
  Payloads,    \* payloads
  Fits,        \* <<task type, payload>>: _validated_payload accepts it
  Limit,       \* schedules started by one call
  MaxTime,     \* bound on the clock
  MaxCrashes   \* bound on worker crashes

ASSUME ScheduleAssumption ==
  /\ Periods \subseteq Nat \ {0}
  /\ Fits \subseteq Tasks \X Payloads
  /\ Limit \in Nat \ {0}
  /\ MaxTime \in Nat /\ MaxCrashes \in Nat

VARIABLES
  now,
  row,      \* the schedules table
  gone,     \* schedules that were deleted
  jobs,     \* idempotency keys of the jobs started: <<schedule, due time>>
  started,  \* how many jobs were started for a schedule
  up,       \* worker processes that are running
  batch,    \* schedules a worker has locked in run_due_schedules
  current,  \* the time at which it began
  crashes,
  edit      \* write_schedule calls between their read and their write

vars == <<now, row, gone, jobs, started, up, batch, current, crashes, edit>>

Row == [task: Tasks, payload: Payloads, period: Periods, enabled: BOOLEAN, next: Nat]

\* NULL is not a row.
ASSUME NoneIsNoRow == None \notin Row

\* Mutants: the due time before t; the due time itself counts as a later one.
NextRunPrevious(p, t) == t - (t % p) - p

NextRunInclusive(p, t) == t + ((p - (t % p)) % p)

\* next_schedule_run: the first due time of the expression after t.
NextRun(p, t) == t - (t % p) + p

Locked(s) == \E w \in Workers : s \in batch[w]

Due(s) == row[s] # None /\ row[s].enabled /\ row[s].next <= now

-----------------------------------------------------------------------------
(* The API                                                                 *)

\* Mutant: the payload is not validated.
RequestUnchecked(r) == r.next = NextRun(r.period, now)

\* What write_schedule stores for a request it accepts.
Request(r) == <<r.task, r.payload>> \in Fits /\ r.next = NextRun(r.period, now)

CreateSchedule(s) ==
  /\ row[s] = None /\ s \notin gone
  /\ \E t \in Tasks, p \in Payloads, c \in Periods, b \in BOOLEAN :
       LET r == [task |-> t, payload |-> p, period |-> c, enabled |-> b,
                 next |-> NextRun(c, now)] IN
         Request(r) /\ row' = [row EXCEPT ![s] = r]
  /\ UNCHANGED <<now, gone, jobs, started, up, batch, current, crashes, edit>>

EditRead(e, s) ==
  /\ edit[e] = None /\ row[s] # None
  /\ \E t \in Tasks, p \in Payloads, c \in Periods, b \in BOOLEAN :
       LET r == [task |-> t, payload |-> p, period |-> c, enabled |-> b,
                 next |-> NextRun(c, now)] IN
         /\ Request(r)
         /\ edit' = [edit EXCEPT ![e] = [schedule |-> s, loaded |-> row[s], new |-> r]]
  /\ UNCHANGED <<now, row, gone, jobs, started, up, batch, current, crashes>>

\* The UPDATE of the flush: attributes set to the value they had are left out.
Changed(old, loaded, new) == IF new = loaded THEN old ELSE new

Merge(r, loaded, new) ==
  [task    |-> Changed(r.task, loaded.task, new.task),
   payload |-> Changed(r.payload, loaded.payload, new.payload),
   period  |-> Changed(r.period, loaded.period, new.period),
   enabled |-> Changed(r.enabled, loaded.enabled, new.enabled),
   next    |-> Changed(r.next, loaded.next, new.next)]

\* Mutant: the UPDATE does not wait for the row's lock.
EditWriteUnlocked(e) ==
  /\ edit[e] # None
  /\ LET s == edit[e].schedule IN
       row' = [row EXCEPT ![s] = IF @ = None THEN None
                                 ELSE Merge(@, edit[e].loaded, edit[e].new)]
  /\ edit' = [edit EXCEPT ![e] = None]
  /\ UNCHANGED <<now, gone, jobs, started, up, batch, current, crashes>>

\* An edit of a schedule that was deleted meanwhile fails.
EditWrite(e) ==
  /\ edit[e] # None
  /\ LET s == edit[e].schedule IN
       /\ ~Locked(s)
       /\ row' = [row EXCEPT ![s] = IF @ = None THEN None
                                    ELSE Merge(@, edit[e].loaded, edit[e].new)]
  /\ edit' = [edit EXCEPT ![e] = None]
  /\ UNCHANGED <<now, gone, jobs, started, up, batch, current, crashes>>

DeleteSchedule(s) ==
  /\ row[s] # None /\ ~Locked(s)
  /\ row' = [row EXCEPT ![s] = None]
  /\ gone' = gone \cup {s}
  /\ UNCHANGED <<now, jobs, started, up, batch, current, crashes, edit>>

-----------------------------------------------------------------------------
(* The workers                                                             *)

\* The earliest Limit due schedules no other worker has locked.
RunSelect(w) ==
  /\ up[w] /\ batch[w] = {}
  /\ LET Free == {s \in Schedules : Due(s) /\ ~Locked(s)} IN
       \E S \in (SUBSET Free) \ {{}} :
         /\ S = Free \/ Cardinality(S) = Limit
         /\ Cardinality(S) <= Limit
         /\ \A s \in S, t \in Free \ S : row[s].next <= row[t].next
         /\ batch' = [batch EXCEPT ![w] = S]
  /\ current' = [current EXCEPT ![w] = now]
  /\ UNCHANGED <<now, row, gone, jobs, started, up, crashes, edit>>

Valid(s) == <<row[s].task, row[s].payload>> \in Fits

\* Mutant: the idempotency key is not looked up.
NewKeyIgnored(s) == TRUE

\* create_*_job(commit=False) returns the job that has the key, if any.
NewKey(s) == <<s, row[s].next>> \notin jobs

\* Every schedule of the batch has its job and its next due time.
RunCommit(w) ==
  /\ batch[w] # {} /\ \A s \in batch[w] : Valid(s)
  /\ jobs' = jobs \cup {<<s, row[s].next>> : s \in batch[w]}
  /\ started' = [s \in Schedules |->
                   IF s \in batch[w] /\ NewKey(s) THEN started[s] + 1 ELSE started[s]]
  /\ row' = [s \in Schedules |->
               IF s \in batch[w]
               THEN [row[s] EXCEPT !.next = NextRun(row[s].period, current[w])] ELSE row[s]]
  /\ batch' = [batch EXCEPT ![w] = {}]
  /\ UNCHANGED <<now, gone, up, current, crashes, edit>>

\* One payload is not accepted: nothing of the batch is committed, and the
\* error ends run_once and run_forever.
RunRaises(w) ==
  /\ \E s \in batch[w] : ~Valid(s)
  /\ batch' = [batch EXCEPT ![w] = {}]
  /\ up' = [up EXCEPT ![w] = FALSE]
  /\ UNCHANGED <<now, row, gone, jobs, started, current, crashes, edit>>

Crash(w) ==
  /\ up[w] /\ crashes < MaxCrashes
  /\ crashes' = crashes + 1
  /\ batch' = [batch EXCEPT ![w] = {}]
  /\ up' = [up EXCEPT ![w] = FALSE]
  /\ UNCHANGED <<now, row, gone, jobs, started, current, edit>>

Restart(w) ==
  /\ ~up[w]
  /\ up' = [up EXCEPT ![w] = TRUE]
  /\ UNCHANGED <<now, row, gone, jobs, started, batch, current, crashes, edit>>

Tick ==
  /\ now < MaxTime
  /\ now' = now + 1
  /\ UNCHANGED <<row, gone, jobs, started, up, batch, current, crashes, edit>>

-----------------------------------------------------------------------------
Init ==
  /\ now = 0
  /\ row = [s \in Schedules |-> None]
  /\ gone = {}
  /\ jobs = {}
  /\ started = [s \in Schedules |-> 0]
  /\ up = [w \in Workers |-> TRUE]
  /\ batch = [w \in Workers |-> {}]
  /\ current = [w \in Workers |-> 0]
  /\ crashes = 0
  /\ edit = [e \in Editors |-> None]

RunOnce(w) == RunSelect(w) \/ RunCommit(w) \/ RunRaises(w) \/ Restart(w)

Next ==
  \/ \E s \in Schedules : CreateSchedule(s) \/ DeleteSchedule(s)
  \/ \E e \in Editors, s \in Schedules : EditRead(e, s)
  \/ \E e \in Editors : EditWrite(e)
  \/ \E w \in Workers : RunOnce(w) \/ Crash(w)
  \/ Tick

Spec == Init /\ [][Next]_vars

\* run_forever polls, and a worker that ended is started again.
FairSpec == Spec /\ \A w \in Workers : WF_vars(RunOnce(w))

-----------------------------------------------------------------------------
(* Properties                                                              *)

TypeOK ==
  /\ now \in 0..MaxTime
  /\ row \in [Schedules -> Row \cup {None}]
  /\ gone \subseteq Schedules
  /\ jobs \subseteq Schedules \X Nat
  /\ started \in [Schedules -> Nat]
  /\ up \in [Workers -> BOOLEAN]
  /\ batch \in [Workers -> SUBSET Schedules]
  /\ current \in [Workers -> 0..MaxTime]
  /\ crashes \in 0..MaxCrashes
  /\ edit \in [Editors -> [schedule: Schedules, loaded: Row, new: Row] \cup {None}]

\* A worker starts jobs for schedules that still exist, are still enabled and
\* are still due when it commits, and for no schedule of another worker: edits
\* and deletions wait for its locks.
BatchIsDue ==
  \A w \in Workers : \A s \in batch[w] :
    /\ row[s] # None /\ row[s].enabled /\ row[s].next <= current[w]
    /\ \A v \in Workers \ {w} : s \notin batch[v]

\* One due time of a schedule starts one job, although a slow edit may put a
\* due time back that was already started.
OneJobPerDueTime ==
  \A s \in Schedules : started[s] = Cardinality({j \in jobs : j[1] = s})

\* No stored schedule has a payload that its task type refuses, so that
\* run_due_schedules does not raise.
StoredPayloadFits == \A s \in Schedules : row[s] # None => Valid(s)

\* A due schedule is started, disabled, moved or deleted, although workers
\* crash.
DueSchedulesRun == \A s \in Schedules : Due(s) ~> ~Due(s)
=============================================================================
