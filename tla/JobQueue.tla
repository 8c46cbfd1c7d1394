------------------------------ MODULE JobQueue ------------------------------
(***************************************************************************)
(* The persistent job queue: jobs and job_items rows in PostgreSQL (READ   *)
(* COMMITTED), worker processes that loop over run_once, and HTTP clients  *)
(* that create, cancel, pause and resume jobs.                             *)
(*                                                                         *)
(* A transaction whose reads all happen under the row locks it writes with *)
(* is one action.  One that reads first and writes later is split where    *)
(* another session may get in between: the row locks it holds are in lock, *)
(* what it read is in hits, seen, work, att or call, and its writes become *)
(* visible in the action that commits it.                                  *)
(***************************************************************************)
EXTENDS Integers, FiniteSets, Null

CONSTANTS
  Jobs,         \* jobs that may be created
  Items,        \* job items that may be created
  JobOf,        \* the job of each item
  Workers,      \* worker processes
  IdOf,         \* the SEM_WORKER_ID each worker runs with
  Clients,      \* HTTP clients of the jobs API
  Requests,     \* the requests these clients make
  MaxAttempts,  \* job_items.max_attempts
  MaxCrashes    \* bound on worker crashes

ASSUME QueueAssumption ==
  /\ JobOf \in [Items -> Jobs]
  /\ IsFiniteSet(Items)
  /\ None \notin Items \cup Workers
  /\ \A w \in Workers : IdOf[w] # None
  /\ Requests \subseteq {"cancel", "pause", "resume"}
  /\ MaxAttempts \in Nat \ {0}
  /\ MaxCrashes \in Nat

VARIABLES
  \* jobs
  jobStatus,  \* "absent" until the job is created
  cancelReq,  \* cancel_requested_at is set
  started,    \* started_at is set
  tally,      \* succeeded_count, failed_count, skipped_count
  \* job_items
  status,     \* "absent" until the item is created
  attempts,   \* attempt_count
  owner,      \* lease_owner
  lapsed,     \* lease_expires_at has passed
  due,        \* run_after is NULL or has passed
  \* worker processes and their open transactions
  pc,         \* the point of run_once a worker has reached
  lock,       \* the open transaction that holds the item's row lock
  work, att,  \* the LeasedJobItem in hand: its id and attempt_count
  hits,       \* rows a scan found: <<item, attempt_count>>
  seen,       \* job ids a scan found
  crashes,
  \* HTTP requests in progress
  call

jobVars    == <<jobStatus, cancelReq, started, tally>>
itemVars   == <<status, attempts, owner, lapsed, due>>
workerVars == <<pc, lock, work, att, hits, seen, crashes>>
vars       == <<jobVars, itemVars, workerVars, call>>

-----------------------------------------------------------------------------
(* Statuses.  LEASED is in the schema but no statement ever writes it.     *)

Terminal   == {"completed", "partial", "failed", "cancelled"}
JobStatus  == Terminal \cup {"absent", "queued", "running", "pausing",
                             "paused", "cancelling"}
Waiting    == {"pending", "retry_wait"}
Unfinished == Waiting \cup {"running"}
Final      == {"succeeded", "failed", "skipped", "cancelled"}
ItemStatus == Unfinished \cup Final \cup {"absent"}
PCs        == {"recover", "recovering", "recovered", "cancel", "cancelling",
               "cancelled", "refreshing", "finalize", "lease", "leasing",
               "run", "failing", "down"}

ItemsOf(j) == {i \in Items : JobOf[i] = j}
Held(w)    == {i \in Items : lock[i] = w}

InState(st, j, S) == {i \in ItemsOf(j) : st[i] \in S}

\* The three counts _refresh_job_summary stores.
Tally(st, j) == [succeeded |-> Cardinality(InState(st, j, {"succeeded"})),
                 failed    |-> Cardinality(InState(st, j, {"failed"})),
                 skipped   |-> Cardinality(InState(st, j, {"skipped"}))]

\* Mutant: items that were skipped do not make a job partial.
VerdictForgetsSkipped(st, j) ==
  IF cancelReq[j] THEN "cancelled"
  ELSE IF InState(st, j, {"failed"}) = {} THEN "completed"
  ELSE IF InState(st, j, {"succeeded"}) # {} THEN "partial"
  ELSE "failed"

\* The status it gives a job that has no unfinished item; cancelled items
\* are in none of the counts.
Verdict(st, j) ==
  IF cancelReq[j] THEN "cancelled"
  ELSE IF InState(st, j, {"failed"}) = {} THEN "completed"
  ELSE IF InState(st, j, {"succeeded", "skipped"}) # {} THEN "partial"
  ELSE "failed"

\* Mutants: retry_wait is not counted as unfinished; the counts are taken
\* before the transaction's own writes are flushed.
RefreshForgetsRetries(J) ==
  /\ tally' = [j \in Jobs |-> IF j \in J THEN Tally(status', j) ELSE tally[j]]
  /\ jobStatus' = [j \in Jobs |->
       IF j \in J /\ InState(status', j, {"pending", "running"}) = {}
       THEN Verdict(status', j) ELSE jobStatus[j]]
  /\ UNCHANGED <<cancelReq, started>>

RefreshBeforeFlush(J) ==
  /\ tally' = [j \in Jobs |-> IF j \in J THEN Tally(status, j) ELSE tally[j]]
  /\ jobStatus' = [j \in Jobs |->
       IF j \in J /\ InState(status', j, Unfinished) = {}
       THEN Verdict(status', j) ELSE jobStatus[j]]
  /\ UNCHANGED <<cancelReq, started>>

\* _refresh_job_summary for each job of J, with its row locked.  It counts
\* the committed items and the writes of its own transaction: status'.
RefreshJobs(J) ==
  /\ tally' = [j \in Jobs |-> IF j \in J THEN Tally(status', j) ELSE tally[j]]
  /\ jobStatus' = [j \in Jobs |->
       IF j \in J /\ InState(status', j, Unfinished) = {}
       THEN Verdict(status', j) ELSE jobStatus[j]]
  /\ UNCHANGED <<cancelReq, started>>

\* Mutant: lease_owner is not reset.
ReleaseKeepsOwner(S) ==
  /\ owner' = owner
  /\ lapsed' = [i \in Items |-> IF i \in S THEN FALSE ELSE lapsed[i]]

\* lease_owner and lease_expires_at become NULL.
ReleaseLeases(S) ==
  /\ owner'  = [i \in Items |-> IF i \in S THEN None ELSE owner[i]]
  /\ lapsed' = [i \in Items |-> IF i \in S THEN FALSE ELSE lapsed[i]]

-----------------------------------------------------------------------------
(* The API: job creation.  Scope selection is any subset of the items.     *)

CreateJob(j) ==
  /\ jobStatus[j] = "absent"
  /\ \E S \in SUBSET ItemsOf(j) :
       /\ status' = [i \in Items |-> IF i \in S THEN "pending" ELSE status[i]]
       /\ jobStatus' = [jobStatus EXCEPT
                          ![j] = IF S = {} THEN "completed" ELSE "queued"]
       /\ started' = [started EXCEPT ![j] = (S = {})]
  /\ UNCHANGED <<cancelReq, tally, attempts, owner, lapsed, due, workerVars, call>>

\* get_job_or_404 and the early returns.  The row is read without a lock.
Accepts(r, s) ==
  CASE r = "cancel" -> s \notin Terminal
    [] r = "pause"  -> s \notin Terminal \cup {"paused", "cancelling"}
    [] r = "resume" -> s = "paused"

ApiRead(c) ==
  /\ call[c] = None
  /\ \E r \in Requests, j \in Jobs :
       /\ jobStatus[j] # "absent"
       /\ Accepts(r, jobStatus[j])
       /\ call' = [call EXCEPT ![c] =
            [op |-> r, job |-> j, loaded |-> jobStatus[j], started |-> started[j]]]
  /\ UNCHANGED <<jobVars, itemVars, workerVars>>

\* The status each request assigns.
Requested(q) ==
  CASE q.op = "cancel" -> "cancelling"
    [] q.op = "pause"  -> "pausing"
    [] q.op = "resume" -> IF q.started THEN "running" ELSE "queued"

\* The commit.  The ORM writes the columns whose value differs from the one
\* it loaded, whatever the row holds by now.
ApiWrite(c) ==
  /\ call[c] # None
  /\ LET q == call[c] IN
       /\ jobStatus' = IF Requested(q) # q.loaded
                       THEN [jobStatus EXCEPT ![q.job] = Requested(q)]
                       ELSE jobStatus
       /\ cancelReq' = IF q.op = "cancel"
                       THEN [cancelReq EXCEPT ![q.job] = TRUE] ELSE cancelReq
  /\ call' = [call EXCEPT ![c] = None]
  /\ UNCHANGED <<started, tally, itemVars, workerVars>>

-----------------------------------------------------------------------------
(* recover_expired_leases                                                  *)

Expired(i) == status[i] = "running" /\ lapsed[i]

\* A new run_once: no lease in hand, and the SELECT of the affected jobs.
RecoverScan(w) ==
  /\ pc[w] = "recover"
  /\ LET found == {<<i, attempts[i]>> : i \in {k \in Items : Expired(k)}} IN
       /\ hits' = [hits EXCEPT ![w] = found]
       /\ pc' = [pc EXCEPT ![w] = IF found = {} THEN "cancel" ELSE "recovering"]
  /\ work' = [work EXCEPT ![w] = None]
  /\ att' = [att EXCEPT ![w] = 0]
  /\ UNCHANGED <<jobVars, itemVars, lock, seen, crashes, call>>

\* Mutant: the UPDATE goes by the ids the SELECT found.
FoundExpired(w) == {i \in Items : \E h \in hits[w] : h[1] = i}

\* The leases the UPDATE still matches.  now() is the start of the
\* transaction, so a lease taken since the SELECT is never among them.
StillExpired(w) == {i \in Items : Expired(i) /\ <<i, attempts[i]>> \in hits[w]}

\* The UPDATE takes the row locks, after any transaction that holds one.
RecoverUpdate(w) ==
  /\ pc[w] = "recovering"
  /\ \A i \in StillExpired(w) : lock[i] = None
  /\ lock' = [i \in Items |-> IF i \in StillExpired(w) THEN w ELSE lock[i]]
  /\ pc' = [pc EXCEPT ![w] = "recovered"]
  /\ UNCHANGED <<jobVars, itemVars, work, att, hits, seen, crashes, call>>

\* Mutants: a status of jobs instead of items; one attempt too many.
RecoveredAsQueued(i) == IF attempts[i] >= MaxAttempts THEN "failed" ELSE "queued"
RecoveredOnceMore(i) == IF attempts[i] > MaxAttempts THEN "failed" ELSE "pending"

\* The item fails for good or goes back to the queue.
Recovered(i) == IF attempts[i] >= MaxAttempts THEN "failed" ELSE "pending"

\* The summaries of the jobs the SELECT named, then the commit.
RecoverCommit(w) ==
  /\ pc[w] = "recovered"
  /\ status' = [i \in Items |-> IF i \in Held(w) THEN Recovered(i) ELSE status[i]]
  /\ ReleaseLeases(Held(w))
  /\ RefreshJobs({JobOf[h[1]] : h \in hits[w]})
  /\ lock' = [i \in Items |-> IF i \in Held(w) THEN None ELSE lock[i]]
  /\ hits' = [hits EXCEPT ![w] = {}]
  /\ pc' = [pc EXCEPT ![w] = "cancel"]
  /\ UNCHANGED <<attempts, due, work, att, seen, crashes, call>>

-----------------------------------------------------------------------------
(* cancel_pending_items                                                    *)

\* The snapshot of the UPDATE: the waiting items of the cancelling jobs.
CancelScan(w) ==
  /\ pc[w] = "cancel"
  /\ LET found == {<<i, attempts[i]>> : i \in {k \in Items :
                      status[k] \in Waiting /\ jobStatus[JobOf[k]] = "cancelling"}}
     IN /\ hits' = [hits EXCEPT ![w] = found]
        /\ pc' = [pc EXCEPT ![w] = IF found = {} THEN "cancelled" ELSE "cancelling"]
  /\ UNCHANGED <<jobVars, itemVars, lock, work, att, seen, crashes, call>>

\* Mutants: the status is not looked at again; items waiting for a retry are
\* left out.
FoundWaiting(w) == {i \in Items : \E h \in hits[w] : h[1] = i}
StillPending(w) == {i \in Items : status[i] = "pending" /\ \E h \in hits[w] : h[1] = i}

\* Once it has the row locks it looks at the item's status again, not at the
\* job's.
StillWaiting(w) == {i \in Items : status[i] \in Waiting /\ \E h \in hits[w] : h[1] = i}

CancelUpdate(w) ==
  /\ pc[w] = "cancelling"
  /\ \A i \in StillWaiting(w) : lock[i] = None
  /\ lock' = [i \in Items |-> IF i \in StillWaiting(w) THEN w ELSE lock[i]]
  /\ hits' = [hits EXCEPT ![w] = {}]
  /\ pc' = [pc EXCEPT ![w] = "cancelled"]
  /\ UNCHANGED <<jobVars, itemVars, work, att, seen, crashes, call>>

\* The second SELECT: which jobs are cancelling by now.
CancelSelect(w) ==
  /\ pc[w] = "cancelled"
  /\ LET found == {j \in Jobs : jobStatus[j] = "cancelling"} IN
       /\ seen' = [seen EXCEPT ![w] = found]
       /\ pc' = [pc EXCEPT ![w] = IF found = {} /\ Held(w) = {}
                                  THEN "finalize" ELSE "refreshing"]
  /\ UNCHANGED <<jobVars, itemVars, lock, work, att, hits, crashes, call>>

CancelCommit(w) ==
  /\ pc[w] = "refreshing"
  /\ status' = [i \in Items |-> IF i \in Held(w) THEN "cancelled" ELSE status[i]]
  /\ RefreshJobs(seen[w])
  /\ lock' = [i \in Items |-> IF i \in Held(w) THEN None ELSE lock[i]]
  /\ seen' = [seen EXCEPT ![w] = {}]
  /\ pc' = [pc EXCEPT ![w] = "finalize"]
  /\ UNCHANGED <<attempts, owner, lapsed, due, work, att, hits, crashes, call>>

-----------------------------------------------------------------------------
(* finalize_pausing_jobs                                                   *)

\* Some other session may hold the job's row lock just now.
Contended(w, j) ==
  \/ \E v \in Workers \ {w} :
       \/ pc[v] \in {"leasing", "run", "failing"} /\ JobOf[work[v]] = j
       \/ pc[v] = "recovered" /\ \E h \in hits[v] : JobOf[h[1]] = j
       \/ pc[v] = "refreshing" /\ j \in seen[v]
  \/ \E c \in Clients : call[c] # None /\ call[c].job = j

\* Mutant: a pause waits for every item, not only for the running ones.
NothingLeft(j) == InState(status, j, Unfinished) = {}

\* No item of the job is running, as far as committed rows tell.
NothingRuns(j) == InState(status, j, {"running"}) = {}

\* SKIP LOCKED passes over any set of contended jobs.
FinalizePausing(w) ==
  /\ pc[w] = "finalize"
  /\ \E skipped \in SUBSET {j \in Jobs : Contended(w, j)} :
       jobStatus' = [j \in Jobs |->
         IF jobStatus[j] = "pausing" /\ j \notin skipped /\ NothingRuns(j)
         THEN "paused" ELSE jobStatus[j]]
  /\ pc' = [pc EXCEPT ![w] = "lease"]
  /\ UNCHANGED <<cancelReq, started, tally, itemVars, lock, work, att, hits, seen,
                 crashes, call>>

-----------------------------------------------------------------------------
(* lease_next_item                                                         *)

\* Mutant: only pending items are candidates.
LeasablePending(i) ==
  /\ status[i] = "pending"
  /\ due[i]
  /\ jobStatus[JobOf[i]] \in {"queued", "running"}
  /\ ~cancelReq[JobOf[i]]
  /\ lock[i] = None

\* The candidate query.  Which candidate comes first (priority, created_at)
\* is left open.
Leasable(i) ==
  /\ status[i] \in Waiting
  /\ due[i]
  /\ jobStatus[JobOf[i]] \in {"queued", "running"}
  /\ ~cancelReq[JobOf[i]]
  /\ lock[i] = None

\* LEASE_SQL: the item's row is locked, the job's is not.
LeaseSelect(w) ==
  /\ pc[w] = "lease"
  /\ \E i \in Items :
       /\ Leasable(i)
       /\ lock' = [lock EXCEPT ![i] = w]
       /\ work' = [work EXCEPT ![w] = i]
       /\ att' = [att EXCEPT ![w] = attempts[i] + 1]
  /\ pc' = [pc EXCEPT ![w] = "leasing"]
  /\ UNCHANGED <<jobVars, itemVars, hits, seen, crashes, call>>

LeaseNone(w) ==
  /\ pc[w] = "lease"
  /\ ~\E i \in Items : Leasable(i)
  /\ pc' = [pc EXCEPT ![w] = "recover"]
  /\ UNCHANGED <<jobVars, itemVars, lock, work, att, hits, seen, crashes, call>>

\* The job's row is locked, a queued job starts, the lease is committed.
\* Neither a pause nor a cancellation is looked at again.
LeaseCommit(w) ==
  /\ pc[w] = "leasing"
  /\ LET i == work[w]
         j == JobOf[work[w]]
     IN /\ status' = [status EXCEPT ![i] = "running"]
        /\ owner' = [owner EXCEPT ![i] = IdOf[w]]
        /\ lapsed' = [lapsed EXCEPT ![i] = FALSE]
        /\ attempts' = [attempts EXCEPT ![i] = att[w]]
        /\ lock' = [lock EXCEPT ![i] = None]
        /\ jobStatus' = IF jobStatus[j] = "queued"
                        THEN [jobStatus EXCEPT ![j] = "running"] ELSE jobStatus
        /\ started' = IF jobStatus[j] = "queued"
                      THEN [started EXCEPT ![j] = TRUE] ELSE started
  /\ pc' = [pc EXCEPT ![w] = "run"]
  /\ UNCHANGED <<cancelReq, tally, due, work, att, hits, seen, crashes, call>>

-----------------------------------------------------------------------------
(* The handler, finish_item and retry_item                                 *)

\* The item's row can be locked and lease_owner is still this worker's id.
OwnsLease(w) == lock[work[w]] = None /\ owner[work[w]] = IdOf[w]

\* finish_item: the item and the summary of its job, in one transaction.
SettleItem(w, s) ==
  /\ OwnsLease(w)
  /\ status' = [status EXCEPT ![work[w]] = s]
  /\ ReleaseLeases({work[w]})
  /\ RefreshJobs({JobOf[work[w]]})
  /\ pc' = [pc EXCEPT ![w] = "recover"]
  /\ UNCHANGED <<attempts, due, lock, work, att, hits, seen, crashes, call>>

FinishItem(w) ==
  /\ pc[w] = "run"
  /\ \E s \in {"succeeded", "failed", "skipped"} : SettleItem(w, s)

\* The handler raises, on its own or because finish_item or retry_item saw
\* another lease_owner; run_once rolls back and calls retry_item.
HandlerRaises(w) ==
  /\ pc[w] = "run"
  /\ pc' = [pc EXCEPT ![w] = "failing"]
  /\ UNCHANGED <<jobVars, itemVars, lock, work, att, hits, seen, crashes, call>>

\* retry_item, called by the handler or by run_once: the last attempt fails
\* the item, any other one schedules it again.
GiveUp(w) ==
  /\ pc[w] \in {"run", "failing"}
  /\ att[w] >= MaxAttempts
  /\ SettleItem(w, "failed")

RetryLater(w) ==
  /\ pc[w] \in {"run", "failing"}
  /\ att[w] < MaxAttempts
  /\ OwnsLease(w)
  /\ status' = [status EXCEPT ![work[w]] = "retry_wait"]
  /\ due' = [due EXCEPT ![work[w]] = FALSE]
  /\ ReleaseLeases({work[w]})
  /\ pc' = [pc EXCEPT ![w] = "recover"]
  /\ UNCHANGED <<jobVars, attempts, lock, work, att, hits, seen, crashes, call>>

\* "Lease ownership changed": the error leaves run_forever, the process ends.
LeaseLost(w) ==
  /\ pc[w] = "failing"
  /\ lock[work[w]] = None
  /\ owner[work[w]] # IdOf[w]
  /\ pc' = [pc EXCEPT ![w] = "down"]
  /\ UNCHANGED <<jobVars, itemVars, lock, work, att, hits, seen, crashes, call>>

-----------------------------------------------------------------------------
(* Crashes, restarts and the clock                                         *)

\* The process dies; PostgreSQL rolls its open transaction back.
Crash(w) ==
  /\ pc[w] # "down"
  /\ crashes < MaxCrashes
  /\ crashes' = crashes + 1
  /\ lock' = [i \in Items |-> IF i \in Held(w) THEN None ELSE lock[i]]
  /\ hits' = [hits EXCEPT ![w] = {}]
  /\ seen' = [seen EXCEPT ![w] = {}]
  /\ pc' = [pc EXCEPT ![w] = "down"]
  /\ UNCHANGED <<jobVars, itemVars, work, att, call>>

\* The container's restart policy.
Restart(w) ==
  /\ pc[w] = "down"
  /\ pc' = [pc EXCEPT ![w] = "recover"]
  /\ UNCHANGED <<jobVars, itemVars, lock, work, att, hits, seen, crashes, call>>

LeaseExpires(i) ==
  /\ status[i] = "running"
  /\ ~lapsed[i]
  /\ lapsed' = [lapsed EXCEPT ![i] = TRUE]
  /\ UNCHANGED <<jobVars, status, attempts, owner, due, workerVars, call>>

BackoffElapses(i) ==
  /\ ~due[i]
  /\ due' = [due EXCEPT ![i] = TRUE]
  /\ UNCHANGED <<jobVars, status, attempts, owner, lapsed, workerVars, call>>

-----------------------------------------------------------------------------
Init ==
  /\ jobStatus = [j \in Jobs |-> "absent"]
  /\ cancelReq = [j \in Jobs |-> FALSE]
  /\ started = [j \in Jobs |-> FALSE]
  /\ tally = [j \in Jobs |-> [succeeded |-> 0, failed |-> 0, skipped |-> 0]]
  /\ status = [i \in Items |-> "absent"]
  /\ attempts = [i \in Items |-> 0]
  /\ owner = [i \in Items |-> None]
  /\ lapsed = [i \in Items |-> FALSE]
  /\ due = [i \in Items |-> TRUE]
  /\ pc = [w \in Workers |-> "recover"]
  /\ lock = [i \in Items |-> None]
  /\ work = [w \in Workers |-> None]
  /\ att = [w \in Workers |-> 0]
  /\ hits = [w \in Workers |-> {}]
  /\ seen = [w \in Workers |-> {}]
  /\ crashes = 0
  /\ call = [c \in Clients |-> None]

\* One step of run_once, run by run_forever.
RunOnce(w) ==
  \/ RecoverScan(w) \/ RecoverUpdate(w) \/ RecoverCommit(w)
  \/ CancelScan(w) \/ CancelUpdate(w) \/ CancelSelect(w) \/ CancelCommit(w)
  \/ FinalizePausing(w)
  \/ LeaseSelect(w) \/ LeaseNone(w) \/ LeaseCommit(w)
  \/ FinishItem(w) \/ HandlerRaises(w) \/ GiveUp(w) \/ RetryLater(w) \/ LeaseLost(w)

Next ==
  \/ \E j \in Jobs : CreateJob(j)
  \/ \E c \in Clients : ApiRead(c) \/ ApiWrite(c)
  \/ \E w \in Workers : RunOnce(w) \/ Crash(w) \/ Restart(w)
  \/ \E i \in Items : LeaseExpires(i) \/ BackoffElapses(i)

Spec == Init /\ [][Next]_vars

\* Workers poll for ever, handlers end (every provider call has a timeout),
\* an accepted request commits, the clock advances, a dead worker restarts.
Fairness ==
  /\ \A w \in Workers : WF_vars(RunOnce(w)) /\ WF_vars(Restart(w))
  /\ \A c \in Clients : WF_vars(ApiWrite(c))
  /\ \A i \in Items : WF_vars(LeaseExpires(i)) /\ WF_vars(BackoffElapses(i))

FairSpec == Spec /\ Fairness

-----------------------------------------------------------------------------
(* Properties                                                              *)

\* Every column and every local of the workers and clients has its type.
TypeOK ==
  /\ jobStatus \in [Jobs -> JobStatus]
  /\ cancelReq \in [Jobs -> BOOLEAN]
  /\ started \in [Jobs -> BOOLEAN]
  /\ tally \in [Jobs -> [succeeded : Nat, failed : Nat, skipped : Nat]]
  /\ status \in [Items -> ItemStatus]
  /\ attempts \in [Items -> Nat]
  /\ owner \in [Items -> {IdOf[w] : w \in Workers} \cup {None}]
  /\ lapsed \in [Items -> BOOLEAN]
  /\ due \in [Items -> BOOLEAN]
  /\ pc \in [Workers -> PCs]
  /\ lock \in [Items -> Workers \cup {None}]
  /\ work \in [Workers -> Items \cup {None}]
  /\ att \in [Workers -> Nat]
  /\ hits \in [Workers -> SUBSET (Items \X Nat)]
  /\ seen \in [Workers -> SUBSET Jobs]
  /\ crashes \in Nat
  /\ call \in [Clients -> {None} \cup
       [op : Requests, job : Jobs, loaded : JobStatus, started : BOOLEAN]]

\* Two worker processes never share a SEM_WORKER_ID.
DistinctIds == \A v, w \in Workers : IdOf[v] = IdOf[w] => v = w

\* What a transaction found about the rows it locked is still true when it
\* commits, in whatever order the other sessions run.
LockDiscipline ==
  /\ \A w \in Workers, i \in Items :
       lock[i] = w =>
         \/ /\ pc[w] = "leasing"
            /\ i = work[w] /\ status[i] \in Waiting /\ att[w] = attempts[i] + 1
         \/ pc[w] = "recovered" /\ Expired(i) /\ <<i, attempts[i]>> \in hits[w]
         \/ pc[w] \in {"cancelled", "refreshing"} /\ status[i] \in Waiting
  /\ \A w \in Workers :
       /\ pc[w] = "leasing" => work[w] \in Items /\ lock[work[w]] = w
       /\ pc[w] \in {"run", "failing"} => work[w] \in Items

\* An item has an owner exactly while it is running.
LeaseRecorded == \A i \in Items : status[i] = "running" <=> owner[i] # None

\* The owner check of finish_item and retry_item fences late workers: when it
\* lets a worker write, the item still runs the very attempt this worker was
\* given, however often the lease has expired and moved since.
LeaseFencing ==
  \A w \in Workers :
    pc[w] \in {"run", "failing"} /\ owner[work[w]] = IdOf[w]
      => status[work[w]] = "running" /\ attempts[work[w]] = att[w]

\* An item waits to be leased only while it has attempts left; retry_item
\* judges by the lease's attempt_count, recovery by the row's.
AttemptBudget ==
  \A i \in Items : /\ attempts[i] <= MaxAttempts
                   /\ status[i] \in Waiting => attempts[i] < MaxAttempts

\* A job is reported finished only when none of its items can still run,
\* whichever of finish_item, recovery and cancellation counted them.
TerminalJobSettled ==
  \A j \in Jobs : jobStatus[j] \in Terminal => InState(status, j, Unfinished) = {}

\* The status of a finished job says what happened to its items: cancelled
\* exactly when a cancellation was recorded, else by the outcomes.
VerdictHonest ==
  \A j \in Jobs :
    LET bad  == InState(status, j, {"failed"})
        good == InState(status, j, {"succeeded", "skipped"})
    IN /\ jobStatus[j] = "cancelled" => cancelReq[j]
       /\ jobStatus[j] \in Terminal \ {"cancelled"} => ~cancelReq[j]
       /\ jobStatus[j] = "completed" => bad = {}
       /\ jobStatus[j] = "partial" => bad # {} /\ good # {}
       /\ jobStatus[j] = "failed" => bad # {} /\ good = {}

\* The three counts of a job always agree with its committed items, although
\* several transactions settle items of one job and each stores its own count.
CountersExact == \A j \in Jobs : tally[j] = Tally(status, j)

\* A finished job keeps its status, even when late workers, recovery and
\* cancellation summarise it again: only a request that read the job before it
\* was finished can still overwrite it.
FinishedStaysFinished ==
  [][\A j \in Jobs : jobStatus[j] \in Terminal /\ jobStatus'[j] # jobStatus[j] =>
       \E c \in Clients : call[c] # None /\ call[c].job = j /\ call'[c] = None]_vars

\* Items live by the abstract lifecycle.
Lifecycle == INSTANCE ItemLifecycle WITH
  Budget <- MaxAttempts,
  state  <- [i \in Items |-> IF status[i] \in Waiting THEN "waiting" ELSE status[i]],
  tries  <- attempts

ImplementsLifecycle == Lifecycle!Spec

\* A cancelled job ends as cancelled, with its last running item.
CancelFinishes == \A j \in Jobs : cancelReq[j] ~> jobStatus[j] = "cancelled"

\* No request is between its read and its commit.
QuietClients == \A c \in Clients : call[c] = None

\* Every job is finished in the end, through crashes, lost leases and retries,
\* if nobody interferes with it.
EveryJobFinishes ==
  []QuietClients => \A j \in Jobs : jobStatus[j] = "queued" ~> jobStatus[j] \in Terminal

\* A pause takes effect once requests stop coming in (each of them may make
\* finalize_pausing_jobs pass over the locked job): it does not stay pausing.
PauseSettles ==
  <>[]QuietClients =>
    \A j \in Jobs : jobStatus[j] = "pausing" ~> jobStatus[j] # "pausing"

\* "A cancelling job cannot be paused."
CancellingNeverPaused ==
  \A j \in Jobs : ~(jobStatus[j] \in {"pausing", "paused"} /\ cancelReq[j])
=============================================================================
