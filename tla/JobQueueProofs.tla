--------------------------- MODULE JobQueueProofs ---------------------------
(***************************************************************************)
(* Proofs about JobQueue, for any jobs, items, workers, clients, requests  *)
(* and attempt budget: what locks promise, what the owner check of         *)
(* finish_item and retry_item is worth when every worker process has an id *)
(* of its own, and what a job reports of its items with any worker ids.    *)
(***************************************************************************)
EXTENDS JobQueue, FiniteSetTheorems, TLAPS

-----------------------------------------------------------------------------
(* Lemmas about the operators                                              *)

\* The counts of _refresh_job_summary are natural numbers.
LEMMA TallyType ==
  ASSUME NEW st, NEW j \in Jobs
  PROVE  Tally(st, j) \in [succeeded : Nat, failed : Nat, skipped : Nat]
<1>1. ASSUME NEW S PROVE Cardinality(InState(st, j, S)) \in Nat
  <2>1. InState(st, j, S) \subseteq Items
    BY DEF InState, ItemsOf
  <2>2. IsFiniteSet(InState(st, j, S))
    BY <2>1, QueueAssumption, FS_Subset
  <2> QED BY <2>2, FS_CardinalityType
<1> QED BY <1>1 DEF Tally

\* The summary gives a job one of the four final statuses.
LEMMA VerdictTerminal ==
  ASSUME NEW st, NEW j \in Jobs
  PROVE  Verdict(st, j) \in Terminal
BY DEF Verdict, Terminal

\* A summary keeps the types of the jobs' columns.
LEMMA RefreshType ==
  ASSUME TypeOK, NEW J, RefreshJobs(J)
  PROVE  /\ jobStatus' \in [Jobs -> JobStatus]
         /\ cancelReq' \in [Jobs -> BOOLEAN]
         /\ started' \in [Jobs -> BOOLEAN]
         /\ tally' \in [Jobs -> [succeeded : Nat, failed : Nat, skipped : Nat]]
<1>1. jobStatus' \in [Jobs -> JobStatus]
  BY VerdictTerminal DEF TypeOK, RefreshJobs, JobStatus
<1>2. tally' \in [Jobs -> [succeeded : Nat, failed : Nat, skipped : Nat]]
  BY TallyType DEF TypeOK, RefreshJobs
<1> QED BY <1>1, <1>2 DEF TypeOK, RefreshJobs

\* What a request asks for is a job status.
LEMMA RequestedType ==
  ASSUME NEW q \in [op : Requests, job : Jobs, loaded : JobStatus, started : BOOLEAN]
  PROVE  Requested(q) \in JobStatus
BY QueueAssumption DEF Requested, JobStatus

-----------------------------------------------------------------------------
(* Types                                                                   *)

LEMMA TypeInit == Init => TypeOK
BY DEF Init, TypeOK, JobStatus, ItemStatus, PCs

LEMMA TypeApi ==
  ASSUME TypeOK, (\E j \in Jobs : CreateJob(j)) \/ (\E c \in Clients : ApiRead(c) \/ ApiWrite(c))
  PROVE  TypeOK'
<1>1. ASSUME NEW j \in Jobs, CreateJob(j) PROVE TypeOK'
  BY <1>1 DEF TypeOK, CreateJob, workerVars, JobStatus, Terminal, ItemStatus, Unfinished, Waiting,
              ItemsOf
<1>2. ASSUME NEW c \in Clients, ApiRead(c) PROVE TypeOK'
  BY <1>2 DEF TypeOK, ApiRead, jobVars, itemVars, workerVars
<1>3. ASSUME NEW c \in Clients, ApiWrite(c) PROVE TypeOK'
  BY <1>3, RequestedType DEF TypeOK, ApiWrite, itemVars, workerVars
<1> QED BY <1>1, <1>2, <1>3

\* Releasing leases keeps the types of the lease columns.
LEMMA ReleaseType ==
  ASSUME TypeOK, NEW S, ReleaseLeases(S)
  PROVE  /\ owner' \in [Items -> {IdOf[w] : w \in Workers} \cup {None}]
         /\ lapsed' \in [Items -> BOOLEAN]
BY DEF TypeOK, ReleaseLeases

LEMMA TypeRecover ==
  ASSUME TypeOK, NEW w \in Workers,
         RecoverScan(w) \/ RecoverUpdate(w) \/ RecoverCommit(w)
  PROVE  TypeOK'
<1>1. CASE RecoverScan(w)
  <2>1. {<<i, attempts[i]>> : i \in {k \in Items : Expired(k)}} \in SUBSET (Items \X Nat)
    BY DEF TypeOK
  <2> QED BY <1>1, <2>1 DEF TypeOK, RecoverScan, jobVars, itemVars, PCs
<1>2. CASE RecoverUpdate(w)
  BY <1>2 DEF TypeOK, RecoverUpdate, jobVars, itemVars, PCs
<1>3. CASE RecoverCommit(w)
  <2>1. status' \in [Items -> ItemStatus]
    BY <1>3 DEF TypeOK, RecoverCommit, Recovered, ItemStatus, Unfinished, Waiting, Final
  <2> QED
    BY <1>3, <2>1, RefreshType, ReleaseType DEF TypeOK, RecoverCommit, PCs
<1> QED BY <1>1, <1>2, <1>3

LEMMA TypeCancel ==
  ASSUME TypeOK, NEW w \in Workers,
         CancelScan(w) \/ CancelUpdate(w) \/ CancelSelect(w) \/ CancelCommit(w)
  PROVE  TypeOK'
<1>1. CASE CancelScan(w)
  <2> DEFINE found == {<<i, attempts[i]>> : i \in {k \in Items :
                         status[k] \in Waiting /\ jobStatus[JobOf[k]] = "cancelling"}}
  <2>1. found \in SUBSET (Items \X Nat)
    BY DEF TypeOK
  <2>2. hits' = [hits EXCEPT ![w] = found]
    BY <1>1 DEF CancelScan
  <2>3. pc' \in [Workers -> PCs]
    BY <1>1 DEF TypeOK, CancelScan, PCs
  <2> HIDE DEF found
  <2> QED BY <1>1, <2>1, <2>2, <2>3 DEF TypeOK, CancelScan, jobVars, itemVars
<1>2. CASE CancelUpdate(w)
  BY <1>2 DEF TypeOK, CancelUpdate, jobVars, itemVars, PCs
<1>3. CASE CancelSelect(w)
  BY <1>3 DEF TypeOK, CancelSelect, jobVars, itemVars, PCs
<1>4. CASE CancelCommit(w)
  <2>1. status' \in [Items -> ItemStatus]
    BY <1>4 DEF TypeOK, CancelCommit, ItemStatus, Final
  <2> QED BY <1>4, <2>1, RefreshType DEF TypeOK, CancelCommit, PCs
<1> QED BY <1>1, <1>2, <1>3, <1>4

LEMMA TypeLease ==
  ASSUME TypeOK, NEW w \in Workers,
         FinalizePausing(w) \/ LeaseSelect(w) \/ LeaseNone(w) \/ LeaseCommit(w)
  PROVE  TypeOK'
<1>1. CASE FinalizePausing(w)
  BY <1>1 DEF TypeOK, FinalizePausing, itemVars, JobStatus, PCs
<1>2. CASE LeaseSelect(w)
  BY <1>2 DEF TypeOK, LeaseSelect, jobVars, itemVars, PCs
<1>3. CASE LeaseNone(w)
  BY <1>3 DEF TypeOK, LeaseNone, jobVars, itemVars, PCs
<1>4. CASE LeaseCommit(w)
  BY <1>4 DEF TypeOK, LeaseCommit, JobStatus, ItemStatus, Unfinished, PCs
<1> QED BY <1>1, <1>2, <1>3, <1>4

LEMMA TypeSettle ==
  ASSUME TypeOK, NEW w \in Workers, NEW o \in Final, SettleItem(w, o)
  PROVE  TypeOK'
<1>1. status' \in [Items -> ItemStatus]
  BY DEF TypeOK, SettleItem, ItemStatus
<1> QED BY <1>1, RefreshType, ReleaseType DEF TypeOK, SettleItem, PCs

LEMMA TypeHandler ==
  ASSUME TypeOK, NEW w \in Workers,
         FinishItem(w) \/ HandlerRaises(w) \/ GiveUp(w) \/ RetryLater(w) \/ LeaseLost(w)
  PROVE  TypeOK'
<1>1. CASE FinishItem(w)
  BY <1>1, TypeSettle DEF FinishItem, Final
<1>2. CASE HandlerRaises(w)
  BY <1>2 DEF TypeOK, HandlerRaises, jobVars, itemVars, PCs
<1>3. CASE GiveUp(w)
  BY <1>3, TypeSettle DEF GiveUp, Final
<1>4. CASE RetryLater(w)
  BY <1>4, ReleaseType DEF TypeOK, RetryLater, jobVars, ItemStatus, Unfinished, Waiting, PCs
<1>5. CASE LeaseLost(w)
  BY <1>5 DEF TypeOK, LeaseLost, jobVars, itemVars, PCs
<1> QED BY <1>1, <1>2, <1>3, <1>4, <1>5

LEMMA TypeEnvironment ==
  ASSUME TypeOK,
         \/ \E w \in Workers : Crash(w) \/ Restart(w)
         \/ \E i \in Items : LeaseExpires(i) \/ BackoffElapses(i)
         \/ UNCHANGED vars
  PROVE  TypeOK'
<1>1. ASSUME NEW w \in Workers, Crash(w) PROVE TypeOK'
  BY <1>1 DEF TypeOK, Crash, jobVars, itemVars, PCs
<1>2. ASSUME NEW w \in Workers, Restart(w) PROVE TypeOK'
  BY <1>2 DEF TypeOK, Restart, jobVars, itemVars, PCs
<1>3. ASSUME NEW i \in Items, LeaseExpires(i) PROVE TypeOK'
  BY <1>3 DEF TypeOK, LeaseExpires, jobVars, workerVars
<1>4. ASSUME NEW i \in Items, BackoffElapses(i) PROVE TypeOK'
  BY <1>4 DEF TypeOK, BackoffElapses, jobVars, workerVars
<1>5. CASE UNCHANGED vars
  BY <1>5 DEF TypeOK, vars, jobVars, itemVars, workerVars
<1> QED BY <1>1, <1>2, <1>3, <1>4, <1>5

LEMMA TypeStep == TypeOK /\ [Next]_vars => TypeOK'
BY TypeApi, TypeRecover, TypeCancel, TypeLease, TypeHandler, TypeEnvironment
   DEF Next, RunOnce

\* Every reachable state is well typed.
THEOREM TypeCorrect == Spec => []TypeOK
BY TypeInit, TypeStep, PTL DEF Spec

-----------------------------------------------------------------------------
(* Row locks and leases                                                    *)

\* An item exists only together with its job.
JobsCreated == \A i \in Items : jobStatus[JobOf[i]] = "absent" => status[i] = "absent"

\* TypeOK is not enough: what LeaseCommit, RecoverCommit and CancelCommit do
\* is right only because the rows they locked have not changed since.
LockInv == TypeOK /\ JobsCreated /\ LockDiscipline /\ LeaseRecorded

LEMMA LockInit == Init => LockInv
<1>1. Init => LockDiscipline
  BY QueueAssumption DEF Init, LockDiscipline
<1> QED BY <1>1, TypeInit DEF Init, LockInv, LeaseRecorded, JobsCreated

\* A summary never makes a job absent again.
LEMMA RefreshCreated ==
  ASSUME TypeOK, NEW J, RefreshJobs(J), NEW j \in Jobs, jobStatus'[j] = "absent"
  PROVE  jobStatus[j] = "absent"
BY VerdictTerminal DEF TypeOK, RefreshJobs, Terminal

LEMMA LockApi ==
  ASSUME LockInv, (\E j \in Jobs : CreateJob(j)) \/ (\E c \in Clients : ApiRead(c) \/ ApiWrite(c))
  PROVE  JobsCreated' /\ LockDiscipline' /\ LeaseRecorded'
<1> USE DEF LockInv
<1>1. ASSUME NEW j \in Jobs, CreateJob(j) PROVE JobsCreated' /\ LockDiscipline' /\ LeaseRecorded'
  <2>1. PICK S \in SUBSET ItemsOf(j) :
          /\ status' = [i \in Items |-> IF i \in S THEN "pending" ELSE status[i]]
          /\ jobStatus' = [jobStatus EXCEPT ![j] = IF S = {} THEN "completed" ELSE "queued"]
    BY <1>1 DEF CreateJob
  <2>2. \A i \in S : i \in Items /\ JobOf[i] = j /\ status[i] = "absent" /\ jobStatus[j] = "absent"
    BY <1>1 DEF CreateJob, JobsCreated, ItemsOf
  <2>3. JobsCreated'
    BY <2>1, <2>2, QueueAssumption DEF TypeOK, JobsCreated
  <2>4. LockDiscipline'
    BY <1>1, <2>1, <2>2 DEF TypeOK, LockDiscipline, CreateJob, workerVars, Waiting, Expired
  <2>5. LeaseRecorded'
    BY <1>1, <2>1, <2>2 DEF TypeOK, LeaseRecorded, CreateJob
  <2> QED BY <2>3, <2>4, <2>5
<1>2. ASSUME NEW c \in Clients, ApiRead(c) PROVE JobsCreated' /\ LockDiscipline' /\ LeaseRecorded'
  BY <1>2 DEF JobsCreated, LockDiscipline, LeaseRecorded, Expired, ApiRead, itemVars, workerVars,
              jobVars
<1>3. ASSUME NEW c \in Clients, ApiWrite(c) PROVE JobsCreated' /\ LockDiscipline' /\ LeaseRecorded'
  <2>1. call[c] \in [op : Requests, job : Jobs, loaded : JobStatus, started : BOOLEAN]
    BY <1>3 DEF TypeOK, ApiWrite
  <2>2. Requested(call[c]) # "absent"
    BY <2>1, QueueAssumption DEF Requested
  <2>3. JobsCreated'
    BY <1>3, <2>1, <2>2, QueueAssumption DEF TypeOK, ApiWrite, JobsCreated, itemVars
  <2> QED
    BY <1>3, <2>3 DEF LockDiscipline, LeaseRecorded, Expired, ApiWrite, itemVars, workerVars
<1> QED BY <1>1, <1>2, <1>3

LEMMA LockRecover ==
  ASSUME LockInv, NEW w \in Workers,
         RecoverScan(w) \/ RecoverUpdate(w) \/ RecoverCommit(w)
  PROVE  JobsCreated' /\ LockDiscipline' /\ LeaseRecorded'
<1> USE DEF LockInv
<1>1. CASE RecoverScan(w)
  BY <1>1, QueueAssumption
     DEF TypeOK, JobsCreated, LockDiscipline, LeaseRecorded, Expired, RecoverScan, itemVars, jobVars
<1>2. CASE RecoverUpdate(w)
  BY <1>2, QueueAssumption
     DEF TypeOK, JobsCreated, LockDiscipline, LeaseRecorded, Expired, StillExpired, RecoverUpdate,
         itemVars, jobVars
<1>3. CASE RecoverCommit(w)
  <2>1. \A i \in Held(w) : i \in Items /\ status[i] = "running"
    <3>1. pc[w] = "recovered"
      BY <1>3 DEF RecoverCommit
    <3> QED BY <3>1 DEF LockDiscipline, Held, Expired
  <2>2. JobsCreated'
    BY <1>3, <2>1, RefreshCreated, QueueAssumption DEF TypeOK, JobsCreated, RecoverCommit
  <2>3. LockDiscipline'
    BY <1>3, <2>1, QueueAssumption
       DEF TypeOK, LockDiscipline, RecoverCommit, Held, Expired, ReleaseLeases, Waiting
  <2>4. LeaseRecorded'
    BY <1>3, <2>1 DEF TypeOK, LeaseRecorded, RecoverCommit, ReleaseLeases, Recovered
  <2> QED BY <2>2, <2>3, <2>4
<1> QED BY <1>1, <1>2, <1>3

LEMMA LockCancel ==
  ASSUME LockInv, NEW w \in Workers,
         CancelScan(w) \/ CancelUpdate(w) \/ CancelSelect(w) \/ CancelCommit(w)
  PROVE  JobsCreated' /\ LockDiscipline' /\ LeaseRecorded'
<1> USE DEF LockInv
<1>1. CASE CancelScan(w)
  BY <1>1, QueueAssumption
     DEF TypeOK, JobsCreated, LockDiscipline, LeaseRecorded, Expired, CancelScan, itemVars, jobVars
<1>2. CASE CancelUpdate(w)
  BY <1>2, QueueAssumption
     DEF TypeOK, JobsCreated, LockDiscipline, LeaseRecorded, Expired, StillWaiting, CancelUpdate,
         itemVars, jobVars
<1>3. CASE CancelSelect(w)
  BY <1>3, QueueAssumption
     DEF TypeOK, JobsCreated, LockDiscipline, LeaseRecorded, Expired, CancelSelect, Held,
         itemVars, jobVars
<1>4. CASE CancelCommit(w)
  <2>1. \A i \in Held(w) : i \in Items /\ status[i] \in Waiting
    BY <1>4 DEF TypeOK, LockDiscipline, CancelCommit, Held
  <2>2. JobsCreated'
    BY <1>4, <2>1, RefreshCreated, QueueAssumption DEF TypeOK, JobsCreated, CancelCommit, Waiting
  <2>3. LockDiscipline'
    BY <1>4, <2>1, QueueAssumption DEF TypeOK, LockDiscipline, CancelCommit, Held, Expired, Waiting
  <2>4. LeaseRecorded'
    BY <1>4, <2>1 DEF TypeOK, LeaseRecorded, CancelCommit, Waiting
  <2> QED BY <2>2, <2>3, <2>4
<1> QED BY <1>1, <1>2, <1>3, <1>4

LEMMA LockLease ==
  ASSUME LockInv, NEW w \in Workers,
         FinalizePausing(w) \/ LeaseSelect(w) \/ LeaseNone(w) \/ LeaseCommit(w)
  PROVE  JobsCreated' /\ LockDiscipline' /\ LeaseRecorded'
<1> USE DEF LockInv
<1>1. CASE FinalizePausing(w)
  <2>1. JobsCreated'
    BY <1>1, QueueAssumption DEF TypeOK, JobsCreated, FinalizePausing, itemVars
  <2> QED
    BY <1>1, <2>1 DEF TypeOK, LockDiscipline, LeaseRecorded, Expired, FinalizePausing, itemVars
<1>2. CASE LeaseSelect(w)
  BY <1>2, QueueAssumption
     DEF TypeOK, JobsCreated, LockDiscipline, LeaseRecorded, Expired, LeaseSelect, Leasable,
         itemVars, jobVars
<1>3. CASE LeaseNone(w)
  BY <1>3 DEF TypeOK, JobsCreated, LockDiscipline, LeaseRecorded, Expired, LeaseNone,
              itemVars, jobVars
<1>4. CASE LeaseCommit(w)
  <2>1. work[w] \in Items /\ lock[work[w]] = w /\ status[work[w]] \in Waiting
    BY <1>4 DEF LockDiscipline, LeaseCommit
  <2>2. JobsCreated'
    BY <1>4, <2>1, QueueAssumption DEF TypeOK, JobsCreated, LeaseCommit, Waiting
  <2>3. LockDiscipline'
    <3> DEFINE k == work[w]
    <3>1. /\ pc[w] = "leasing" /\ pc' = [pc EXCEPT ![w] = "run"]
          /\ lock' = [lock EXCEPT ![k] = None]
          /\ status' = [status EXCEPT ![k] = "running"]
          /\ lapsed' = [lapsed EXCEPT ![k] = FALSE]
          /\ attempts' = [attempts EXCEPT ![k] = att[w]]
          /\ work' = work /\ att' = att /\ hits' = hits
      BY <1>4 DEF LeaseCommit
    <3>2. ASSUME NEW v \in Workers, NEW i \in Items, lock'[i] = v
          PROVE  /\ lock[i] = v /\ v # w /\ i # k
                 /\ pc'[v] = pc[v]
                 /\ status'[i] = status[i] /\ lapsed'[i] = lapsed[i] /\ attempts'[i] = attempts[i]
      <4>1. i # k
        BY <2>1, <3>1, <3>2, QueueAssumption DEF TypeOK
      <4>2. lock[i] = v
        BY <3>1, <3>2, <4>1 DEF TypeOK
      <4>3. v # w
        BY <3>1, <4>1, <4>2 DEF LockDiscipline
      <4> QED BY <3>1, <4>1, <4>2, <4>3 DEF TypeOK
    <3>3. ASSUME NEW v \in Workers, pc'[v] = "leasing"
          PROVE  work'[v] \in Items /\ lock'[work'[v]] = v
      <4>1. v # w /\ pc[v] = "leasing"
        BY <3>1, <3>3 DEF TypeOK
      <4>2. work[v] \in Items /\ lock[work[v]] = v
        BY <4>1 DEF LockDiscipline
      <4> QED BY <2>1, <3>1, <4>1, <4>2 DEF TypeOK
    <3>4. ASSUME NEW v \in Workers, pc'[v] \in {"run", "failing"}
          PROVE  work'[v] \in Items
      BY <2>1, <3>1, <3>4 DEF TypeOK, LockDiscipline
    <3>5. UNCHANGED <<work, att, hits>>
      BY <1>4 DEF LeaseCommit
    <3>6. ASSUME NEW v \in Workers, NEW i \in Items, lock'[i] = v
          PROVE  \/ /\ pc'[v] = "leasing"
                    /\ i = work'[v] /\ status'[i] \in Waiting /\ att'[v] = attempts'[i] + 1
                 \/ pc'[v] = "recovered" /\ Expired(i)' /\ <<i, attempts'[i]>> \in hits'[v]
                 \/ pc'[v] \in {"cancelled", "refreshing"} /\ status'[i] \in Waiting
      BY <3>2, <3>5, <3>6 DEF LockDiscipline, Expired
    <3> QED BY <3>3, <3>4, <3>6 DEF LockDiscipline
  <2>4. LeaseRecorded'
    BY <1>4, <2>1, QueueAssumption DEF TypeOK, LeaseRecorded, LeaseCommit
  <2> QED BY <2>2, <2>3, <2>4
<1> QED BY <1>1, <1>2, <1>3, <1>4

\* finish_item and retry_item give up the lease of a running item.
LEMMA LockHandler ==
  ASSUME LockInv, NEW w \in Workers,
         FinishItem(w) \/ HandlerRaises(w) \/ GiveUp(w) \/ RetryLater(w) \/ LeaseLost(w)
  PROVE  JobsCreated' /\ LockDiscipline' /\ LeaseRecorded'
<1> USE DEF LockInv
<1>1. ASSUME NEW o \in ItemStatus \ {"running", "absent"}, pc[w] \in {"run", "failing"},
             status' = [status EXCEPT ![work[w]] = o], OwnsLease(w),
             ReleaseLeases({work[w]}), pc' = [pc EXCEPT ![w] = "recover"],
             UNCHANGED <<attempts, lock, work, att, hits>>,
             UNCHANGED jobStatus \/ \E J : RefreshJobs(J)
      PROVE  JobsCreated' /\ LockDiscipline' /\ LeaseRecorded'
  <2>1. work[w] \in Items /\ lock[work[w]] = None /\ owner[work[w]] # None
    BY <1>1, QueueAssumption DEF LockDiscipline, OwnsLease
  <2>2. status[work[w]] = "running"
    BY <2>1 DEF LeaseRecorded
  <2>3. JobsCreated'
    <3>1. \A j \in Jobs : jobStatus'[j] = "absent" => jobStatus[j] = "absent"
      BY <1>1, RefreshCreated DEF TypeOK
    <3> QED BY <1>1, <2>1, <2>2, <3>1, QueueAssumption DEF TypeOK, JobsCreated
  <2>4. LockDiscipline'
    <3>1. ASSUME NEW v \in Workers, NEW i \in Items, lock'[i] = v
          PROVE  /\ lock[i] = v /\ i # work[w] /\ v # w
                 /\ pc'[v] = pc[v] /\ status'[i] = status[i] /\ lapsed'[i] = lapsed[i]
      <4>1. lock[i] = v /\ i # work[w]
        BY <1>1, <2>1, <3>1, QueueAssumption
      <4>2. v # w
        BY <1>1, <4>1 DEF LockDiscipline
      <4> QED BY <1>1, <4>1, <4>2 DEF TypeOK, ReleaseLeases
    <3>2. \A v \in Workers : v # w => pc'[v] = pc[v]
      BY <1>1 DEF TypeOK
    <3>3. pc'[w] = "recover"
      BY <1>1 DEF TypeOK
    <3> QED BY <1>1, <3>1, <3>2, <3>3 DEF LockDiscipline, Expired
  <2>5. LeaseRecorded'
    BY <1>1, <2>1 DEF TypeOK, LeaseRecorded, ReleaseLeases
  <2> QED BY <2>3, <2>4, <2>5
<1>2. ASSUME NEW o \in Final, pc[w] \in {"run", "failing"}, SettleItem(w, o)
      PROVE  JobsCreated' /\ LockDiscipline' /\ LeaseRecorded'
  BY <1>1, <1>2 DEF SettleItem, ItemStatus, Final, OwnsLease
<1>3. CASE FinishItem(w)
  BY <1>2, <1>3 DEF FinishItem, Final
<1>4. CASE GiveUp(w)
  BY <1>2, <1>4 DEF GiveUp, Final
<1>5. CASE RetryLater(w)
  BY <1>1, <1>5 DEF RetryLater, ItemStatus, Unfinished, Waiting, OwnsLease, jobVars
<1>6. CASE HandlerRaises(w) \/ LeaseLost(w)
  BY <1>6 DEF TypeOK, JobsCreated, LockDiscipline, LeaseRecorded, Expired, HandlerRaises, LeaseLost,
              itemVars, jobVars
<1> QED BY <1>3, <1>4, <1>5, <1>6

LEMMA LockEnvironment ==
  ASSUME LockInv,
         \/ \E w \in Workers : Crash(w) \/ Restart(w)
         \/ \E i \in Items : LeaseExpires(i) \/ BackoffElapses(i)
         \/ UNCHANGED vars
  PROVE  JobsCreated' /\ LockDiscipline' /\ LeaseRecorded'
<1> USE DEF LockInv
<1>1. ASSUME NEW w \in Workers, Crash(w) PROVE JobsCreated' /\ LockDiscipline' /\ LeaseRecorded'
  BY <1>1, QueueAssumption DEF TypeOK, JobsCreated, LockDiscipline, LeaseRecorded, Expired, Crash,
              Held, itemVars, jobVars
<1>2. ASSUME NEW w \in Workers, Restart(w) PROVE JobsCreated' /\ LockDiscipline' /\ LeaseRecorded'
  BY <1>2 DEF TypeOK, JobsCreated, LockDiscipline, LeaseRecorded, Expired, Restart, itemVars,
              jobVars
<1>3. ASSUME NEW i \in Items, LeaseExpires(i)
      PROVE  JobsCreated' /\ LockDiscipline' /\ LeaseRecorded'
  BY <1>3 DEF TypeOK, JobsCreated, LockDiscipline, LeaseRecorded, Expired, LeaseExpires, workerVars,
              jobVars
<1>4. ASSUME NEW i \in Items, BackoffElapses(i)
      PROVE  JobsCreated' /\ LockDiscipline' /\ LeaseRecorded'
  BY <1>4 DEF TypeOK, JobsCreated, LockDiscipline, LeaseRecorded, Expired, BackoffElapses,
              workerVars, jobVars
<1>5. CASE UNCHANGED vars
  BY <1>5 DEF JobsCreated, LockDiscipline, LeaseRecorded, Expired, vars, workerVars, itemVars,
              jobVars
<1> QED BY <1>1, <1>2, <1>3, <1>4, <1>5

LEMMA LockStep == LockInv /\ [Next]_vars => LockInv'
<1> SUFFICES ASSUME LockInv, [Next]_vars PROVE LockInv'
  OBVIOUS
<1>1. TypeOK'
  BY TypeStep DEF LockInv
<1>2. JobsCreated' /\ LockDiscipline' /\ LeaseRecorded'
  BY LockApi, LockRecover, LockCancel, LockLease, LockHandler, LockEnvironment DEF Next, RunOnce
<1> QED BY <1>1, <1>2 DEF LockInv

\* The rows a transaction has locked are as it found them when it commits.
THEOREM LockCorrect == Spec => []LockDiscipline
<1>1. LockInv => LockDiscipline
  BY DEF LockInv
<1> QED BY LockInit, LockStep, <1>1, PTL DEF Spec

-----------------------------------------------------------------------------
(* What one step may do to one item and to one job                         *)

ItemMove(i) ==
  \/ status'[i] = status[i] /\ attempts'[i] = attempts[i]
  \/ /\ status[i] = "absent" /\ status'[i] = "pending" /\ attempts'[i] = attempts[i]
     /\ jobStatus[JobOf[i]] = "absent"
  \/ status[i] \in Waiting /\ status'[i] = "running" /\ attempts'[i] = attempts[i] + 1
  \/ status[i] = "running" /\ status'[i] \in Waiting /\ attempts'[i] = attempts[i]
  \/ /\ status[i] = "running" /\ status'[i] \in {"succeeded", "failed", "skipped"}
     /\ attempts'[i] = attempts[i]
  \/ status[i] \in Waiting /\ status'[i] = "cancelled" /\ attempts'[i] = attempts[i]

\* The item a worker is about to settle is the running one it holds.
LEMMA OwnedRuns ==
  ASSUME LockInv, NEW w \in Workers, pc[w] \in {"run", "failing"}, OwnsLease(w)
  PROVE  work[w] \in Items /\ status[work[w]] = "running"
BY QueueAssumption DEF LockInv, LockDiscipline, LeaseRecorded, OwnsLease

LEMMA ItemStep ==
  ASSUME LockInv, [Next]_vars, NEW i \in Items
  PROVE  ItemMove(i)
<1> USE DEF LockInv, ItemMove
<1>1. ASSUME NEW j \in Jobs, CreateJob(j) PROVE ItemMove(i)
  <2>1. PICK S \in SUBSET ItemsOf(j) :
          status' = [k \in Items |-> IF k \in S THEN "pending" ELSE status[k]]
    BY <1>1 DEF CreateJob
  <2>2. i \in S => status[i] = "absent" /\ jobStatus[JobOf[i]] = "absent"
    BY <1>1 DEF CreateJob, JobsCreated, ItemsOf
  <2> QED BY <1>1, <2>1, <2>2 DEF CreateJob
<1>2. ASSUME NEW w \in Workers, RecoverCommit(w) PROVE ItemMove(i)
  <2>1. i \in Held(w) => status[i] = "running"
    <3>1. pc[w] = "recovered"
      BY <1>2 DEF RecoverCommit
    <3> QED BY <3>1 DEF LockDiscipline, Held, Expired
  <2> QED BY <1>2, <2>1 DEF RecoverCommit, Recovered, Waiting
<1>3. ASSUME NEW w \in Workers, CancelCommit(w) PROVE ItemMove(i)
  <2>1. i \in Held(w) => status[i] \in Waiting
    <3>1. pc[w] = "refreshing"
      BY <1>3 DEF CancelCommit
    <3> QED BY <3>1 DEF LockDiscipline, Held
  <2> QED BY <1>3, <2>1 DEF CancelCommit
<1>4. ASSUME NEW w \in Workers, LeaseCommit(w) PROVE ItemMove(i)
  <2>1. /\ work[w] \in Items /\ status[work[w]] \in Waiting
        /\ att[w] = attempts[work[w]] + 1
    BY <1>4 DEF LeaseCommit, LockDiscipline
  <2> QED BY <1>4, <2>1 DEF TypeOK, LeaseCommit
<1>5. ASSUME NEW w \in Workers, FinishItem(w) \/ GiveUp(w) PROVE ItemMove(i)
  <2>1. PICK o \in {"succeeded", "failed", "skipped"} :
          pc[w] \in {"run", "failing"} /\ SettleItem(w, o)
    BY <1>5 DEF FinishItem, GiveUp
  <2>2. OwnsLease(w) /\ status' = [status EXCEPT ![work[w]] = o] /\ attempts' = attempts
    BY <2>1 DEF SettleItem
  <2>3. work[w] \in Items /\ status[work[w]] = "running"
    BY <2>1, <2>2, OwnedRuns
  <2> QED BY <2>2, <2>3 DEF TypeOK
<1>6. ASSUME NEW w \in Workers, RetryLater(w) PROVE ItemMove(i)
  <2>1. work[w] \in Items /\ status[work[w]] = "running"
    BY <1>6, OwnedRuns DEF RetryLater
  <2> QED BY <1>6, <2>1 DEF TypeOK, RetryLater, Waiting
<1>7. ASSUME status' = status /\ attempts' = attempts PROVE ItemMove(i)
  BY <1>7
<1>8. ASSUME NEW w \in Workers,
             \/ RecoverScan(w) \/ RecoverUpdate(w)
             \/ CancelScan(w) \/ CancelUpdate(w) \/ CancelSelect(w)
             \/ FinalizePausing(w) \/ LeaseSelect(w) \/ LeaseNone(w)
             \/ HandlerRaises(w) \/ LeaseLost(w) \/ Crash(w) \/ Restart(w)
      PROVE  status' = status /\ attempts' = attempts
  BY <1>8 DEF RecoverScan, RecoverUpdate, CancelScan, CancelUpdate, CancelSelect, FinalizePausing,
              LeaseSelect, LeaseNone, HandlerRaises, LeaseLost, Crash, Restart, itemVars
<1>9. ASSUME \/ \E c \in Clients : ApiRead(c) \/ ApiWrite(c)
             \/ \E k \in Items : LeaseExpires(k) \/ BackoffElapses(k)
             \/ UNCHANGED vars
      PROVE  status' = status /\ attempts' = attempts
  BY <1>9 DEF ApiRead, ApiWrite, LeaseExpires, BackoffElapses, vars, itemVars
<1> QED
  BY <1>1, <1>2, <1>3, <1>4, <1>5, <1>6, <1>7, <1>8, <1>9 DEF Next, RunOnce

\* A job is given a final status only by a summary that found it settled,
\* or when it is created without items.
LEMMA JobStep ==
  ASSUME LockInv, [Next]_vars, NEW j \in Jobs, jobStatus'[j] \in Terminal
  PROVE  jobStatus[j] \in Terminal \/ InState(status', j, Unfinished) = {}
<1> DEFINE Goal == jobStatus[j] \in Terminal \/ InState(status', j, Unfinished) = {}
<1> USE DEF LockInv
<1>1. ASSUME NEW J, RefreshJobs(J) PROVE Goal
  BY <1>1 DEF RefreshJobs, TypeOK
<1>2. ASSUME NEW k \in Jobs, CreateJob(k) PROVE Goal
  <2>1. PICK S \in SUBSET ItemsOf(k) :
          /\ status' = [i \in Items |-> IF i \in S THEN "pending" ELSE status[i]]
          /\ jobStatus' = [jobStatus EXCEPT ![k] = IF S = {} THEN "completed" ELSE "queued"]
    BY <1>2 DEF CreateJob
  <2>2. CASE j = k
    <3>1. S = {}
      BY <2>1, <2>2 DEF TypeOK, Terminal
    <3>2. \A i \in ItemsOf(k) : status'[i] = "absent"
      BY <1>2, <2>1, <3>1 DEF CreateJob, JobsCreated, ItemsOf
    <3> QED BY <2>2, <3>2 DEF InState, Unfinished, Waiting, ItemsOf
  <2>3. CASE j # k
    BY <2>1, <2>3 DEF TypeOK
  <2> QED BY <2>2, <2>3
<1>3. ASSUME NEW c \in Clients, ApiWrite(c) PROVE Goal
  <2>1. call[c] \in [op : Requests, job : Jobs, loaded : JobStatus, started : BOOLEAN]
    BY <1>3 DEF TypeOK, ApiWrite
  <2>2. Requested(call[c]) \notin Terminal
    BY <2>1, QueueAssumption DEF Requested, Terminal
  <2> QED BY <1>3, <2>1, <2>2 DEF TypeOK, ApiWrite
<1>4. ASSUME NEW w \in Workers, FinalizePausing(w) \/ LeaseCommit(w) PROVE Goal
  BY <1>4 DEF TypeOK, FinalizePausing, LeaseCommit, Terminal
<1>5. ASSUME NEW w \in Workers, RecoverCommit(w) \/ CancelCommit(w) \/ FinishItem(w) \/ GiveUp(w)
      PROVE  Goal
  BY <1>1, <1>5 DEF RecoverCommit, CancelCommit, FinishItem, GiveUp, SettleItem
<1>6. ASSUME NEW w \in Workers,
             \/ RecoverScan(w) \/ RecoverUpdate(w)
             \/ CancelScan(w) \/ CancelUpdate(w) \/ CancelSelect(w)
             \/ LeaseSelect(w) \/ LeaseNone(w) \/ RetryLater(w)
             \/ HandlerRaises(w) \/ LeaseLost(w) \/ Crash(w) \/ Restart(w)
      PROVE  Goal
  BY <1>6 DEF RecoverScan, RecoverUpdate, CancelScan, CancelUpdate, CancelSelect, LeaseSelect,
              LeaseNone, RetryLater, HandlerRaises, LeaseLost, Crash, Restart, jobVars
<1>7. ASSUME \/ \E c \in Clients : ApiRead(c)
             \/ \E i \in Items : LeaseExpires(i) \/ BackoffElapses(i)
             \/ UNCHANGED vars
      PROVE  Goal
  BY <1>7 DEF ApiRead, LeaseExpires, BackoffElapses, vars, jobVars
<1> QED
  BY <1>2, <1>3, <1>4, <1>5, <1>6, <1>7 DEF Next, RunOnce

\* A job reported finished has no item left that could still run, for any
\* number of workers, crashes and concurrent requests, and whatever worker
\* ids are configured.
THEOREM FinishedJobsAreSettled == Spec => []TerminalJobSettled
<1>1. Init => TerminalJobSettled
  BY DEF Init, TerminalJobSettled, Terminal
<1>2. LockInv /\ TerminalJobSettled /\ [Next]_vars => TerminalJobSettled'
  <2> SUFFICES ASSUME LockInv, TerminalJobSettled, [Next]_vars,
                      NEW j \in Jobs, jobStatus'[j] \in Terminal,
                      NEW i \in ItemsOf(j), status'[i] \in Unfinished
               PROVE  FALSE
    BY DEF TerminalJobSettled, InState
  <2>1. i \in Items /\ JobOf[i] = j
    BY DEF ItemsOf
  <2>2. jobStatus[j] \in Terminal
    BY JobStep DEF InState
  <2>3. status[i] \notin Unfinished
    BY <2>2 DEF TerminalJobSettled, InState
  <2>4. ItemMove(i)
    BY <2>1, ItemStep
  <2> QED
    BY <2>1, <2>2, <2>3, <2>4 DEF ItemMove, Unfinished, Waiting, Terminal
<1> QED BY LockInit, LockStep, <1>1, <1>2, PTL DEF Spec

-----------------------------------------------------------------------------
(* Fencing                                                                 *)

\* A worker executing a handler was already doing so, or has just committed
\* its lease.
LEMMA HandlerStep ==
  ASSUME TypeOK, [Next]_vars, NEW w \in Workers, pc'[w] \in {"run", "failing"}
  PROVE  \/ pc[w] \in {"run", "failing"} /\ work'[w] = work[w] /\ att'[w] = att[w]
         \/ LeaseCommit(w)
<1> DEFINE Goal == \/ pc[w] \in {"run", "failing"} /\ work'[w] = work[w] /\ att'[w] = att[w]
                   \/ LeaseCommit(w)
<1> USE DEF TypeOK
<1>1. ASSUME NEW v \in Workers, RecoverScan(v) \/ RecoverUpdate(v) \/ RecoverCommit(v) PROVE Goal
  BY <1>1 DEF RecoverScan, RecoverUpdate, RecoverCommit
<1>2. ASSUME NEW v \in Workers,
             CancelScan(v) \/ CancelUpdate(v) \/ CancelSelect(v) \/ CancelCommit(v) PROVE Goal
  BY <1>2 DEF CancelScan, CancelUpdate, CancelSelect, CancelCommit
<1>3. ASSUME NEW v \in Workers,
             FinalizePausing(v) \/ LeaseSelect(v) \/ LeaseNone(v) \/ LeaseCommit(v) PROVE Goal
  BY <1>3 DEF FinalizePausing, LeaseSelect, LeaseNone, LeaseCommit
<1>4. ASSUME NEW v \in Workers,
             \/ FinishItem(v) \/ GiveUp(v) \/ RetryLater(v) \/ HandlerRaises(v) \/ LeaseLost(v)
             \/ Crash(v) \/ Restart(v) PROVE Goal
  BY <1>4 DEF FinishItem, GiveUp, SettleItem, RetryLater, HandlerRaises, LeaseLost, Crash, Restart
<1>5. ASSUME \/ \E j \in Jobs : CreateJob(j)
             \/ \E c \in Clients : ApiRead(c) \/ ApiWrite(c)
             \/ \E i \in Items : LeaseExpires(i) \/ BackoffElapses(i)
             \/ UNCHANGED vars
      PROVE  Goal
  BY <1>5 DEF CreateJob, ApiRead, ApiWrite, LeaseExpires, BackoffElapses, vars, workerVars
<1> QED BY <1>1, <1>2, <1>3, <1>4, <1>5 DEF Next, RunOnce

\* A step keeps the owner and the attempt of an item, takes the owner away,
\* or commits a new lease.
LEMMA OwnerStep ==
  ASSUME TypeOK, [Next]_vars, NEW i \in Items
  PROVE  \/ owner'[i] = owner[i] /\ attempts'[i] = attempts[i]
         \/ owner'[i] = None
         \/ \E v \in Workers : LeaseCommit(v) /\ work[v] = i
<1> DEFINE Goal == \/ owner'[i] = owner[i] /\ attempts'[i] = attempts[i]
                   \/ owner'[i] = None
                   \/ \E v \in Workers : LeaseCommit(v) /\ work[v] = i
<1> USE DEF TypeOK
<1>1. ASSUME NEW v \in Workers, RecoverScan(v) \/ RecoverUpdate(v) \/ RecoverCommit(v) PROVE Goal
  BY <1>1 DEF RecoverScan, RecoverUpdate, RecoverCommit, ReleaseLeases, itemVars
<1>2. ASSUME NEW v \in Workers,
             CancelScan(v) \/ CancelUpdate(v) \/ CancelSelect(v) \/ CancelCommit(v) PROVE Goal
  BY <1>2 DEF CancelScan, CancelUpdate, CancelSelect, CancelCommit, itemVars
<1>3. ASSUME NEW v \in Workers, LeaseCommit(v) PROVE Goal
  BY <1>3 DEF LeaseCommit
<1>4. ASSUME NEW v \in Workers, FinishItem(v) \/ GiveUp(v) \/ RetryLater(v) PROVE Goal
  <2>1. ReleaseLeases({work[v]}) /\ UNCHANGED attempts
    BY <1>4 DEF FinishItem, GiveUp, SettleItem, RetryLater
  <2> QED BY <2>1 DEF ReleaseLeases
<1>5. ASSUME NEW v \in Workers,
             \/ FinalizePausing(v) \/ LeaseSelect(v) \/ LeaseNone(v) \/ HandlerRaises(v)
             \/ LeaseLost(v) \/ Crash(v) \/ Restart(v) PROVE Goal
  BY <1>5 DEF FinalizePausing, LeaseSelect, LeaseNone, HandlerRaises, LeaseLost, Crash, Restart,
              itemVars
<1>6. ASSUME \/ \E j \in Jobs : CreateJob(j)
             \/ \E c \in Clients : ApiRead(c) \/ ApiWrite(c)
             \/ \E k \in Items : LeaseExpires(k) \/ BackoffElapses(k)
             \/ UNCHANGED vars
      PROVE  Goal
  BY <1>6 DEF CreateJob, ApiRead, ApiWrite, LeaseExpires, BackoffElapses, vars, itemVars
<1> QED BY <1>1, <1>2, <1>3, <1>4, <1>5, <1>6 DEF Next, RunOnce

LEMMA FencingStep ==
  ASSUME DistinctIds, LockInv, LockInv', LeaseFencing, [Next]_vars
  PROVE  LeaseFencing'
<1> SUFFICES ASSUME NEW w \in Workers, pc'[w] \in {"run", "failing"},
                    owner'[work'[w]] = IdOf[w]
             PROVE  status'[work'[w]] = "running" /\ attempts'[work'[w]] = att'[w]
  BY DEF LeaseFencing
<1>1. work'[w] \in Items /\ owner'[work'[w]] # None
  BY QueueAssumption DEF LockInv, LockDiscipline
<1>2. status'[work'[w]] = "running"
  BY <1>1 DEF LockInv, LeaseRecorded
<1>3. CASE LeaseCommit(w)
  BY <1>1, <1>2, <1>3 DEF LeaseCommit, LockInv, TypeOK
<1>4. CASE pc[w] \in {"run", "failing"} /\ work'[w] = work[w] /\ att'[w] = att[w]
  <2>1. CASE owner'[work[w]] = owner[work[w]] /\ attempts'[work[w]] = attempts[work[w]]
    BY <1>2, <1>4, <2>1 DEF LeaseFencing
  <2>2. ASSUME NEW v \in Workers, LeaseCommit(v), work[v] = work[w] PROVE FALSE
    <3>1. owner'[work[w]] = IdOf[v]
      BY <1>1, <1>4, <2>2 DEF LeaseCommit, LockInv, TypeOK
    <3>2. v = w
      BY <1>4, <3>1 DEF DistinctIds
    <3> QED BY <1>4, <2>2, <3>2 DEF LeaseCommit
  <2> QED BY <1>1, <1>4, <2>1, <2>2, OwnerStep DEF LockInv
<1> QED BY <1>3, <1>4, HandlerStep DEF LockInv

\* A worker that is allowed to settle or reschedule an item holds the current
\* attempt of it, if no two processes share a SEM_WORKER_ID.
THEOREM LateWorkersAreFenced == DistinctIds => (Spec => []LeaseFencing)
<1> SUFFICES ASSUME DistinctIds PROVE Spec => []LeaseFencing
  OBVIOUS
<1>1. Init => LeaseFencing
  BY DEF Init, LeaseFencing
<1>2. LockInv /\ LockInv' /\ LeaseFencing /\ [Next]_vars => LeaseFencing'
  BY FencingStep
<1> QED BY LockInit, LockStep, <1>1, <1>2, PTL DEF Spec

-----------------------------------------------------------------------------
(* The attempt budget                                                      *)

\* Items that were never leased have used no attempt.
BudgetInv == AttemptBudget /\ \A i \in Items : status[i] = "absent" => attempts[i] = 0

\* Only an attempt that is not the last one goes back to the queue.  This is
\* where fencing is needed: retry_item looks at the lease's attempt_count.
LEMMA ReleaseStep ==
  ASSUME LockInv, LeaseFencing, [Next]_vars, NEW i \in Items,
         status[i] = "running", status'[i] \in Waiting
  PROVE  attempts[i] < MaxAttempts
<1> DEFINE Goal == attempts[i] < MaxAttempts
<1> USE DEF LockInv, TypeOK, Waiting
<1>1. ASSUME NEW w \in Workers, RetryLater(w) PROVE Goal
  <2>1. i = work[w]
    BY <1>1 DEF RetryLater
  <2>2. attempts[i] = att[w]
    BY <1>1, <2>1 DEF LeaseFencing, RetryLater, OwnsLease
  <2> QED BY <1>1, <2>2 DEF RetryLater
<1>2. ASSUME NEW w \in Workers, RecoverCommit(w) PROVE Goal
  BY <1>2, QueueAssumption DEF RecoverCommit, Recovered
<1>3. ASSUME NEW w \in Workers, CancelCommit(w) \/ LeaseCommit(w) PROVE Goal
  BY <1>3 DEF CancelCommit, LeaseCommit
<1>4. ASSUME NEW w \in Workers, FinishItem(w) \/ GiveUp(w) PROVE Goal
  BY <1>4 DEF FinishItem, GiveUp, SettleItem
<1>5. ASSUME NEW j \in Jobs, CreateJob(j) PROVE Goal
  <2>1. PICK S \in SUBSET ItemsOf(j) :
               status' = [k \in Items |-> IF k \in S THEN "pending" ELSE status[k]]
    BY <1>5 DEF CreateJob
  <2>2. JobOf[i] # j
    BY <1>5 DEF CreateJob, JobsCreated
  <2>3. status'[i] = status[i]
    BY <2>1, <2>2 DEF ItemsOf
  <2> QED BY <2>3
<1>6. ASSUME NEW w \in Workers,
             \/ RecoverScan(w) \/ RecoverUpdate(w)
             \/ CancelScan(w) \/ CancelUpdate(w) \/ CancelSelect(w)
             \/ FinalizePausing(w) \/ LeaseSelect(w) \/ LeaseNone(w)
             \/ HandlerRaises(w) \/ LeaseLost(w) \/ Crash(w) \/ Restart(w)
      PROVE  Goal
  BY <1>6 DEF RecoverScan, RecoverUpdate, CancelScan, CancelUpdate, CancelSelect, FinalizePausing,
              LeaseSelect, LeaseNone, HandlerRaises, LeaseLost, Crash, Restart, itemVars
<1>7. ASSUME \/ \E c \in Clients : ApiRead(c) \/ ApiWrite(c)
             \/ \E k \in Items : LeaseExpires(k) \/ BackoffElapses(k)
             \/ UNCHANGED vars
      PROVE  Goal
  BY <1>7 DEF ApiRead, ApiWrite, LeaseExpires, BackoffElapses, vars, itemVars
<1> QED BY <1>1, <1>2, <1>3, <1>4, <1>5, <1>6, <1>7 DEF Next, RunOnce

LEMMA BudgetStep ==
  ASSUME LockInv, LockInv', LeaseFencing, BudgetInv, [Next]_vars
  PROVE  BudgetInv'
<1> SUFFICES ASSUME NEW i \in Items
             PROVE  /\ attempts'[i] <= MaxAttempts
                    /\ status'[i] \in Waiting => attempts'[i] < MaxAttempts
                    /\ status'[i] = "absent" => attempts'[i] = 0
  BY DEF BudgetInv, AttemptBudget
<1>1. ItemMove(i)
  BY ItemStep
<1>2. status[i] = "running" /\ status'[i] \in Waiting => attempts[i] < MaxAttempts
  BY ReleaseStep
<1>3. attempts[i] \in Nat /\ MaxAttempts \in Nat \ {0}
  BY QueueAssumption DEF LockInv, TypeOK
<1> QED
  BY <1>1, <1>2, <1>3 DEF ItemMove, BudgetInv, AttemptBudget, Waiting

\* No item is started more often than max_attempts, whatever mixture of
\* retries, lost leases and crashes it goes through.
THEOREM AttemptsAreBounded == DistinctIds => (Spec => []AttemptBudget)
<1> SUFFICES ASSUME DistinctIds PROVE Spec => []AttemptBudget
  OBVIOUS
<1>1. Init => LeaseFencing /\ BudgetInv
  BY QueueAssumption DEF Init, LeaseFencing, BudgetInv, AttemptBudget, Waiting
<1>2. LockInv /\ LockInv' /\ LeaseFencing /\ [Next]_vars => LeaseFencing'
  BY FencingStep
<1>3. LockInv /\ LockInv' /\ LeaseFencing /\ BudgetInv /\ [Next]_vars => BudgetInv'
  BY BudgetStep
<1>4. BudgetInv => AttemptBudget
  BY DEF BudgetInv
<1> QED BY LockInit, LockStep, <1>1, <1>2, <1>3, <1>4, PTL DEF Spec

-----------------------------------------------------------------------------
(* Refinement                                                              *)

LEMMA LifecycleInit == Init => Lifecycle!Init
BY DEF Init, Lifecycle!Init, Waiting

LEMMA LifecycleStep ==
  ASSUME LockInv, LockInv', LeaseFencing, BudgetInv, [Next]_vars
  PROVE  Lifecycle!Next
<1> SUFFICES ASSUME NEW i \in Items
             PROVE  \/ Lifecycle!Submit(i) \/ Lifecycle!Start(i) \/ Lifecycle!Release(i)
                    \/ Lifecycle!Settle(i) \/ Lifecycle!Cancel(i) \/ Lifecycle!Rest(i)
  BY DEF Lifecycle!Next
<1>1. ItemMove(i)
  BY ItemStep
<1>2. status[i] = "running" /\ status'[i] \in Waiting => attempts[i] < MaxAttempts
  BY ReleaseStep
<1>3. status[i] \in Waiting => attempts[i] < MaxAttempts
  BY DEF BudgetInv, AttemptBudget
<1> QED
  BY <1>1, <1>2, <1>3
     DEF ItemMove, Waiting, Lifecycle!Submit, Lifecycle!Start, Lifecycle!Release, Lifecycle!Settle,
         Lifecycle!Cancel, Lifecycle!Rest, Lifecycle!Becomes, Lifecycle!SameTries,
         Lifecycle!Outcomes

\* The queue implements the lifecycle of items.
THEOREM QueueImplementsLifecycle == DistinctIds => (Spec => ImplementsLifecycle)
<1> SUFFICES ASSUME DistinctIds PROVE Spec => Lifecycle!Spec
  BY DEF ImplementsLifecycle
<1>1. Init => LeaseFencing /\ BudgetInv
  BY QueueAssumption DEF Init, LeaseFencing, BudgetInv, AttemptBudget, Waiting
<1>2. LockInv /\ LockInv' /\ LeaseFencing /\ [Next]_vars => LeaseFencing'
  BY FencingStep
<1>3. LockInv /\ LockInv' /\ LeaseFencing /\ BudgetInv /\ [Next]_vars => BudgetInv'
  BY BudgetStep
<1>4. LockInv /\ LockInv' /\ LeaseFencing /\ BudgetInv /\ [Next]_vars => Lifecycle!Next
  BY LifecycleStep
<1> QED
  BY LockInit, LockStep, LifecycleInit, <1>1, <1>2, <1>3, <1>4, PTL DEF Spec, Lifecycle!Spec

Outcomes == {"succeeded", "failed", "skipped"}

-----------------------------------------------------------------------------
(* The counts                                                              *)

\* No item of the job gets an outcome or loses one.
SameOutcomes(j) ==
  \A i \in ItemsOf(j) : \/ status'[i] = status[i]
                        \/ status'[i] \notin Outcomes /\ status[i] \notin Outcomes

LEMMA SameTally ==
  ASSUME NEW j \in Jobs, SameOutcomes(j)
  PROVE  Tally(status', j) = Tally(status, j)
<1>1. ASSUME NEW s \in Outcomes PROVE InState(status', j, {s}) = InState(status, j, {s})
  BY <1>1 DEF SameOutcomes, InState
<1> QED BY <1>1 DEF Tally, Outcomes

\* A step that settles items of a job stores the counts of the job.
LEMMA CountStep ==
  ASSUME LockInv, [Next]_vars, NEW j \in Jobs
  PROVE  \/ tally'[j] = Tally(status', j)
         \/ tally'[j] = tally[j] /\ SameOutcomes(j)
<1> DEFINE Goal == \/ tally'[j] = Tally(status', j)
                   \/ tally'[j] = tally[j] /\ SameOutcomes(j)
<1> USE DEF LockInv
<1>1. ASSUME NEW J, RefreshJobs(J)
      PROVE  tally'[j] = IF j \in J THEN Tally(status', j) ELSE tally[j]
  BY <1>1 DEF RefreshJobs
<1>2. ASSUME tally' = tally,
             \A i \in ItemsOf(j) : status'[i] = status[i] \/ status'[i] \notin Outcomes
      PROVE  Goal
  <2>1. \A i \in ItemsOf(j) : ItemMove(i)
    BY ItemStep DEF ItemsOf
  <2>2. SameOutcomes(j)
    BY <1>2, <2>1 DEF SameOutcomes, ItemMove, Outcomes, Waiting
  <2> QED BY <1>2, <2>2
<1>3. ASSUME NEW w \in Workers, RecoverCommit(w) PROVE Goal
  <2> DEFINE J == {JobOf[h[1]] : h \in hits[w]}
  <2>1. CASE j \in J
    BY <1>1, <1>3, <2>1 DEF RecoverCommit
  <2>2. CASE j \notin J
    <3>1. \A i \in Held(w) : <<i, attempts[i]>> \in hits[w]
      BY <1>3 DEF RecoverCommit, LockDiscipline, Held
    <3>2. ASSUME NEW i \in ItemsOf(j) PROVE i \notin Held(w)
      <4>1. <<i, attempts[i]>>[1] = i /\ JobOf[i] = j
        BY DEF ItemsOf
      <4>2. <<i, attempts[i]>> \in hits[w] => JobOf[<<i, attempts[i]>>[1]] \in J
        OBVIOUS
      <4> QED BY <2>2, <3>1, <4>1, <4>2
    <3>3. SameOutcomes(j)
      BY <1>3, <3>2 DEF RecoverCommit, SameOutcomes, ItemsOf
    <3> QED BY <1>1, <1>3, <2>2, <3>3 DEF RecoverCommit
  <2> QED BY <2>1, <2>2
<1>4. ASSUME NEW w \in Workers, CancelCommit(w) PROVE Goal
  <2>1. \A i \in Held(w) : status[i] \in Waiting
    BY <1>4 DEF CancelCommit, LockDiscipline, Held
  <2>2. SameOutcomes(j)
    BY <1>4, <2>1 DEF CancelCommit, SameOutcomes, ItemsOf, Outcomes, Waiting
  <2> QED BY <1>1, <1>4, <2>2 DEF CancelCommit
<1>5. ASSUME NEW w \in Workers, NEW o \in Outcomes, SettleItem(w, o) PROVE Goal
  <2>1. CASE j = JobOf[work[w]]
    BY <1>1, <1>5, <2>1 DEF SettleItem
  <2>2. CASE j # JobOf[work[w]]
    <3>1. SameOutcomes(j)
      BY <1>5, <2>2 DEF SettleItem, SameOutcomes, ItemsOf, TypeOK
    <3> QED BY <1>1, <1>5, <2>2, <3>1 DEF SettleItem
  <2> QED BY <2>1, <2>2
<1>6. ASSUME NEW w \in Workers, FinishItem(w) \/ GiveUp(w) PROVE Goal
  BY <1>5, <1>6 DEF FinishItem, GiveUp, Outcomes
<1>7. ASSUME NEW w \in Workers,
             LeaseCommit(w) \/ RetryLater(w) PROVE Goal
  BY <1>2, <1>7 DEF LeaseCommit, RetryLater, TypeOK, jobVars, ItemsOf, Outcomes
<1>8. ASSUME NEW k \in Jobs, CreateJob(k) PROVE Goal
  BY <1>2, <1>8 DEF CreateJob, ItemsOf, Outcomes
<1>9. ASSUME NEW w \in Workers,
             \/ RecoverScan(w) \/ RecoverUpdate(w)
             \/ CancelScan(w) \/ CancelUpdate(w) \/ CancelSelect(w)
             \/ FinalizePausing(w) \/ LeaseSelect(w) \/ LeaseNone(w)
             \/ HandlerRaises(w) \/ LeaseLost(w) \/ Crash(w) \/ Restart(w)
      PROVE  Goal
  BY <1>2, <1>9 DEF RecoverScan, RecoverUpdate, CancelScan, CancelUpdate, CancelSelect,
     FinalizePausing, LeaseSelect, LeaseNone, HandlerRaises, LeaseLost, Crash, Restart,
     itemVars, jobVars
<1>10. ASSUME \/ \E c \in Clients : ApiRead(c) \/ ApiWrite(c)
              \/ \E k \in Items : LeaseExpires(k) \/ BackoffElapses(k)
              \/ UNCHANGED vars
       PROVE  Goal
  BY <1>2, <1>10 DEF ApiRead, ApiWrite, LeaseExpires, BackoffElapses, vars, itemVars, jobVars
<1> QED
  BY <1>3, <1>4, <1>6, <1>7, <1>8, <1>9, <1>10 DEF Next, RunOnce

\* The counts a job stores are those of its committed items, although finish_item,
\* recovery and the failure path each store their own.
THEOREM CountsAreExact == Spec => []CountersExact
<1>1. Init => CountersExact
  <2> SUFFICES ASSUME Init, NEW j \in Jobs PROVE tally[j] = Tally(status, j)
    BY DEF CountersExact
  <2>1. ASSUME NEW s \in Outcomes PROVE Cardinality(InState(status, j, {s})) = 0
    <3>1. InState(status, j, {s}) = {}
      BY DEF Init, InState, ItemsOf, Outcomes
    <3> QED BY <3>1, FS_EmptySet
  <2> QED BY <2>1 DEF Init, Tally, Outcomes
<1>2. LockInv /\ CountersExact /\ [Next]_vars => CountersExact'
  <2> SUFFICES ASSUME LockInv, CountersExact, [Next]_vars, NEW j \in Jobs
               PROVE  tally'[j] = Tally(status', j)
    BY DEF CountersExact, Tally, InState, ItemsOf
  <2>1. tally[j] = Tally(status, j)
    BY DEF CountersExact
  <2> QED BY <2>1, CountStep, SameTally
<1> QED BY LockInit, LockStep, <1>1, <1>2, PTL DEF Spec

-----------------------------------------------------------------------------
(* The final status                                                        *)

\* A cancellation is recorded in cancel_requested_at by the write that makes
\* the job cancelling, so a request that found it cancelling changes nothing.
CancelRecorded ==
  /\ \A j \in Jobs : /\ jobStatus[j] = "cancelling" => cancelReq[j]
                     /\ jobStatus[j] = "absent" => ~cancelReq[j]
  /\ \A c \in Clients :
       call[c] # None => /\ jobStatus[call[c].job] # "absent"
                         /\ call[c].loaded = "cancelling" => cancelReq[call[c].job]

\* Only requests record cancellations or make jobs cancelling.
LEMMA WorkerStep ==
  ASSUME LockInv,
         \/ \E w \in Workers : RunOnce(w) \/ Crash(w) \/ Restart(w)
         \/ \E i \in Items : LeaseExpires(i) \/ BackoffElapses(i)
         \/ UNCHANGED vars
  PROVE  /\ UNCHANGED <<cancelReq, call>>
         /\ \A j \in Jobs : jobStatus'[j] \in {"absent", "cancelling"} =>
                              jobStatus'[j] = jobStatus[j]
<1> DEFINE Goal == /\ UNCHANGED <<cancelReq, call>>
                   /\ \A j \in Jobs : jobStatus'[j] \in {"absent", "cancelling"} =>
                                        jobStatus'[j] = jobStatus[j]
<1> USE DEF LockInv
<1>1. ASSUME NEW J, RefreshJobs(J), UNCHANGED call PROVE Goal
  BY <1>1, VerdictTerminal DEF RefreshJobs, TypeOK, Terminal
<1>2. ASSUME NEW w \in Workers, RecoverCommit(w) \/ CancelCommit(w) \/ FinishItem(w) \/ GiveUp(w)
      PROVE  Goal
  BY <1>1, <1>2 DEF RecoverCommit, CancelCommit, FinishItem, GiveUp, SettleItem
<1>3. ASSUME NEW w \in Workers, FinalizePausing(w) \/ LeaseCommit(w) PROVE Goal
  BY <1>3 DEF TypeOK, FinalizePausing, LeaseCommit
<1>4. ASSUME NEW w \in Workers,
             \/ RecoverScan(w) \/ RecoverUpdate(w)
             \/ CancelScan(w) \/ CancelUpdate(w) \/ CancelSelect(w)
             \/ LeaseSelect(w) \/ LeaseNone(w) \/ RetryLater(w)
             \/ HandlerRaises(w) \/ LeaseLost(w) \/ Crash(w) \/ Restart(w)
      PROVE  Goal
  BY <1>4 DEF RecoverScan, RecoverUpdate, CancelScan, CancelUpdate, CancelSelect, LeaseSelect,
              LeaseNone, RetryLater, HandlerRaises, LeaseLost, Crash, Restart, jobVars
<1>5. ASSUME \/ \E i \in Items : LeaseExpires(i) \/ BackoffElapses(i)
             \/ UNCHANGED vars
      PROVE  Goal
  BY <1>5 DEF LeaseExpires, BackoffElapses, vars, jobVars, workerVars
<1> QED BY <1>2, <1>3, <1>4, <1>5 DEF RunOnce

LEMMA CancelRecordedStep ==
  ASSUME LockInv, CancelRecorded, [Next]_vars
  PROVE  CancelRecorded'
<1> USE DEF LockInv, CancelRecorded
<1>1. ASSUME NEW k \in Jobs, CreateJob(k) PROVE CancelRecorded'
  <2>1. UNCHANGED <<cancelReq, call>>
    BY <1>1 DEF CreateJob
  <2>2. \A j \in Jobs : jobStatus'[j] \in {"absent", "cancelling"} => jobStatus'[j] = jobStatus[j]
    BY <1>1 DEF CreateJob, TypeOK
  <2> QED BY <2>1, <2>2 DEF TypeOK
<1>2. ASSUME NEW c \in Clients, ApiRead(c) PROVE CancelRecorded'
  BY <1>2 DEF ApiRead, TypeOK, jobVars
<1>3. ASSUME NEW c \in Clients, ApiWrite(c) PROVE CancelRecorded'
  <2> DEFINE q == call[c]
  <2>1. q \in [op : Requests, job : Jobs, loaded : JobStatus, started : BOOLEAN] /\ q # None
    BY <1>3 DEF TypeOK, ApiWrite
  <2>2. /\ Requested(q) # "absent"
        /\ Requested(q) = "cancelling" => q.op = "cancel"
    BY <2>1, QueueAssumption DEF Requested
  <2>3. /\ jobStatus' = IF Requested(q) # q.loaded
                        THEN [jobStatus EXCEPT ![q.job] = Requested(q)] ELSE jobStatus
        /\ cancelReq' = IF q.op = "cancel" THEN [cancelReq EXCEPT ![q.job] = TRUE] ELSE cancelReq
        /\ call' = [call EXCEPT ![c] = None]
    BY <1>3 DEF ApiWrite
  <2>4. \A j \in Jobs : cancelReq[j] => cancelReq'[j]
    BY <2>1, <2>3 DEF TypeOK
  <2>5. \A j \in Jobs : jobStatus'[j] = "absent" => jobStatus[j] = "absent" /\ j # q.job
    BY <2>1, <2>2, <2>3 DEF TypeOK
  <2>6. \A j \in Jobs : jobStatus'[j] = "absent" => ~cancelReq'[j]
    BY <2>1, <2>3, <2>5 DEF TypeOK
  <2>7. \A j \in Jobs : jobStatus'[j] = "cancelling" => cancelReq'[j]
    BY <2>1, <2>2, <2>3, <2>4 DEF TypeOK
  <2>8. ASSUME NEW d \in Clients, call'[d] # None
        PROVE  /\ jobStatus'[call'[d].job] # "absent"
               /\ call'[d].loaded = "cancelling" => cancelReq'[call'[d].job]
    <3>1. call'[d] = call[d] /\ call[d] # None
      BY <2>3, <2>8 DEF TypeOK
    <3>2. call[d].job \in Jobs
      BY <3>1 DEF TypeOK
    <3> QED BY <2>4, <2>5, <3>1, <3>2
  <2> QED BY <2>6, <2>7, <2>8
<1>4. ASSUME UNCHANGED <<cancelReq, call>>,
             \A j \in Jobs : jobStatus'[j] \in {"absent", "cancelling"} =>
                               jobStatus'[j] = jobStatus[j]
      PROVE  CancelRecorded'
  BY <1>4 DEF TypeOK
<1> QED BY <1>1, <1>2, <1>3, <1>4, WorkerStep DEF Next

\* A final status was there before, or is the verdict on the items.
LEMMA VerdictStep ==
  ASSUME LockInv, CancelRecorded, [Next]_vars, NEW j \in Jobs, jobStatus'[j] \in Terminal
  PROVE  /\ cancelReq'[j] = cancelReq[j]
         /\ jobStatus'[j] = Verdict(status', j) \/ jobStatus'[j] = jobStatus[j]
<1> DEFINE Goal == /\ cancelReq'[j] = cancelReq[j]
                   /\ jobStatus'[j] = Verdict(status', j) \/ jobStatus'[j] = jobStatus[j]
<1> USE DEF LockInv
<1>1. ASSUME NEW J, RefreshJobs(J) PROVE Goal
  BY <1>1 DEF RefreshJobs, TypeOK
<1>2. ASSUME NEW k \in Jobs, CreateJob(k) PROVE Goal
  <2>1. PICK S \in SUBSET ItemsOf(k) :
          /\ status' = [i \in Items |-> IF i \in S THEN "pending" ELSE status[i]]
          /\ jobStatus' = [jobStatus EXCEPT ![k] = IF S = {} THEN "completed" ELSE "queued"]
    BY <1>2 DEF CreateJob
  <2>2. cancelReq' = cancelReq
    BY <1>2 DEF CreateJob
  <2>3. CASE j = k
    <3>1. S = {} /\ jobStatus'[j] = "completed"
      BY <2>1, <2>3 DEF TypeOK, Terminal
    <3>2. \A i \in ItemsOf(k) : status'[i] = "absent"
      BY <1>2, <2>1, <3>1 DEF CreateJob, JobsCreated, ItemsOf
    <3>3. InState(status', j, {"failed"}) = {}
      BY <2>3, <3>2 DEF InState
    <3>4. ~cancelReq[j]
      BY <1>2, <2>3 DEF CreateJob, CancelRecorded
    <3> QED BY <2>2, <3>1, <3>3, <3>4 DEF Verdict
  <2>4. CASE j # k
    BY <2>1, <2>2, <2>4 DEF TypeOK
  <2> QED BY <2>3, <2>4
<1>3. ASSUME NEW c \in Clients, ApiWrite(c) PROVE Goal
  <2> DEFINE q == call[c]
  <2>1. q \in [op : Requests, job : Jobs, loaded : JobStatus, started : BOOLEAN] /\ q # None
    BY <1>3 DEF TypeOK, ApiWrite
  <2>2. /\ Requested(q) \notin Terminal
        /\ q.op = "cancel" => Requested(q) = "cancelling"
    BY <2>1, QueueAssumption DEF Requested, Terminal
  <2>3. /\ jobStatus' = IF Requested(q) # q.loaded
                        THEN [jobStatus EXCEPT ![q.job] = Requested(q)] ELSE jobStatus
        /\ cancelReq' = IF q.op = "cancel" THEN [cancelReq EXCEPT ![q.job] = TRUE] ELSE cancelReq
    BY <1>3 DEF ApiWrite
  <2>4. CASE j = q.job
    <3>1. Requested(q) = q.loaded /\ jobStatus' = jobStatus
      BY <2>1, <2>2, <2>3, <2>4 DEF TypeOK
    <3>2. q.op = "cancel" => cancelReq[j]
      BY <2>1, <2>2, <2>4, <3>1 DEF CancelRecorded
    <3> QED BY <2>3, <2>4, <3>1, <3>2 DEF TypeOK
  <2>5. CASE j # q.job
    BY <2>1, <2>3, <2>5 DEF TypeOK
  <2> QED BY <2>4, <2>5
<1>4. ASSUME NEW w \in Workers, FinalizePausing(w) \/ LeaseCommit(w) PROVE Goal
  BY <1>4 DEF TypeOK, FinalizePausing, LeaseCommit, Terminal
<1>5. ASSUME NEW w \in Workers, RecoverCommit(w) \/ CancelCommit(w) \/ FinishItem(w) \/ GiveUp(w)
      PROVE  Goal
  BY <1>1, <1>5 DEF RecoverCommit, CancelCommit, FinishItem, GiveUp, SettleItem
<1>6. ASSUME NEW w \in Workers,
             \/ RecoverScan(w) \/ RecoverUpdate(w)
             \/ CancelScan(w) \/ CancelUpdate(w) \/ CancelSelect(w)
             \/ LeaseSelect(w) \/ LeaseNone(w) \/ RetryLater(w)
             \/ HandlerRaises(w) \/ LeaseLost(w) \/ Crash(w) \/ Restart(w)
      PROVE  Goal
  BY <1>6 DEF RecoverScan, RecoverUpdate, CancelScan, CancelUpdate, CancelSelect, LeaseSelect,
              LeaseNone, RetryLater, HandlerRaises, LeaseLost, Crash, Restart, jobVars
<1>7. ASSUME \/ \E c \in Clients : ApiRead(c)
             \/ \E i \in Items : LeaseExpires(i) \/ BackoffElapses(i)
             \/ UNCHANGED vars
      PROVE  Goal
  BY <1>7 DEF ApiRead, LeaseExpires, BackoffElapses, vars, jobVars
<1> QED
  BY <1>2, <1>3, <1>4, <1>5, <1>6, <1>7 DEF Next, RunOnce

\* No item of a finished job moves.
LEMMA SettledStays ==
  ASSUME LockInv, TerminalJobSettled, [Next]_vars, NEW j \in Jobs, jobStatus[j] \in Terminal
  PROVE  \A i \in ItemsOf(j) : status'[i] = status[i]
<1> SUFFICES ASSUME NEW i \in ItemsOf(j) PROVE status'[i] = status[i]
  OBVIOUS
<1>1. i \in Items /\ JobOf[i] = j
  BY DEF ItemsOf
<1>2. ItemMove(i)
  BY <1>1, ItemStep
<1>3. status[i] \notin Unfinished /\ jobStatus[j] # "absent"
  BY DEF TerminalJobSettled, InState, Terminal
<1> QED BY <1>1, <1>2, <1>3 DEF ItemMove, Unfinished, Waiting

\* The status of a finished job says what became of its items, and it is
\* cancelled exactly when a cancellation was recorded.
THEOREM VerdictsAreHonest == Spec => []VerdictHonest
<1>1. Init => CancelRecorded /\ VerdictHonest /\ TerminalJobSettled
  BY DEF Init, CancelRecorded, VerdictHonest, TerminalJobSettled, Terminal
<1>2. LockInv /\ TerminalJobSettled /\ CancelRecorded /\ VerdictHonest /\ [Next]_vars
        => VerdictHonest'
  <2> SUFFICES ASSUME LockInv, TerminalJobSettled, CancelRecorded, VerdictHonest, [Next]_vars,
                      NEW j \in Jobs, jobStatus'[j] \in Terminal
               PROVE  LET bad  == InState(status', j, {"failed"})
                          good == InState(status', j, {"succeeded", "skipped"})
                      IN /\ jobStatus'[j] = "cancelled" => cancelReq'[j]
                         /\ jobStatus'[j] \in Terminal \ {"cancelled"} => ~cancelReq'[j]
                         /\ jobStatus'[j] = "completed" => bad = {}
                         /\ jobStatus'[j] = "partial" => bad # {} /\ good # {}
                         /\ jobStatus'[j] = "failed" => bad # {} /\ good = {}
    BY DEF VerdictHonest, InState, ItemsOf, Terminal
  <2>1. CASE jobStatus'[j] = Verdict(status', j)
    BY <2>1, VerdictStep DEF Verdict, Terminal
  <2>2. CASE jobStatus'[j] = jobStatus[j]
    <3>1. \A i \in ItemsOf(j) : status'[i] = status[i]
      BY <2>2, SettledStays
    <3>2. /\ InState(status', j, {"failed"}) = InState(status, j, {"failed"})
          /\ InState(status', j, {"succeeded", "skipped"})
               = InState(status, j, {"succeeded", "skipped"})
      BY <3>1 DEF InState
    <3>3. cancelReq'[j] = cancelReq[j]
      BY VerdictStep
    <3> QED BY <2>2, <3>2, <3>3 DEF VerdictHonest
  <2> QED BY <2>1, <2>2, VerdictStep
<1>3. LockInv /\ CancelRecorded /\ [Next]_vars => CancelRecorded'
  BY CancelRecordedStep
<1> QED BY LockInit, LockStep, FinishedJobsAreSettled, <1>1, <1>2, <1>3, PTL DEF Spec

-----------------------------------------------------------------------------
(* Final statuses                                                          *)

\* Only a request can take a final status back.
LEMMA FinalStays ==
  ASSUME LockInv, [Next]_vars, NEW j \in Jobs, jobStatus[j] \in Terminal
  PROVE  \/ jobStatus'[j] \in Terminal
         \/ \E c \in Clients : call[c] # None /\ call[c].job = j /\ call'[c] = None
<1> DEFINE Goal == \/ jobStatus'[j] \in Terminal
                   \/ \E c \in Clients : call[c] # None /\ call[c].job = j /\ call'[c] = None
<1> USE DEF LockInv
<1>1. ASSUME NEW J, RefreshJobs(J) PROVE Goal
  BY <1>1, VerdictTerminal DEF RefreshJobs, TypeOK
<1>2. ASSUME NEW k \in Jobs, CreateJob(k) PROVE Goal
  BY <1>2 DEF CreateJob, TypeOK, Terminal
<1>3. ASSUME NEW c \in Clients, ApiWrite(c) PROVE Goal
  <2>1. /\ call[c] # None /\ call' = [call EXCEPT ![c] = None]
        /\ jobStatus' = jobStatus
             \/ jobStatus' = [jobStatus EXCEPT ![call[c].job] = Requested(call[c])]
    BY <1>3 DEF ApiWrite
  <2>2. call'[c] = None
    BY <2>1 DEF TypeOK
  <2> QED BY <2>1, <2>2 DEF TypeOK
<1>4. ASSUME NEW w \in Workers, FinalizePausing(w) \/ LeaseCommit(w) PROVE Goal
  BY <1>4 DEF TypeOK, FinalizePausing, LeaseCommit, Terminal
<1>5. ASSUME NEW w \in Workers, RecoverCommit(w) \/ CancelCommit(w) \/ FinishItem(w) \/ GiveUp(w)
      PROVE  Goal
  BY <1>1, <1>5 DEF RecoverCommit, CancelCommit, FinishItem, GiveUp, SettleItem
<1>6. ASSUME NEW w \in Workers,
             \/ RecoverScan(w) \/ RecoverUpdate(w)
             \/ CancelScan(w) \/ CancelUpdate(w) \/ CancelSelect(w)
             \/ LeaseSelect(w) \/ LeaseNone(w) \/ RetryLater(w)
             \/ HandlerRaises(w) \/ LeaseLost(w) \/ Crash(w) \/ Restart(w)
      PROVE  Goal
  BY <1>6 DEF RecoverScan, RecoverUpdate, CancelScan, CancelUpdate, CancelSelect, LeaseSelect,
              LeaseNone, RetryLater, HandlerRaises, LeaseLost, Crash, Restart, jobVars
<1>7. ASSUME \/ \E c \in Clients : ApiRead(c)
             \/ \E i \in Items : LeaseExpires(i) \/ BackoffElapses(i)
             \/ UNCHANGED vars
      PROVE  Goal
  BY <1>7 DEF ApiRead, LeaseExpires, BackoffElapses, vars, jobVars
<1> QED
  BY <1>2, <1>3, <1>4, <1>5, <1>6, <1>7 DEF Next, RunOnce

\* However often late workers, recovery and cancellation summarise a finished
\* job, they come to the verdict it has: its items do not move any more, and
\* the cancellation it was judged by is on record.  Only the commit of a
\* request that read the job before can change its status.
THEOREM FinishedJobsStay == Spec => FinishedStaysFinished
<1> DEFINE Inv == LockInv /\ TerminalJobSettled /\ CancelRecorded /\ VerdictHonest
           Stays == \A j \in Jobs : jobStatus[j] \in Terminal /\ jobStatus'[j] # jobStatus[j] =>
                      \E c \in Clients : call[c] # None /\ call[c].job = j /\ call'[c] = None
<1>1. Spec => []Inv
  <2>1. Init => CancelRecorded
    BY DEF Init, CancelRecorded
  <2>2. LockInv /\ CancelRecorded /\ [Next]_vars => CancelRecorded'
    BY CancelRecordedStep
  <2> QED BY LockInit, LockStep, FinishedJobsAreSettled, VerdictsAreHonest, <2>1, <2>2, PTL DEF Spec
<1>2. Inv /\ [Next]_vars => [Stays]_vars
  <2> SUFFICES ASSUME Inv, [Next]_vars, NEW j \in Jobs, jobStatus[j] \in Terminal,
                      jobStatus'[j] \in Terminal
               PROVE  jobStatus'[j] = jobStatus[j]
    BY FinalStays
  <2>1. CASE jobStatus'[j] = Verdict(status', j)
    <3>1. /\ InState(status', j, {"failed"}) = InState(status, j, {"failed"})
          /\ InState(status', j, {"succeeded", "skipped"})
               = InState(status, j, {"succeeded", "skipped"})
      BY SettledStays DEF InState
    <3>2. Verdict(status', j) = Verdict(status, j)
      BY <3>1 DEF Verdict
    <3>3. jobStatus[j] = Verdict(status, j)
      BY DEF VerdictHonest, Verdict, Terminal
    <3> QED BY <2>1, <3>2, <3>3
  <2> QED BY <2>1, VerdictStep
<1> HIDE DEF Inv
<1> QED BY <1>1, <1>2, PTL DEF Spec, FinishedStaysFinished
=============================================================================
