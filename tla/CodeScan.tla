------------------------------ MODULE CodeScan ------------------------------
(***************************************************************************)
(* A scan of the fleet for verification codes: accounts are selected, one  *)
(* task per account waits for a slot and asks the provider, and every task *)
(* is cancelled 45 seconds after the scan began, whether it has a slot or  *)
(* not.                                                                    *)
(***************************************************************************)
EXTENDS Integers, FiniteSets

CONSTANTS
  Accounts,     \* accounts, in the order of their e-mail addresses
  Order,        \* that order
  Slots,        \* tasks that may run at once
  AccountLimit  \* account_limit

ASSUME ScanAssumption ==
  /\ IsFiniteSet(Accounts) /\ Order \in [Accounts -> Nat]
  /\ Slots \in Nat \ {0} /\ AccountLimit \in Nat \ {0}

VARIABLES
  kind,     \* what each account is: "active", "unauthorized" or "inactive"
  asked,    \* account_ids of the request; none stands for all
  chosen,   \* selected_ids
  task,     \* what became of each account
  late,     \* 45 seconds have passed
  phase     \* of the request

scanVars == <<kind, asked, chosen, task, late, phase>>

Waiting == {a \in Accounts : task[a] = "waiting"}
Scanning == {a \in Accounts : task[a] = "scanning"}
Tasks == Waiting \cup Scanning

Errors == {"invalid", "not_active", "failed", "timeout"}
Failed == {a \in Accounts : task[a] \in Errors}

\* Mutant: accounts that are not active are selected.
SelectableAny == IF asked = {} THEN Accounts ELSE asked

Selectable == {a \in IF asked = {} THEN Accounts ELSE asked : kind[a] # "inactive"}

Selected(S) == {a \in S : Cardinality({b \in S : Order[b] < Order[a]}) < AccountLimit}

\* find_fleet_verification_codes: errors for what is asked and not selected,
\* tasks for what is selected and authorized.
BeginScan ==
  /\ phase = "new"
  /\ chosen' = Selected(Selectable)
  /\ task' = [a \in Accounts |->
       IF Selected(Selectable) = {} THEN "none"
       ELSE IF a \notin Selected(Selectable) THEN IF a \in asked THEN "not_active" ELSE "none"
       ELSE IF kind[a] = "unauthorized" THEN "invalid" ELSE "waiting"]
  /\ phase' = "scan"
  /\ UNCHANGED <<kind, asked, late>>

SlotFree == Cardinality(Scanning) < Slots

Acquire(a) ==
  /\ a \in Waiting /\ ~late /\ SlotFree
  /\ task' = [task EXCEPT ![a] = "scanning"]
  /\ UNCHANGED <<kind, asked, chosen, late, phase>>

\* find_account_verification_codes: its mail was listed and what looked like a
\* code was read, or an exception.
Answer(a, outcome) ==
  /\ a \in Scanning
  /\ task' = [task EXCEPT ![a] = outcome]
  /\ UNCHANGED <<kind, asked, chosen, late, phase>>

\* The event loop starts what can start long before.
Deadline ==
  /\ phase = "scan" /\ ~late
  /\ Waiting # {} => ~SlotFree
  /\ late' = TRUE
  /\ UNCHANGED <<kind, asked, chosen, task, phase>>

\* Mutant: only tasks that have a slot are cancelled.
CancelledRunning(a) == a \in Scanning

Cancelled(a) == a \in Tasks

Cancel(a) ==
  /\ late /\ Cancelled(a)
  /\ task' = [task EXCEPT ![a] = "timeout"]
  /\ UNCHANGED <<kind, asked, chosen, late, phase>>

FinishScan ==
  /\ phase = "scan" /\ Tasks = {}
  /\ phase' = "done"
  /\ UNCHANGED <<kind, asked, chosen, task, late>>

-----------------------------------------------------------------------------
ScanInit ==
  /\ kind \in [Accounts -> {"active", "unauthorized", "inactive"}]
  /\ asked \in SUBSET Accounts
  /\ chosen = {} /\ task = [a \in Accounts |-> "none"]
  /\ late = FALSE /\ phase = "new"

ScanNext ==
  \/ BeginScan \/ Deadline \/ FinishScan
  \/ \E a \in Accounts : Acquire(a) \/ Cancel(a) \/ \E o \in {"found", "failed"} : Answer(a, o)

\* The clock runs, and the event loop starts, cancels and gathers.
ScanSpec ==
  /\ ScanInit /\ [][ScanNext]_scanVars
  /\ WF_scanVars(BeginScan) /\ WF_scanVars(FinishScan) /\ WF_scanVars(Deadline)
  /\ WF_scanVars(\E a \in Accounts : Acquire(a)) /\ WF_scanVars(\E a \in Accounts : Cancel(a))

-----------------------------------------------------------------------------
(* Properties                                                              *)

ScanTypeOK ==
  /\ kind \in [Accounts -> {"active", "unauthorized", "inactive"}]
  /\ asked \subseteq Accounts /\ chosen \subseteq Accounts
  /\ task \in [Accounts -> Errors \cup {"none", "waiting", "scanning", "found"}]
  /\ late \in BOOLEAN /\ phase \in {"new", "scan", "done"}

\* If anything was selected the answer accounts for every account that was
\* asked for, by a scan or an error.  Only inactive ones are said to be so,
\* unless more were asked for than the limit; only authorized ones are
\* scanned; none is timed out before it was tried, unless there are more than
\* there are slots.
AnswerIsTrue ==
  /\ phase = "done" /\ chosen # {} => \A a \in chosen \cup asked : task[a] \in Errors \cup {"found"}
  /\ \A a \in Accounts :
       /\ task[a] = "not_active" => kind[a] = "inactive" \/ Cardinality(asked) > AccountLimit
       /\ task[a] \in {"waiting", "scanning", "found"} => kind[a] = "active"
  /\ Cardinality(chosen) <= Slots => ~(late /\ Waiting # {})

\* The answer comes, and it is true.
AnswerComes == (phase = "scan" ~> phase = "done") /\ []AnswerIsTrue
=============================================================================
