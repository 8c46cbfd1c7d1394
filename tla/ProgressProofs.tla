--------------------------- MODULE ProgressProofs ---------------------------
(***************************************************************************)
(* Theorems about CodeScan, whose answers are true, and about the          *)
(* composition of MCProgress.                                              *)
(***************************************************************************)
EXTENDS MCProgress, MailProofs, TreeProofs, FeedProofs

-----------------------------------------------------------------------------
(* CodeScan                                                                *)

\* Everything that was selected or asked for has a task or an error, only authorized accounts
\* have tasks, and only inactive ones are said to be so unless too many were asked for.
TasksTold ==
  /\ phase = "new" => chosen = {} /\ ~late /\ task = [a \in Accounts |-> "none"]
  /\ phase # "new" /\ chosen # {} =>
       \A a \in chosen \cup asked : task[a] # "none"
  /\ phase = "done" => Tasks = {}
  /\ Tasks \subseteq chosen
  /\ \A a \in Accounts :
       /\ task[a] = "not_active" => kind[a] = "inactive" \/ Cardinality(asked) > AccountLimit
       /\ task[a] \in {"waiting", "scanning", "found"} => kind[a] = "active"

\* After the timeout no task waits that could have had a slot.
TriedInTime == Cardinality(chosen) <= Slots => ~(late /\ Waiting # {})

ScanInv == ScanTypeOK /\ TasksTold /\ TriedInTime

LEMMA ScanInvInit == ScanInit => ScanInv
<1> SUFFICES ASSUME ScanInit PROVE ScanInv
  OBVIOUS
<1>1. ScanTypeOK
  BY Zenon DEF ScanInit, ScanTypeOK, Errors
<1>2. Waiting = {} /\ Scanning = {}
  BY DEF ScanInit, Waiting, Scanning
<1>3. TasksTold /\ TriedInTime
  BY <1>2 DEF ScanInit, TasksTold, TriedInTime, Tasks
<1>4. QED
  BY <1>1, <1>3 DEF ScanInv

LEMMA AccountsFinite ==
  ASSUME NEW S \in SUBSET Accounts
  PROVE  IsFiniteSet(S) /\ Cardinality(S) \in Nat
BY ScanAssumption, FS_Subset, FS_CardinalityType

\* A proper subset is smaller.
LEMMA OneMore ==
  ASSUME NEW S \in SUBSET Accounts, NEW T \in SUBSET S, NEW a \in S, a \notin T
  PROVE  Cardinality(T) < Cardinality(S)
<1>1. IsFiniteSet(S) /\ Cardinality(S) \in Nat /\ Cardinality(T) \in Nat
  BY AccountsFinite
<1>2. Cardinality(T) <= Cardinality(S) /\ (Cardinality(S) = Cardinality(T) => S = T)
  BY <1>1, FS_Subset
<1>3. QED
  BY <1>1, <1>2

\* An active account that is asked for is selected unless the limit stands in the way.
LEMMA LeftOutByLimit ==
  ASSUME ScanInv, NEW a \in asked, a \notin Selected(Selectable), kind[a] # "inactive"
  PROVE  Cardinality(asked) > AccountLimit
<1> DEFINE before == {b \in Selectable : Order[b] < Order[a]}
<1>1. a \in Selectable /\ Selectable \subseteq asked /\ asked \in SUBSET Accounts
  BY DEF Selectable, ScanInv, ScanTypeOK
<1>2. Order[a] \in Nat
  BY <1>1, ScanAssumption
<1>3. a \notin before /\ before \subseteq asked
  BY <1>1, <1>2
<1>4. Cardinality(before) < Cardinality(asked)
  BY <1>1, <1>3, OneMore
<1>5. ~(Cardinality(before) < AccountLimit)
  BY <1>1 DEF Selected
<1>6. Cardinality(before) \in Nat /\ Cardinality(asked) \in Nat /\ AccountLimit \in Nat
  BY <1>1, <1>3, AccountsFinite, ScanAssumption
<1> HIDE DEF before
<1>7. QED
  BY <1>4, <1>5, <1>6

LEMMA BeginStep ==
  ASSUME ScanInv, BeginScan
  PROVE  ScanInv'
<1> DEFINE S == Selected(Selectable)
<1>1. /\ phase = "new" /\ chosen' = S /\ phase' = "scan" /\ UNCHANGED <<kind, asked, late>>
      /\ task' = [a \in Accounts |->
           IF S = {} THEN "none"
           ELSE IF a \notin S THEN IF a \in asked THEN "not_active" ELSE "none"
           ELSE IF kind[a] = "unauthorized" THEN "invalid" ELSE "waiting"]
  BY DEF BeginScan
<1>2. S \subseteq Selectable /\ S \subseteq Accounts /\ \A a \in S : kind[a] # "inactive"
  BY DEF Selected, Selectable, ScanInv, ScanTypeOK
<1>3. \A a \in asked : a \notin S => kind[a] = "inactive" \/ Cardinality(asked) > AccountLimit
  BY LeftOutByLimit
<1> HIDE DEF S
<1>4. ScanTypeOK'
  BY <1>1, <1>2 DEF ScanInv, ScanTypeOK, Errors
<1>5. Tasks' \subseteq S /\ (S = {} => Tasks' = {})
  BY <1>1 DEF Tasks, Waiting, Scanning
<1>6. \A a \in Accounts : kind[a] \in {"active", "unauthorized", "inactive"}
  BY DEF ScanInv, ScanTypeOK
<1>7. TasksTold'
  BY <1>1, <1>2, <1>3, <1>5, <1>6 DEF TasksTold, ScanInv, ScanTypeOK
<1>8. TriedInTime'
  BY <1>1 DEF ScanInv, TasksTold, TriedInTime
<1>9. QED
  BY <1>4, <1>7, <1>8 DEF ScanInv

\* A task gets a slot, an answer or a timeout.
LEMMA TaskStep ==
  ASSUME ScanInv, NEW a \in Accounts, task[a] \in {"waiting", "scanning"},
         NEW v \in {"scanning", "found", "failed", "timeout"},
         v = "scanning" => ~late, task' = [task EXCEPT ![a] = v],
         UNCHANGED <<kind, asked, chosen, late, phase>>
  PROVE  ScanInv'
<1>1. ScanTypeOK'
  BY DEF ScanInv, ScanTypeOK, Errors
<1>2. task'[a] = v /\ \A b \in Accounts \ {a} : task'[b] = task[b]
  BY DEF ScanInv, ScanTypeOK
<1>3. a \in Tasks
  BY DEF Tasks, Waiting, Scanning
<1>4. Tasks' \subseteq Tasks /\ Waiting' \subseteq Waiting
  BY <1>2, <1>3 DEF Tasks, Waiting, Scanning
<1>5. phase = "scan" /\ chosen \cup asked \subseteq Accounts
  BY <1>3 DEF ScanInv, TasksTold, ScanTypeOK, Tasks, Waiting, Scanning
<1>6. TasksTold'
  <2>1. \A b \in chosen \cup asked : chosen # {} => task'[b] # "none"
    BY <1>2, <1>5 DEF ScanInv, TasksTold
  <2>2. \A b \in Accounts :
          /\ task'[b] = "not_active" => kind[b] = "inactive" \/ Cardinality(asked) > AccountLimit
          /\ task'[b] \in {"waiting", "scanning", "found"} => kind[b] = "active"
    BY <1>2 DEF ScanInv, TasksTold
  <2>3. Tasks' \subseteq chosen
    BY <1>4 DEF ScanInv, TasksTold
  <2>4. QED
    BY <1>5, <2>1, <2>2, <2>3 DEF TasksTold
<1>7. TriedInTime'
  BY <1>4 DEF ScanInv, TriedInTime
<1>8. QED
  BY <1>1, <1>6, <1>7 DEF ScanInv

\* At the timeout every slot is in use if anything waits: then more was selected than there are
\* slots.
LEMMA DeadlineStep ==
  ASSUME ScanInv, Deadline
  PROVE  ScanInv'
<1>1. /\ phase = "scan" /\ late' = TRUE /\ (Waiting # {} => ~SlotFree)
      /\ UNCHANGED <<kind, asked, chosen, task, phase>>
  BY DEF Deadline
<1>2. ScanTypeOK'
  <2>1. late' \in BOOLEAN
    BY <1>1, Zenon
  <2>2. QED
    BY <1>1, <2>1 DEF ScanInv, ScanTypeOK
<1>3. Tasks' = Tasks /\ Waiting' = Waiting
  BY <1>1 DEF Tasks, Waiting, Scanning
<1>4. TasksTold'
  BY <1>1, <1>3 DEF ScanInv, TasksTold
<1>5. TriedInTime'
  <2>1. SUFFICES ASSUME Cardinality(chosen) <= Slots, NEW a \in Waiting PROVE FALSE
    BY <1>1, <1>3 DEF TriedInTime
  <2>2. ~(Cardinality(Scanning) < Slots)
    BY <1>1, <2>1 DEF SlotFree
  <2>3. /\ Scanning \subseteq chosen /\ a \in chosen /\ a \notin Scanning
        /\ chosen \in SUBSET Accounts
    BY DEF ScanInv, ScanTypeOK, TasksTold, Tasks, Waiting, Scanning
  <2>4. Cardinality(Scanning) < Cardinality(chosen)
    BY <2>3, OneMore
  <2>5. Cardinality(Scanning) \in Nat /\ Cardinality(chosen) \in Nat /\ Slots \in Nat
    BY <2>3, AccountsFinite, ScanAssumption
  <2>6. QED
    BY <2>1, <2>2, <2>4, <2>5
<1>6. QED
  BY <1>2, <1>4, <1>5 DEF ScanInv

LEMMA FinishStep ==
  ASSUME ScanInv, FinishScan
  PROVE  ScanInv'
<1>1. /\ phase = "scan" /\ Tasks = {} /\ phase' = "done"
      /\ UNCHANGED <<kind, asked, chosen, task, late>>
  BY DEF FinishScan
<1>2. Tasks' = Tasks /\ Waiting' = Waiting
  BY <1>1 DEF Tasks, Waiting, Scanning
<1>3. ScanTypeOK' /\ TasksTold' /\ TriedInTime'
  BY <1>1, <1>2 DEF ScanInv, ScanTypeOK, TasksTold, TriedInTime
<1>4. QED
  BY <1>3 DEF ScanInv

LEMMA ScanInvStep == ScanInv /\ [ScanNext]_scanVars => ScanInv'
<1> SUFFICES ASSUME ScanInv, [ScanNext]_scanVars PROVE ScanInv'
  OBVIOUS
<1>1. ASSUME NEW a \in Accounts, Acquire(a) PROVE ScanInv'
  BY <1>1, TaskStep DEF Acquire, Waiting
<1>2. ASSUME NEW a \in Accounts, Cancel(a) PROVE ScanInv'
  BY <1>2, TaskStep DEF Cancel, Cancelled, Tasks, Waiting, Scanning
<1>3. ASSUME NEW a \in Accounts, NEW o \in {"found", "failed"}, Answer(a, o) PROVE ScanInv'
  BY <1>3, TaskStep DEF Answer, Scanning
<1>4. CASE UNCHANGED scanVars
  BY <1>4 DEF scanVars, ScanInv, ScanTypeOK, TasksTold, TriedInTime, Tasks, Waiting, Scanning
<1> HIDE DEF ScanInv
<1>5. QED
  BY <1>1, <1>2, <1>3, <1>4, BeginStep, DeadlineStep, FinishStep DEF ScanNext

LEMMA ScanInvariant == ScanSpec => []ScanInv
<1>1. QED
  BY ScanInvInit, ScanInvStep, PTL DEF ScanSpec

\* Every reachable state of a scan is well typed.
THEOREM ScanTypes == ScanSpec => []ScanTypeOK
<1>1. ScanInv => ScanTypeOK
  BY DEF ScanInv
<1>2. QED
  BY <1>1, ScanInvariant, PTL

\* The answer of find_fleet_verification_codes accounts for what was asked, says "not active" of
\* inactive accounts only, and scans authorized ones only, for any fleet, limit and slots.
THEOREM AnswersAreTrue == ScanSpec => []AnswerIsTrue
<1>1. ScanInv => AnswerIsTrue
  <2> SUFFICES ASSUME ScanInv PROVE AnswerIsTrue
    OBVIOUS
  <2>1. ASSUME phase = "done", chosen # {}, NEW a \in chosen \cup asked
        PROVE  task[a] \in Errors \cup {"found"}
    <3>1. a \in Accounts /\ task[a] \in Errors \cup {"none", "waiting", "scanning", "found"}
      BY DEF ScanInv, ScanTypeOK
    <3>2. task[a] # "none" /\ a \notin Waiting /\ a \notin Scanning
      BY <2>1 DEF ScanInv, TasksTold, Tasks
    <3>3. QED
      BY <3>1, <3>2 DEF Waiting, Scanning
  <2>2. QED
    BY <2>1 DEF ScanInv, TasksTold, TriedInTime, AnswerIsTrue
<1>2. QED
  BY <1>1, ScanInvariant, PTL

-----------------------------------------------------------------------------
(* Side by side                                                            *)

\* The components keep their types as well when MCProgress runs them side by side: every step of
\* AllSpec is one of a single component, and none needs the fairness that AllSpec adds.
THEOREM ProgressTypes == AllSpec => []AllTypeOK
<1>1. AllInit => TreeInit /\ StoreInit /\ ScanInit /\ FeedInit /\ Init
  BY DEF AllInit
<1>2. [AllNext]_allVars => [TreeNext]_groupVars
  BY DEF AllNext, allVars
<1>3. [AllNext]_allVars => [StoreNext]_storeVars
  BY DEF AllNext, allVars
<1>4. [AllNext]_allVars => [ScanNext]_scanVars
  BY DEF AllNext, allVars
<1>5. [AllNext]_allVars => [FeedNext]_feedVars
  BY DEF AllNext, allVars
<1>6. [AllNext]_allVars => [Next]_vars
  BY DEF AllNext, allVars
<1>7. AllSpec => []TreeInv
  BY <1>1, <1>2, TreeInvInit, TreeInvStep, PTL DEF AllSpec
<1>8. AllSpec => StoreSpec /\ Spec
  BY <1>1, <1>3, <1>6, PTL DEF AllSpec, StoreSpec, Spec
<1>9. AllSpec => []ScanInv
  BY <1>1, <1>4, ScanInvInit, ScanInvStep, PTL DEF AllSpec
<1>10. AllSpec => []FeedInv
  BY <1>1, <1>5, FeedInvInit, FeedInvStep, PTL DEF AllSpec
<1>11. TreeInv => TreeTypeOK
  BY DEF TreeInv, TreeTyped, TreeTypeOK, EditRecord, WalkRecord
<1>12. ScanInv => ScanTypeOK
  BY DEF ScanInv
<1>13. FeedInv => FeedTypeOK
  BY DEF FeedInv, FeedTyped, WriterRecord, ReaderRecord, FeedTypeOK
<1>14. QED
  BY <1>7, <1>8, <1>9, <1>10, <1>11, <1>12, <1>13, StoreTypes, ForwardingTypes, PTL
     DEF AllTypeOK

=============================================================================
