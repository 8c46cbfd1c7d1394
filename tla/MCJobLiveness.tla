--------------------------- MODULE MCJobLiveness ---------------------------
(***************************************************************************)
(* The instance of JobQueue for its liveness properties.  Two items, two   *)
(* workers, a client and a crash at once are out of TLC's reach for        *)
(* temporal properties, so each behaviour is of one of two cases.          *)
(***************************************************************************)
EXTENDS JobQueue, TLC

CONSTANTS w1, w2, c1, j1, a, b

OneJob == (a :> j1 @@ b :> j1)

\* One SEM_WORKER_ID per process.
OwnIds == [w \in Workers |-> w]

VARIABLE case   \* which of them it is

caseVars == <<vars, case>>

\* Workers die and nobody sends requests, or the other way round.
OfCase ==
  /\ case = "crashes" => call' = call
  /\ case = "requests" => crashes' = 0

CaseInit == Init /\ case \in {"crashes", "requests"}

CaseNext == Next /\ OfCase /\ UNCHANGED case

\* Neither requests nor crashes nor the creation of jobs are fair, so what a
\* case leaves out is nothing that has to happen.
CaseSpec == CaseInit /\ [][CaseNext]_caseVars /\ Fairness
=============================================================================
