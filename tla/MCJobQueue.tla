----------------------------- MODULE MCJobQueue -----------------------------
(* Instances of JobQueue for the safety properties. *)
EXTENDS JobQueue, TLC

CONSTANTS w1, w2, c1, c2, j1, a, b

OneJob == (a :> j1 @@ b :> j1)

\* One SEM_WORKER_ID per process.
OwnIds == [w \in Workers |-> w]

WorkerSymmetry == Permutations(Workers)
=============================================================================
