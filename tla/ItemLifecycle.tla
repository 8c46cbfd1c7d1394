--------------------------- MODULE ItemLifecycle ---------------------------
(***************************************************************************)
(* What the job queue promises for one job item, whoever runs it and       *)
(* whatever fails: it is started at most Budget times, every attempt ends  *)
(* in one outcome or goes back to the queue, only an item nobody runs is   *)
(* cancelled, and an outcome is never taken back.                          *)
(***************************************************************************)
EXTENDS Naturals

CONSTANTS Items, Budget

VARIABLES state, tries

Outcomes == {"succeeded", "failed", "skipped"}

Init ==
  /\ state = [i \in Items |-> "absent"]
  /\ tries = [i \in Items |-> 0]

Becomes(i, from, to) == state[i] = from /\ state'[i] = to
SameTries(i) == tries'[i] = tries[i]

Submit(i)  == Becomes(i, "absent", "waiting") /\ SameTries(i)
Start(i)   == /\ Becomes(i, "waiting", "running")
              /\ tries[i] < Budget
              /\ tries'[i] = tries[i] + 1
Release(i) == Becomes(i, "running", "waiting") /\ tries[i] < Budget /\ SameTries(i)
Settle(i)  == (\E o \in Outcomes : Becomes(i, "running", o)) /\ SameTries(i)
Cancel(i)  == Becomes(i, "waiting", "cancelled") /\ SameTries(i)
Rest(i)    == state'[i] = state[i] /\ SameTries(i)

\* One transaction may move several items.
Next ==
  \A i \in Items :
    Submit(i) \/ Start(i) \/ Release(i) \/ Settle(i) \/ Cancel(i) \/ Rest(i)

Spec == Init /\ [][Next]_<<state, tries>>
=============================================================================
