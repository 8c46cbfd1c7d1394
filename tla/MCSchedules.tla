---------------------------- MODULE MCSchedules ----------------------------
(* Instances of Schedules for TLC. *)
EXTENDS Schedules, TLC

CONSTANTS s1, s2, w1, w2, e1, e2

\* failed_only is a field of token_refresh payloads only: a value that is no
\* boolean is refused there and ignored by the other task types.
TaskTypes    == {"token_refresh", "retention_sync"}
PayloadKinds == {"plain", "odd_failed_only"}
Accepted     == (TaskTypes \X PayloadKinds) \ {<<"token_refresh", "odd_failed_only">>}

Symmetric == Permutations(Schedules) \cup Permutations(Workers) \cup Permutations(Editors)
=============================================================================
