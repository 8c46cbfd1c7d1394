---------------------------- MODULE OneShotToken ----------------------------
(***************************************************************************)
(* What a single-use token with a time to live promises.                   *)
(***************************************************************************)
EXTENDS Integers

VARIABLES
  token,  \* "none", "open", "used" or "expired"
  uses    \* how often it had an effect

tokenVars == <<token, uses>>

Issue == token = "none" /\ token' = "open" /\ UNCHANGED uses

Use == token = "open" /\ token' = "used" /\ uses' = uses + 1

Expire == token = "open" /\ token' = "expired" /\ UNCHANGED uses

Init == token = "none" /\ uses = 0

Next == Issue \/ Use \/ Expire

Spec == Init /\ [][Next]_tokenVars
=============================================================================
