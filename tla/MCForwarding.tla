---------------------------- MODULE MCForwarding ----------------------------
(* Instances of Forwarding for TLC. *)
EXTENDS Forwarding, TLC

CONSTANTS m1, m2, d1, d2, s1, s2

OneMessage  == (m1 :> 1)
TwoMessages == (m1 :> 1 @@ m2 :> 2)

Symmetric == Permutations(Destinations) \cup Permutations(Scans)
=============================================================================
