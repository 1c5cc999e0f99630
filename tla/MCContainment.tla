---------------------------- MODULE MCContainment ----------------------------
(* Instances of Containment for TLC: one agent, so that every thread meets  *)
(* every other one on its rows.                                             *)
EXTENDS Containment, TLC

CONSTANT a1

Owners == [t \in Token |-> a1]

ThreadSymmetry == Permutations(Handler) \cup Permutations(Admin)

=============================================================================
