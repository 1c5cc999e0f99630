---------------------------- MODULE MCAdmission ----------------------------
(* An instance of Admission for TLC: two threads of one process, or of two. *)
EXTENDS Admission

CONSTANTS p1, p2, c1, c2

Placed == {h \in [Thread -> Process] : h[c1] = p1}
=============================================================================
