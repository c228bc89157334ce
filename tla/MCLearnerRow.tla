---------------------------- MODULE MCLearnerRow ----------------------------
(* LearnerRow for TLC: requests are interchangeable. *)
EXTENDS LearnerRow, TLC

Symmetry == Permutations(Requests)
=============================================================================
