------------------------------ MODULE MCAccount ------------------------------
(* Account for TLC: requests are interchangeable. *)
EXTENDS Account, TLC

Symmetry == Permutations(Requests)
=============================================================================
