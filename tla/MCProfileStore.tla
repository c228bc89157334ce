--------------------------- MODULE MCProfileStore ---------------------------
(***************************************************************************)
(* Three commands, one of which records a row the API always refuses; the  *)
(* others are interchangeable.                                             *)
(***************************************************************************)
EXTENDS ProfileStore, TLC

Symmetry == Permutations(Commands \ Refused)
=============================================================================
