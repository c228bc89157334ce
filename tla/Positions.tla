------------------------------ MODULE Positions ------------------------------
(***************************************************************************)
(* Picking the entries of a sequence that stand at given indices, in their *)
(* order: what a filtering loop leaves.  The definitions count instead of  *)
(* recurring over the sequence, so that they can be reasoned about.        *)
(***************************************************************************)
EXTENDS Integers, FiniteSets

\* The place of index i among those of S, from 1.
Place(S, i) == Cardinality({j \in S : j <= i})

\* The index at place n.
Nth(S, n) == CHOOSE i \in {j \in S : Place(S, j) = n} : TRUE

\* The entries of s at the indices in S.
Picked(s, S) == [n \in 1..Cardinality(S) |-> s[Nth(S, n)]]

=============================================================================
