----------------------------- MODULE Selections -----------------------------
(***************************************************************************)
(* Choosing elements of a sequence by their positions, as the loops of the *)
(* tool do that go over a list and continue at what they pass over.        *)
(***************************************************************************)
EXTENDS Naturals, Sequences, FiniteSets

\* The elements of s at the positions P, in their order.
Only(s, P) == [n \in 1..Cardinality(P) |-> s[CHOOSE i \in P : Cardinality({k \in P : k <= i}) = n]]
=============================================================================
