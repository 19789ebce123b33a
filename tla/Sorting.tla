------------------------------ MODULE Sorting ------------------------------
(***************************************************************************)
(* Numbers in ascending order: how a map is walked through by its keys.    *)
(***************************************************************************)
EXTENDS Integers, FiniteSets

\* How many elements of S are not above x.
Rank(S, x) == Cardinality({ y \in S : y <= x })

\* The elements of a finite set of numbers, from the smallest to the largest.
Ascending(S) == [ i \in 1 .. Cardinality(S) |-> CHOOSE x \in S : Rank(S, x) = i ]
=============================================================================
