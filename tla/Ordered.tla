------------------------------- MODULE Ordered -------------------------------
(***************************************************************************)
(* What sorting and filtering leave: the members of a set of numbers in    *)
(* ascending order, and the elements of a sequence at some of its places.  *)
(* The library's SetToSortSeq and SelectSeq take an operator, which a      *)
(* theorem cannot speak about.                                             *)
(***************************************************************************)
EXTENDS Naturals, FiniteSets

\* How many members of a set come up to a number.
Rank(S, x) == Cardinality({y \in S : y <= x})

Ascending(S) == [n \in 1..Cardinality(S) |-> CHOOSE x \in S : Rank(S, x) = n]

\* Array.prototype.filter.
AtPlaces(s, P) == [n \in 1..Cardinality(P) |-> s[Ascending(P)[n]]]
=============================================================================
