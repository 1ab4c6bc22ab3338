------------------------------- MODULE Lists -------------------------------
(* Lists that keep some of their entries: Vec::retain, Iterator::filter.     *)
EXTENDS Integers, Sequences, FiniteSets

\* The elements of a finite set of numbers, ascending; and the entries of a
\* list at the given places, in their order.
InOrder(S) ==
    [n \in 1..Cardinality(S) |-> CHOOSE k \in S : Cardinality({j \in S : j <= k}) = n]
Retain(list, places) == [n \in 1..Cardinality(places) |-> list[InOrder(places)[n]]]
=============================================================================
