------------------------------- MODULE Ordered ------------------------------
(* A set of numbers as a sequence, the smallest first: how a store that    *)
(* keeps its records in the order they were written lists some of them.    *)
EXTENDS Integers, Sequences, FiniteSets

\* The number of elements of S before i.
Rank(S, i) == Cardinality({j \in S : j < i})

InOrder(S) == [k \in 1..Cardinality(S) |-> CHOOSE i \in S : Rank(S, i) = k - 1]
=============================================================================
