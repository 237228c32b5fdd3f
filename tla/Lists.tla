------------------------------- MODULE Lists -------------------------------
(***************************************************************************)
(* Sorted and filtered lists, by the rank of what is kept: the k-th place  *)
(* of the new list is that of the k-th smallest place, or number, that     *)
(* stays.  A recursive filter would say the same step by step; here it is  *)
(* a function whose every place has a meaning of its own.                  *)
(***************************************************************************)
EXTENDS Naturals, Sequences, FiniteSets

\* The k-th smallest number of a set.
Nth(S, k) == CHOOSE n \in S : Cardinality({m \in S : m <= n}) = k

\* The numbers of a set, sorted.
Ascending(S) == [k \in 1..Cardinality(S) |-> Nth(S, k)]
Descending(S) == [k \in 1..Cardinality(S) |-> Nth(S, Cardinality(S) + 1 - k)]

\* Array.prototype.filter: what a list has at the places that pass the test.
Filtered(list, places) == [k \in 1..Cardinality(places) |-> list[Nth(places, k)]]
=============================================================================
