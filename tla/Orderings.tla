----------------------------- MODULE Orderings -----------------------------
(***************************************************************************)
(* Sorting, filtering and adding up: slice::sort, Iterator::filter and     *)
(* Iterator::sum, as functions on positions.  Nothing here is recursive    *)
(* over its data, so that theorems can be proved of what uses it.          *)
(***************************************************************************)
EXTENDS Integers, Sequences, FiniteSets

Before(weight, i, j) == weight[i] < weight[j] \/ (weight[i] = weight[j] /\ i < j)

\* How many numbers of P do not come after i.
Rank(P, weight, i) == Cardinality({j \in P : ~Before(weight, i, j)})

\* The numbers of P by weight, those of the same weight in their own order.
Ranked(P, weight) ==
    [k \in 1 .. Cardinality(P) |-> CHOOSE i \in P : Rank(P, weight, i) = k]

\* The elements of s at the positions P.
Picked(s, P) ==
    LET positions == Ranked(P, [i \in P |-> i])
    IN  [k \in 1 .. Cardinality(P) |-> s[positions[k]]]

\* The sum of a sequence of numbers.
SumOf(s) ==
    LET total[n \in 0 .. Len(s)] == IF n = 0 THEN 0 ELSE total[n - 1] + s[n]
    IN  total[Len(s)]
=============================================================================
