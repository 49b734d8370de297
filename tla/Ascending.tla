----------------------------- MODULE Ascending -----------------------------
(* The numbers of a finite set in their order, as a loop over slots or a    *)
(* map of ids comes by them.                                                *)
EXTENDS Naturals, FiniteSets

Rank(S, i) == Cardinality({j \in S : j <= i})

InOrder(S) == [k \in 1..Cardinality(S) |-> CHOOSE i \in S : Rank(S, i) = k]
=============================================================================
