----------------------------- MODULE Selections -----------------------------
(***************************************************************************)
(* Elements of a sequence picked by a condition, in the sequence's order   *)
(* (the filters and collections of the engines).                           *)
(***************************************************************************)
EXTENDS Integers, Sequences, FiniteSets

\* Numbers in increasing order: SetToSortSeq(S, <).
InOrder(S) == [k \in 1..Cardinality(S) |-> CHOOSE i \in S : Cardinality({j \in S : j <= i}) = k]

\* Every position of s whose element satisfies P, and these elements, in order.
Positions(s, P(_)) == InOrder({i \in DOMAIN s : P(s[i])})
Selected(s, P(_)) == LET at == Positions(s, P) IN [k \in DOMAIN at |-> s[at[k]]]
=============================================================================
