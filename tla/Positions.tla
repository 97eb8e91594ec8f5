----------------------------- MODULE Positions -----------------------------
(***************************************************************************)
(* Lists by position: what a loop makes that walks a list and keeps some   *)
(* of its entries, in the order they are in.                               *)
(***************************************************************************)
EXTENDS Integers, Sequences, FiniteSets

\* How many of a set of positions are not after one of them.
Rank(I, i) == Cardinality({j \in I : j <= i})

\* A set of positions, in order.
InOrder(I) == [k \in 1 .. Cardinality(I) |-> CHOOSE i \in I : Rank(I, i) = k]

\* The entries of a list at some of its positions.
Picked(list, I) == [k \in 1 .. Cardinality(I) |-> list[InOrder(I)[k]]]

=============================================================================
