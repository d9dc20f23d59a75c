------------------------------ MODULE Positions ------------------------------
(***************************************************************************)
(* Lists from which some entries are left out, as filter() and retain()    *)
(* leave them out: the others keep their order.  What is kept is named by  *)
(* its positions, which needs no recursion and can be proved about.        *)
(***************************************************************************)
EXTENDS Naturals, FiniteSets

\* The place of i among the positions K, and the position that is at a place.
Rank(K, i) == Cardinality({j \in K : j <= i})
Nth(K, k)  == CHOOSE i \in K : Rank(K, i) = k

\* The entries of h at the positions K, in their order.
Picked(h, K) == [k \in 1..Cardinality(K) |-> h[Nth(K, k)]]
=============================================================================
