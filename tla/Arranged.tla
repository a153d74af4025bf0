------------------------------ MODULE Arranged ------------------------------
(***************************************************************************)
(* The elements of a finite set in a strict order, as a sequence: each at  *)
(* the place that what comes before it leaves.                             *)
(***************************************************************************)
EXTENDS Naturals, FiniteSets

(* What comes before x, where R is the set of pairs of the order.          *)
Before(R, S, x) == {y \in S : <<y, x>> \in R}
ArrangedBy(R, S) ==
  [k \in 1..Cardinality(S) |-> CHOOSE x \in S : Cardinality(Before(R, S, x)) = k - 1]

Ascents(S) == {p \in S \X S : p[1] < p[2]}
Ascending(S) == ArrangedBy(Ascents(S), S)
=============================================================================
