------------------------------- MODULE Cents -------------------------------
(***************************************************************************)
(* Sums of money, counted cent by cent: each item of a set contributes one *)
(* pair <<item, n>> for each of its cents, and the sum is the number of    *)
(* pairs.  A cardinality grows and shrinks with the set by the theorems on *)
(* finite sets, where a fold would need an induction at every step.        *)
(***************************************************************************)
EXTENDS Naturals, FiniteSets

CentsOf(S, amount) == UNION {{x} \X (1..amount[x]) : x \in S}

\* What the items of S add up to, amount being a function of the items.
Total(S, amount) == Cardinality(CentsOf(S, amount))
=============================================================================
