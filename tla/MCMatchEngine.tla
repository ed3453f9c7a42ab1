--------------------------- MODULE MCMatchEngine ---------------------------
(***************************************************************************)
(* One match, whose goal is the first platform out of two.                 *)
(***************************************************************************)
EXTENDS MatchEngine, TLC

CONSTANTS c1, c2, c3, c4

MCPayout == [n \in 0..MaxPlatforms |-> n + 1]
CallSymmetry == Permutations(Calls)
=============================================================================
