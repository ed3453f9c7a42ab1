----------------------------- MODULE MCEarnings -----------------------------
(***************************************************************************)
(* A deposit of ten cents by a player whom an affiliate referred: it earns *)
(* the affiliate one cent and the manager two.  The affiliate may ask for  *)
(* it once it is available.                                                *)
(***************************************************************************)
EXTENDS Earnings, TLC

CONSTANTS player, agent, boss, d1, k1, k2, w1, x1

MCPlayer == [d \in Deposit |-> player]
MCPaid == d1 :> 10
MCReferredBy == player :> agent @@ agent :> player @@ boss :> None
MCManagerOf == agent :> boss
MCCeiling == boss :> 30
MCLevelPercent == <<10, 5, 2>>
MCOverride == agent :> None
MCOpening == [u \in Users |-> [b \in Buckets |-> 0]]

MCPayee == w1 :> agent
MCAsked == w1 :> 1
MCPixKeyOf == w1 :> x1

DeskSymmetry == Permutations(Desks)
=============================================================================
