------------------------------ MODULE MCOffice ------------------------------
(***************************************************************************)
(* Two players' deposits for the bonus: two of the eligible player, whose  *)
(* confirmations are published up to twice each, and one of another.  Of   *)
(* the router, a change of the active gateways with a restart or a check   *)
(* beside it, and two checks with a restart; of sessions, a death or the   *)
(* end of a token's life.                                                  *)
(***************************************************************************)
EXTENDS Office, TLC

CONSTANTS rookie, veteran, d1, d2, d3, t1, t2

MCPlayer == d1 :> rookie @@ d2 :> rookie @@ d3 :> veteran
MCPaid == d1 :> 2 @@ d2 :> 4 @@ d3 :> 2
MCSessionBounds ==
  {[deaths |-> 1, expiring |-> {}], [deaths |-> 0, expiring |-> {t1}]}
MCRouterBounds ==
  {[switches |-> 1, checks |-> 0, restarts |-> 1], [switches |-> 1, checks |-> 1, restarts |-> 0],
   [switches |-> 0, checks |-> 2, restarts |-> 1]}
MCOpening == [u \in Users |-> [b \in Buckets |-> 0]]
=============================================================================
