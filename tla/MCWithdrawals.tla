--------------------------- MODULE MCWithdrawals ---------------------------
(***************************************************************************)
(* Withdrawals of one cent each by one player.                             *)
(***************************************************************************)
EXTENDS Withdrawals, TLC

CONSTANTS r1, r2, g1, g2, w1, w2

MCAmount == [w \in Withdraw |-> 1]

\* VEOPAG and AMPLOPAY identify no payload.
NoneIdentified == {}

\* A gateway approves whatever it accepted ...
ApprovingHistories == {{}, {"approved"}}

\* ... approves it or rejects it ...
SteadyHistories == ApprovingHistories \union {{"rejected"}}

\* ... or takes back what it said.
LateHistories == SteadyHistories \union {Verdicts}

\* Verdicts arrive as webhooks alone.
Webhook == {p \in Payload : p.from = "gateway"}

\* Requests are alike, and so are gateways.
Symmetry == Permutations(Withdraw) \union Permutations(Gateways)
=============================================================================
