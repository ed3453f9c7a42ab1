----------------------------- MODULE MCDeposits -----------------------------
(***************************************************************************)
(* Deposits of one cent each by one player, two workers, and a choice of   *)
(* what a gateway may do to a charge.                                      *)
(***************************************************************************)
EXTENDS Deposits, TLC

CONSTANTS p1, p2, u1, w1, w2

MCUser == [p \in Deposit |-> u1]
MCAmount == [p \in Deposit |-> 1]

\* A charge is paid or it is not, or it expires and is paid nevertheless; a
\* paid one may be refunded.
LateHistories ==
  {{}, {"paid"}, {"paid", "refunded"}, {"failed"}, {"expired"}, {"paid", "expired"}}

PaidHistories == {{}, {"paid"}}

\* The first deposit is at MOCK, which identifies its payloads; a second one is
\* at VEOPAG or AMPLOPAY, which do not.
MCIdentified == {p \in Payload : p.deposit = p1}

WorkerSymmetry == Permutations(Workers)
=============================================================================
