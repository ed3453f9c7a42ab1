------------------------------ MODULE Earnings ------------------------------
(***************************************************************************)
(* What a confirmed deposit earns the depositor's referrers, and the       *)
(* payouts they ask for.  The two services know nothing of each other and  *)
(* share the book: commissions and reservations lie in one locked bucket,  *)
(* and whoever takes more from it than is its own takes it from somebody   *)
(* else.                                                                   *)
(***************************************************************************)
EXTENDS Commissions, CommercialWithdrawals, Cents

vars == <<moneyVars, busVars, commissionVars, paymentVars>>

Init == EventsInit /\ CommissionsInit /\ PaymentsInit

Next ==
  \/ EventsNext /\ UNCHANGED <<commissionVars, paymentVars>>
  \/ CommissionsNext /\ UNCHANGED <<paymentVars>>
  \/ PaymentsNext /\ UNCHANGED <<commissionVars>>

Spec == Init /\ [][Next]_vars
-----------------------------------------------------------------------------
TypeOK == EventsTypeOK /\ CommissionsTypeOK /\ PaymentsTypeOK

Amounts == [e \in Commission |-> e.amount]

\* What a user's commissions and payouts have in the locked bucket.
Pending(u) == {e \in Commission : e.payee = u /\ Earned(e) /\ ~ Ruled(e)}
Awaiting(u) == {w \in Payment : Payee[w] = u /\ Reserved(w) /\ ~ Settled(w)}
Owed(u) == Total(Pending(u), Amounts) + Total(Awaiting(u), Asked)

NobodyRulesTwice == \A e \in Commission : ~ RuledBothWays(e)

\* A locked bucket holds what it began with and what its commissions and payouts
\* still have in it, unless one commission was both approved and rejected.
LockedIsOwed ==
  NobodyRulesTwice =>
    \A u \in Users : balance[u].locked = Opening[u].locked + Owed(u)

\* A commission's row follows its money: there is none that was not credited,
\* and none is shown as available or rejected before it was moved, which takes
\* a row.
RowsFollowMoney ==
  \A e \in Commission :
    /\ status[e] # "none" => Earned(e)
    /\ status[e] \in {"AVAILABLE", "REJECTED"} => Book!Done(Ruling(e, status[e]))
    /\ Ruled(e) => status[e] # "none"

\* A payout's row and its money agree, however requests, decisions and deletions
\* of keys overlap: it is settled one way, its reservation has a row, and, as
\* long as no commission was ruled on both ways, a decided payout has moved its
\* money, unless the decision is still at work or was cut short.
PayoutsTellTheMoney ==
  /\ SettledOneWay
  /\ ReservedIsFiled
  /\ NobodyRulesTwice => StatusMatchesMovement

\* Once the events of a deposit have been handled every commission of it is
\* recorded, though the handlers race, unless a process died, or an administrator
\* ruled on one of them before the last was recorded: a ruling that overtakes the
\* handler's own approval makes it throw.  (Nor does it hold once some commission
\* was ruled on both ways, which takes away the money of another and so makes
\* that one's approval throw.)
EarningsArrive ==
  NobodyRulesTwice /\ faults = 0 =>
    \A d \in Deposit \ early :
      /\ published[d] > 0
      /\ inbox["commissions"][d] = 0
      /\ \A k \in Desks : desk[k].todo # <<>> => Current(k).deposit # d
      => Recorded(d)
=============================================================================
