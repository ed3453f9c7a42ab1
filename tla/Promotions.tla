----------------------------- MODULE Promotions -----------------------------
(***************************************************************************)
(* PromotionsService: a player who signed up from the demo is credited a   *)
(* percentage of the first confirmed deposit.  Which deposit is the first  *)
(* is decided by counting the player's DEPOSIT transactions when the event *)
(* is handled, not when the deposit was confirmed.                         *)
(***************************************************************************)
EXTENDS DepositEvents

CONSTANTS
  Handlers,     \* handlers of depositConfirmed that may run at one time
  Eligible,     \* players with eligibleForFirstDepositBonus
  BonusPercent  \* firstDepositBonusPercent

ASSUME PromotionsAssumption == "promotions" \in Subscribers /\ BonusPercent \in Nat

VARIABLE handling  \* [Handlers -> [at, deposit]]

NoEvent == [at |-> "idle", deposit |-> None]

DepositsOf(u) == {d \in Deposit : Player[d] = u /\ Confirmed(d)}

BonusCents(d) == (2 * Paid[d] * BonusPercent + 100) \div 200
Bonus(d) == Movement("credit", "bonus", Player[d], BonusCents(d), <<"signup-bonus", d>>)

PromotionsInit == handling = [h \in Handlers |-> NoEvent]

BeginBonus(h, d) ==
  /\ handling[h].at = "idle"
  /\ Take("promotions", d)
  /\ handling' = [handling EXCEPT ![h] =
       IF Player[d] \in Eligible /\ BonusCents(d) > 0
       THEN [at |-> "count", deposit |-> d] ELSE NoEvent]
  /\ UNCHANGED <<moneyVars, faults>>

\* Mutant: the deposit has only to be among those the page lists.
IsFirstAmongListed(d) == d \in DepositsOf(Player[d])

\* Two deposits, or one that is not this one: not the first.
IsFirstConfirmedDeposit(d) == DepositsOf(Player[d]) \subseteq {d}

CountDeposits(h) ==
  /\ handling[h].at = "count"
  /\ handling' = [handling EXCEPT ![h] =
       IF IsFirstConfirmedDeposit(@.deposit) THEN [@ EXCEPT !.at = "credit"] ELSE NoEvent]
  /\ UNCHANGED <<moneyVars, busVars>>

CreditBonus(h) ==
  /\ handling[h].at = "credit"
  /\ LET q == Bonus(handling[h].deposit)
     IN  Book!PostOnce(q) \/ (Book!Refused(q) /\ UNCHANGED moneyVars)
  /\ handling' = [handling EXCEPT ![h] = NoEvent]
  /\ UNCHANGED busVars

HandlerDies(h) ==
  /\ handling[h].at # "idle"
  /\ Fault
  /\ handling' = [handling EXCEPT ![h] = NoEvent]
  /\ UNCHANGED <<moneyVars, published, inbox>>

PromotionsNext ==
  \E h \in Handlers : \/ CountDeposits(h) \/ CreditBonus(h) \/ HandlerDies(h)
                      \/ \E d \in Deposit : BeginBonus(h, d)
-----------------------------------------------------------------------------
PromotionsTypeOK ==
  handling \in [Handlers -> {NoEvent} \union [at : {"count", "credit"}, deposit : Deposit]]

\* However its deposits race and however often their events are published, a
\* player is given the bonus for one deposit at most.
OneBonusPerPlayer ==
  \A d, e \in Deposit :
    Book!Done(Bonus(d)) /\ Book!Done(Bonus(e)) /\ Player[d] = Player[e] => d = e
=============================================================================
