------------------------------ MODULE Deposits ------------------------------
(***************************************************************************)
(* PaymentService's deposits: a charge made at a gateway and then          *)
(* persisted, the webhooks (and the reconciliation polls) that settle it,  *)
(* each settlement being a read of the deposit, a wallet credit and an     *)
(* update as three separate statements, and the wallet as the book         *)
(* WalletService implements.                                               *)
(***************************************************************************)
EXTENDS Webhooks, Cents

CONSTANTS
  Deposit,    \* deposit ids
  User,       \* [Deposit -> users]
  Amount,     \* [Deposit -> cents]
  Histories,  \* the sets of outcomes one charge can have at a gateway
  MaxInt      \* the largest balance

Outcomes == {"paid", "failed", "cancelled", "expired", "refunded"}
Payload ==
  [deposit : Deposit, type : UNION Histories, from : {"gateway", "poll"}]

ASSUME HistoriesAssumption == {} \in Histories /\ Histories \subseteq SUBSET Outcomes
ASSUME PayloadsAssumption == Payloads = Payload
ASSUME AmountsAssumption == Amount \in [Deposit -> Nat]

VARIABLES
  status,   \* DepositStatus; "none", "charged" and "lost" have no row yet
  outcome,  \* what the gateway has decided of each charge
  balance, posted

depositVars == <<status, outcome, balance, posted>>
vars == <<hookVars, depositVars>>

Users == {User[p] : p \in Deposit}

\* Mutant: the key names the player instead of the deposit.
ConfirmByUser(p) ==
  [kind |-> "credit", type |-> "MOVE", user |-> User[p], to |-> User[p],
   account |-> "main", amount |-> Amount[p], key |-> <<"confirm", User[p]>>]

\* depositConfirm
Confirm(p) ==
  [kind |-> "credit", type |-> "MOVE", user |-> User[p], to |-> User[p],
   account |-> "main", amount |-> Amount[p], key |-> <<"confirm", p>>]

Book == INSTANCE MoneyBook WITH
  Calls <- {}, Request <- {Confirm(p) : p \in Deposit},
  Opening <- [u \in Users |-> [b \in {"main", "locked", "bonus"} |-> 0]]

Credited(p) == Book!Done(Confirm(p))

Init ==
  /\ WebhooksInit
  /\ Book!Init
  /\ status = [p \in Deposit |-> "none"]
  /\ outcome = [p \in Deposit |-> {}]

Persisted(p) == status[p] \notin {"none", "charged", "lost"}
-----------------------------------------------------------------------------
\* createDeposit: the gateway is called before the deposit has a row.
Charge(p) ==
  /\ status[p] = "none"
  /\ status' = [status EXCEPT ![p] = "charged"]
  /\ UNCHANGED <<hookVars, outcome, balance, posted>>

Persist(p) ==
  /\ status[p] = "charged"
  /\ status' = [status EXCEPT ![p] = "PENDING"]
  /\ UNCHANGED <<hookVars, outcome, balance, posted>>

\* The process dies in between: the charge exists and no row ever will.
LoseCharge(p) ==
  /\ status[p] = "charged"
  /\ faults < MaxFaults
  /\ faults' = faults + 1
  /\ status' = [status EXCEPT ![p] = "lost"]
  /\ UNCHANGED <<hooks, at, payload, row, acked, outcome, balance, posted>>

\* The payer pays the code createDeposit answered with, the charge expires...
GatewayDecides(p, o) ==
  /\ status[p] # "none"
  /\ o = "paid" => Persisted(p)
  /\ o \notin outcome[p]
  /\ outcome[p] \union {o} \in Histories
  /\ outcome' = [outcome EXCEPT ![p] = @ \union {o}]
  /\ UNCHANGED <<hookVars, status, balance, posted>>

\* A gateway sends, and sends again, what it decided.
Notify(d, p, o) ==
  /\ o \in outcome[p]
  /\ Deliver(d, [deposit |-> p, type |-> o, from |-> "gateway"])
  /\ UNCHANGED depositVars

\* reconcileDeposit: a pending deposit the gateway reports as settled.
Poll(d, p, o) ==
  /\ status[p] = "PENDING"
  /\ o \in outcome[p] \intersect {"paid", "failed"}
  /\ Deliver(d, [deposit |-> p, type |-> o, from |-> "poll"])
  /\ UNCHANGED depositVars

\* Mutant: the deposit a payload names is taken to exist.
ResolveUnchecked(d) ==
  /\ at[d] = "resolve"
  /\ Resolve(d, TRUE)
  /\ UNCHANGED depositVars

ResolveDeposit(d) ==
  /\ at[d] = "resolve"
  /\ Resolve(d, Persisted(payload[d].deposit))
  /\ UNCHANGED depositVars
-----------------------------------------------------------------------------
StatusOf == [paid |-> "PAID", failed |-> "FAILED", cancelled |-> "CANCELLED",
             expired |-> "EXPIRED", refunded |-> "REFUNDED"]

\* The deposit is already past the state this payload expects.
OutOfOrder(p, o) ==
  \/ o = "paid" /\ status[p] = "PAID"
  \/ o \in {"failed", "cancelled", "expired"} /\ status[p] # "PENDING"
  \/ o = "refunded" /\ status[p] # "PAID"

\* Mutant: the deposit is updated first and the credit left for later.
SettleReadUpdateFirst(d) ==
  /\ at[d] = "settle"
  /\ Goto(d, IF OutOfOrder(payload[d].deposit, payload[d].type) THEN "settled"
             ELSE "update")
  /\ UNCHANGED depositVars

SettleRead(d) ==
  /\ at[d] = "settle"
  /\ Goto(d, IF OutOfOrder(payload[d].deposit, payload[d].type) THEN "settled"
             ELSE IF payload[d].type = "paid" THEN "credit" ELSE "update")
  /\ UNCHANGED depositVars

SettleCredit(d) ==
  /\ at[d] = "credit"
  /\ Book!PostOnce(Confirm(payload[d].deposit))
  /\ Goto(d, "update")
  /\ UNCHANGED <<status, outcome>>

\* The wallet refuses the credit: the balance would leave its column.
SettleRefused(d) ==
  /\ at[d] = "credit"
  /\ Book!Refused(Confirm(payload[d].deposit))
  /\ Goto(d, "threw")
  /\ UNCHANGED depositVars

SettleUpdate(d) ==
  /\ at[d] = "update"
  /\ status' = [status EXCEPT ![payload[d].deposit] = StatusOf[payload[d].type]]
  /\ Goto(d, "settled")
  /\ UNCHANGED <<outcome, balance, posted>>

Settling == {"settle", "credit", "update"}

Work(d) ==
  \/ Dispatch(d) /\ UNCHANGED depositVars
  \/ ResolveDeposit(d) \/ SettleRead(d) \/ SettleCredit(d)
  \/ SettleRefused(d) \/ SettleUpdate(d)

Fault(d) == (Throw(d, Settling) \/ Die(d)) /\ UNCHANGED depositVars

Next ==
  \/ \E p \in Deposit : Charge(p) \/ Persist(p) \/ LoseCharge(p)
  \/ \E p \in Deposit, o \in Outcomes : GatewayDecides(p, o)
  \/ \E d \in Workers, p \in Deposit, o \in Outcomes :
       Notify(d, p, o) \/ Poll(d, p, o)
  \/ \E d \in Workers, p \in Payloads : \E i \in Rows(p) :
       Reprocess(d, p, i) /\ UNCHANGED depositVars
  \/ \E d \in Workers : Work(d) \/ Fault(d)

Spec == Init /\ [][Next]_vars

\* A running worker takes its next step...
WorkersRun ==
  /\ \A d \in Workers : WF_vars(Work(d))
  /\ \A p \in Deposit : WF_vars(Persist(p))

\* ... and a payload that was not answered with a 200 comes again, or else the
\* reconciliation job polls: which of the two, and how often, is left open.
FairSpec ==
  /\ Spec /\ WorkersRun
  /\ \A p \in Deposit, o \in Outcomes :
       SF_vars(\E d \in Workers :
                 \/ /\ [deposit |-> p, type |-> o, from |-> "gateway"] \notin acked
                    /\ Notify(d, p, o)
                 \/ Poll(d, p, o))
-----------------------------------------------------------------------------
TypeOK ==
  /\ WebhooksTypeOK({"credit", "update"})
  /\ status \in [Deposit -> {"none", "charged", "lost", "PENDING"}
                              \union {StatusOf[o] : o \in Outcomes}]
  /\ outcome \in [Deposit -> Histories]
  /\ \A d \in Workers : at[d] \in Settling => Persisted(payload[d].deposit)

\* A deposit is shown as paid (or as refunded after it) only once its credit
\* is in the wallet, although the two are separate statements.
PaidMeansCredited ==
  \A p \in Deposit : status[p] \in {"PAID", "REFUNDED"} => Credited(p)

\* Nothing is credited that its gateway did not report paid, and each wallet
\* holds exactly the deposits credited to it.
WalletHoldsPaidDeposits ==
  /\ \A p \in Deposit : Credited(p) => "paid" \in outcome[p]
  /\ \A u \in Users :
       balance[u].main = Total({p \in Deposit : User[p] = u /\ Credited(p)}, Amount)

\* A 200 means settled: a gateway that stops sending has had its money
\* credited, and no stored payload counts as processed before that.
AckedMeansCredited ==
  /\ \A p \in Payloads : p \in acked /\ p.type = "paid" => Credited(p.deposit)
  /\ \A p \in Payloads : \A i \in Rows(p) :
       hooks[p][i] = "PROCESSED" /\ p.type = "paid" => Credited(p.deposit)

\* A deposit its gateway reports paid is credited in the end, whatever dies or
\* throws on the way, and shown as paid, if the gateway said nothing else.
PaidIsCredited ==
  \A p \in Deposit :
    "paid" \in outcome[p] ~>
      /\ Credited(p)
      /\ outcome[p] \subseteq {"paid", "refunded"} => status[p] \in {"PAID", "REFUNDED"}

\* settle's guards make a payload that comes too late a no-op: what they are
\* quoted for.  A settled deposit stays as it is, unless it is refunded.
SettledOnce ==
  [][\A p \in Deposit :
       status[p] \in {StatusOf[o] : o \in Outcomes} =>
         \/ status'[p] = status[p]
         \/ status[p] = "PAID" /\ status'[p] = "REFUNDED"]_vars
=============================================================================
