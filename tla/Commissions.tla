----------------------------- MODULE Commissions -----------------------------
(***************************************************************************)
(* CommissionService.  A confirmed deposit pays the depositor's referrers, *)
(* up to three levels of approved affiliates, and the manager above the    *)
(* first of them.  Each commission is credited to the payee's locked       *)
(* bucket and then recorded; an approval unlocks it and a rejection debits *)
(* it, and only then is its row updated, by id.  A desk is one running     *)
(* call: a handler of depositConfirmed with its commissions still to be    *)
(* generated, or an administrator's ruling on one of them.                 *)
(***************************************************************************)
EXTENDS DepositEvents

CONSTANTS
  Desks,        \* calls that may run at one time
  ReferredBy,   \* [Users -> Users \union {None}]
  Affiliates,   \* users with an APPROVED AffiliateProfile
  ManagerOf,    \* [Affiliates -> managers \union {None}]
  Ceiling,      \* [managers -> commissionPercent]
  LevelPercent, \* <<level 1, level 2, level 3>>
  Override      \* [Affiliates -> percent \union {None}]

Managers == DOMAIN Ceiling

ASSUME ReferralAssumption == ReferredBy \in [Users -> Users \union {None}]
ASSUME AffiliateAssumption ==
  /\ Affiliates \subseteq Users /\ Managers \subseteq Users
  /\ ManagerOf \in [Affiliates -> Managers \union {None}]
ASSUME PercentAssumption ==
  /\ Ceiling \in [Managers -> Nat] /\ LevelPercent \in [1..3 -> Nat]
  /\ Override \in [Affiliates -> Nat \union {None}]
ASSUME ListenerAssumption == "commissions" \in Subscribers

VARIABLES
  desk,    \* [Desks -> [at, todo, auto, verdict]]
  status,  \* the rows: CommissionStatus of a payout, "none" before its row
  early    \* deposits with a commission that an administrator ruled on before
           \* all of them were recorded (history)

commissionVars == <<desk, status, early>>
-----------------------------------------------------------------------------
\* walkReferredByChain: the depositor and whoever was met already end the walk.
Climb(chain) ==
  LET next == ReferredBy[chain[Len(chain)]]
  IN  IF next = None \/ next \in Range(chain) THEN chain ELSE Append(chain, next)

Chain(u) == Tail(Climb(Climb(Climb(<<u>>))))

\* Math.round of a percentage of the deposit.
Cut(d, percent) == (2 * Paid[d] * percent + 100) \div 200

Payout(d, level, source, payee, percent) ==
  IF Cut(d, percent) = 0 THEN <<>>
  ELSE <<[deposit |-> d, level |-> level, source |-> source,
          payee |-> payee, amount |-> Cut(d, percent)]>>

Share(a, level) == IF Override[a] # None THEN Override[a] ELSE LevelPercent[level]

\* What the manager earns above the affiliate's share, up to the ceiling.
Spread(a) ==
  IF Ceiling[ManagerOf[a]] > Share(a, 1) THEN Ceiling[ManagerOf[a]] - Share(a, 1) ELSE 0

PayoutsAt(d, level) ==
  LET chain == Chain(Player[d])
      a == chain[level]
  IN  IF level > Len(chain) THEN <<>>
      ELSE IF a \in Affiliates
      THEN Payout(d, level, "REVSHARE_DEPOSIT", a, Share(a, level))
             \o (IF level = 1 /\ ManagerOf[a] # None
                 THEN Payout(d, 1, "MANAGER_SPREAD", ManagerOf[a], Spread(a)) ELSE <<>>)
      ELSE IF level = 1 /\ a \in Managers
      THEN Payout(d, 1, "MANAGER_SPREAD", a, Ceiling[a]) ELSE <<>>

\* In the order in which handleDepositConfirmed generates them.
Payouts(d) == PayoutsAt(d, 1) \o PayoutsAt(d, 2) \o PayoutsAt(d, 3)
Commission == UNION {Range(Payouts(d)) : d \in Deposit}

\* Mutant: the manager's share is credited under the affiliate's key.
EarnByLevel(e) == Movement("credit", "locked", e.payee, e.amount, <<"commission", e.deposit, e.level>>)

Earn(e) ==
  Movement("credit", "locked", e.payee, e.amount, <<e.source, e.deposit, e.level>>)
Unlock(e) ==
  Movement("unlock", "main", e.payee, e.amount, <<"unlock", e.source, e.deposit, e.level>>)
TakeBack(e) == Movement("debit", "locked", e.payee, e.amount, <<"reject", e>>)

Ruling(e, v) == IF v = "AVAILABLE" THEN Unlock(e) ELSE TakeBack(e)
-----------------------------------------------------------------------------
Idle == [at |-> "idle", todo |-> <<>>, auto |-> FALSE, verdict |-> "AVAILABLE"]

CommissionsInit ==
  /\ desk = [k \in Desks |-> Idle]
  /\ status = [e \in Commission |-> "none"]
  /\ early = {}

\* Every commission of a deposit has its row.
Recorded(d) == \A e \in Range(Payouts(d)) : status[e] # "none"

At(k, step) == desk[k].at = step
Current(k) == Head(desk[k].todo)
Goto(k, step) == desk' = [desk EXCEPT ![k].at = step]

\* The next commission of the event, if there is one; or the call throws.
Finish(k) ==
  LET left == Tail(desk[k].todo)
  IN  desk' = [desk EXCEPT ![k] =
        IF left = <<>> THEN Idle ELSE [desk[k] EXCEPT !.at = "find", !.todo = left]]

\* Mutant: a call that throws leaves its commissions to whoever comes next.
AbortHalfway(k) == Goto(k, "idle")

Abort(k) == desk' = [desk EXCEPT ![k] = Idle]

\* The settings, and so autoApproveCommissions, are read once for an event.
HandleDeposit(k, d, auto) ==
  /\ At(k, "idle")
  /\ Take("commissions", d)
  /\ desk' = [desk EXCEPT ![k] =
       IF Payouts(d) = <<>> THEN Idle
       ELSE [at |-> "find", todo |-> Payouts(d), auto |-> auto, verdict |-> "AVAILABLE"]]
  /\ UNCHANGED <<status, early, moneyVars, faults>>

\* findByTriggerAffiliateLevel
FindExisting(k) ==
  /\ At(k, "find")
  /\ IF status[Current(k)] # "none" THEN Finish(k) ELSE Goto(k, "credit")
  /\ UNCHANGED <<status, early, moneyVars, busVars>>

CreditLocked(k) ==
  /\ At(k, "credit")
  /\ \/ Book!PostOnce(Earn(Current(k))) /\ Goto(k, "create")
     \/ Book!Refused(Earn(Current(k))) /\ Abort(k) /\ UNCHANGED moneyVars
  /\ UNCHANGED <<status, early, busVars>>

\* Mutant: without automatic approval the handler returns its first commission.
CreateRowAndReturn(k) ==
  /\ At(k, "create")
  /\ IF status[Current(k)] # "none" THEN Abort(k) /\ UNCHANGED status
     ELSE /\ status' = [status EXCEPT ![Current(k)] = "LOCKED"]
          /\ IF desk[k].auto THEN Goto(k, "read") ELSE Abort(k)
  /\ UNCHANGED <<early, moneyVars, busVars>>

\* walletTransactionId is unique: a handler that was overtaken throws here, and
\* generates none of the commissions it still had to do.
CreateRow(k) ==
  /\ At(k, "create")
  /\ IF status[Current(k)] # "none" THEN Abort(k) /\ UNCHANGED status
     ELSE /\ status' = [status EXCEPT ![Current(k)] = "LOCKED"]
          /\ IF desk[k].auto THEN Goto(k, "read") ELSE Finish(k)
  /\ UNCHANGED <<early, moneyVars, busVars>>

\* An administrator approves or rejects: on a row that is settled, the call's
\* read throws, and nothing was done.
Rule(k, e, v) ==
  /\ At(k, "idle")
  /\ status[e] = "LOCKED"
  /\ desk' = [desk EXCEPT ![k] =
       [at |-> "read", todo |-> <<e>>, auto |-> FALSE, verdict |-> v]]
  /\ early' = IF Recorded(e.deposit) THEN early ELSE early \union {e.deposit}
  /\ UNCHANGED <<status, moneyVars, busVars>>

\* Mutant: the row is updated and nothing moved.
ReadThenUpdate(k) ==
  /\ At(k, "read")
  /\ IF status[Current(k)] = "LOCKED" THEN Goto(k, "update") ELSE Abort(k)
  /\ UNCHANGED <<status, early, moneyVars, busVars>>

ReadLocked(k) ==
  /\ At(k, "read")
  /\ IF status[Current(k)] = "LOCKED" THEN Goto(k, "move") ELSE Abort(k)
  /\ UNCHANGED <<status, early, moneyVars, busVars>>

MoveRuled(k) ==
  /\ At(k, "move")
  /\ LET q == Ruling(Current(k), desk[k].verdict)
     IN  \/ Book!PostOnce(q) /\ Goto(k, "update")
         \/ Book!Refused(q) /\ Abort(k) /\ UNCHANGED moneyVars
  /\ UNCHANGED <<status, early, busVars>>

UpdateRow(k) ==
  /\ At(k, "update")
  /\ status' = [status EXCEPT ![Current(k)] = desk[k].verdict]
  /\ Finish(k)
  /\ UNCHANGED <<early, moneyVars, busVars>>

DeskDies(k) ==
  /\ ~ At(k, "idle")
  /\ Fault
  /\ Abort(k)
  /\ UNCHANGED <<status, early, moneyVars, published, inbox>>

DeskStep(k) ==
  \/ FindExisting(k) \/ CreditLocked(k) \/ CreateRow(k)
  \/ ReadLocked(k) \/ MoveRuled(k) \/ UpdateRow(k)

CommissionsNext ==
  \E k \in Desks :
    \/ DeskStep(k) \/ DeskDies(k)
    \/ \E d \in Deposit, auto \in BOOLEAN : HandleDeposit(k, d, auto)
    \/ \E e \in Commission, v \in {"AVAILABLE", "REJECTED"} : Rule(k, e, v)
-----------------------------------------------------------------------------
CommissionsTypeOK ==
  /\ status \in [Commission -> {"none", "LOCKED", "AVAILABLE", "REJECTED"}]
  /\ early \subseteq Deposit
  /\ \A k \in Desks :
       /\ desk[k].at \in {"idle", "find", "credit", "create", "read", "move", "update"}
       /\ desk[k].auto \in BOOLEAN
       /\ desk[k].verdict \in {"AVAILABLE", "REJECTED"}
       /\ At(k, "idle") <=> desk[k].todo = <<>>

Earned(e) == Book!Done(Earn(e))

\* The hazard of two rulings: the keys of an unlock and of a debit differ, and
\* both callers may have read LOCKED.
RuledBothWays(e) == Book!Done(Unlock(e)) /\ Book!Done(TakeBack(e))
Ruled(e) == Book!Done(Unlock(e)) \/ Book!Done(TakeBack(e))
=============================================================================
