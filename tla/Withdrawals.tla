---------------------------- MODULE Withdrawals ----------------------------
(***************************************************************************)
(* PaymentService's withdrawals.  A request takes the player's Redis lock, *)
(* which expires, reserves the amount in the wallet, tries the candidate   *)
(* gateways one after the other, gives the amount back when none of them   *)
(* answered in time, and otherwise persists the withdrawal.  A gateway     *)
(* that timed out may hold the request nevertheless, and any statement may *)
(* fail.  Webhooks and polls settle the withdrawal: a read of it, a wallet *)
(* movement and an update as three statements.  A demo account's touches   *)
(* no gateway: an administrator decides it, by compare-and-swap and then   *)
(* the movement.  One player; time is counted in gateways that timed out,  *)
(* retries included.                                                       *)
(***************************************************************************)
EXTENDS Webhooks, Cents

CONSTANTS
  Withdraw,         \* withdrawal ids, one per call of requestWithdraw
  Gateways,         \* the candidates withFailover tries
  Amount,           \* [Withdraw -> cents]
  Funds,            \* what the player holds
  LockTTL,          \* timeouts the Redis lock is sure to outlive
  LostAnswers,      \* whether a gateway that timed out may hold the request
  Histories,        \* the sets of verdicts a gateway may give on one request
  Nobody            \* the lock is free

Verdicts == {"approved", "rejected"}
Payload == [withdraw : Withdraw, gateway : Gateways,
            type : Verdicts, from : {"gateway", "poll"}]

ASSUME HistoriesAssumption == {} \in Histories /\ Histories \subseteq SUBSET Verdicts
ASSUME PayloadsAssumption == Payloads \subseteq Payload
ASSUME AmountsAssumption == Amount \in [Withdraw -> Nat] /\ Funds \in Nat
ASSUME GatewaysAssumption == IsFiniteSet(Gateways)
ASSUME LockAssumption == LockTTL \in Nat \ {0}
ASSUME NobodyAssumption == Nobody \notin Gateways \union Withdraw

VARIABLES
  demo,     \* whether the player is a demo account
  holder,   \* whose token the Redis lock holds
  step,     \* where each request stands
  tried,    \* gateways a request gave up on, while it asks them
  waited,   \* gateways that timed out under a request
  failed,   \* requests in which a statement threw (history)
  deciding, \* the decision on a simulated withdrawal whose money is to move
  chosen,   \* the gateway of a persisted withdrawal
  status,   \* WithdrawStatus, "none" before there is a row
  holds,    \* the requests each gateway accepted
  verdict,  \* what each gateway decided of a request
  balance, posted

requestVars == <<demo, holder, step, deciding, failed, tried, waited, chosen, holds>>
withdrawVars == <<requestVars, status, verdict, balance, posted>>
vars == <<hookVars, withdrawVars>>

Player == "player"
Users == {Player}
MaxInt == Funds

Movement(kind, account, w, key) ==
  [kind |-> kind, type |-> "MOVE", user |-> Player, to |-> Player,
   account |-> account, amount |-> Amount[w], key |-> <<key, w>>]

\* Mutant: one lock key for all of a player's requests.
ReserveByPlayer(w) == [Movement("lock", "main", w, "lock") EXCEPT !.key = "lock"]

\* withdrawLock, withdrawUnlockProviderFailure, withdrawApprove,
\* withdrawUnlockReject and their counterparts for simulated withdrawals.
Reserve(w) == Movement("lock", "main", w, "lock")
GiveBack(w) == Movement("unlock", "main", w, "unlock-provider-failure")
PayOut(w) == Movement("debit", "locked", w, "approve")
Return(w) == Movement("unlock", "main", w, "unlock-reject")
Settlement(w, v) == IF v = "approved" THEN PayOut(w) ELSE Return(w)

Book == INSTANCE MoneyBook WITH
  Calls <- {},
  Request <- UNION {{Reserve(w), GiveBack(w), PayOut(w), Return(w)} : w \in Withdraw},
  Opening <- [u \in {Player} |-> [b \in {"main", "locked", "bonus"} |->
                                    IF b = "main" THEN Funds ELSE 0]]

StatusOf == [approved |-> "APPROVED", rejected |-> "REJECTED"]
Real == ~ demo

Init ==
  /\ WebhooksInit
  /\ Book!Init
  /\ demo \in BOOLEAN
  /\ holder = Nobody
  /\ step = [w \in Withdraw |-> "new"]
  /\ deciding = [w \in Withdraw |-> "none"]
  /\ tried = [w \in Withdraw |-> {}]
  /\ waited = [w \in Withdraw |-> 0]
  /\ failed = {}
  /\ chosen = [w \in Withdraw |-> Nobody]
  /\ status = [w \in Withdraw |-> "none"]
  /\ holds = [g \in Gateways |-> {}]
  /\ verdict = [g \in Gateways |-> [w \in Withdraw |-> {}]]
-----------------------------------------------------------------------------
Advance(w, s) == step' = [step EXCEPT ![w] = s] /\ UNCHANGED <<deciding, failed>>

\* Mutant: SET without NX.
TakeAnyLock(w) ==
  /\ step[w] = "new"
  /\ holder' = w
  /\ Advance(w, "reserve")
  /\ UNCHANGED <<hookVars, demo, tried, waited, chosen, holds, status, verdict, balance, posted>>

\* SET NX PX: a second request while the lock is held is rejected at once.
TakeLock(w) ==
  /\ step[w] = "new"
  /\ IF holder = Nobody
     THEN holder' = w /\ Advance(w, "reserve")
     ELSE Advance(w, "ended") /\ UNCHANGED holder
  /\ UNCHANGED <<hookVars, demo, tried, waited, chosen, holds, status, verdict, balance, posted>>

\* walletService.lock
ReserveFunds(w) ==
  /\ step[w] = "reserve"
  /\ \/ Book!PostOnce(Reserve(w)) /\ Advance(w, IF Real THEN "dispatch" ELSE "persist")
     \/ Book!Refused(Reserve(w)) /\ Advance(w, "release") /\ UNCHANGED <<balance, posted>>
  /\ UNCHANGED <<hookVars, demo, holder, tried, waited, chosen, holds, status, verdict>>

\* withFailover: a candidate answers in time ...
GatewayAccepts(w, g) ==
  /\ step[w] = "dispatch"
  /\ g \in Gateways \ tried[w]
  /\ holds' = [holds EXCEPT ![g] = @ \union {w}]
  /\ chosen' = [chosen EXCEPT ![w] = g]
  /\ tried' = [tried EXCEPT ![w] = {}]
  /\ Advance(w, "persist")
  /\ UNCHANGED <<hookVars, demo, holder, waited, status, verdict, balance, posted>>

\* ... rejects every attempt, or times out on them, heard or not.
GatewayFails(w, g, time, heard) ==
  /\ step[w] = "dispatch"
  /\ g \in Gateways \ tried[w]
  /\ tried' = [tried EXCEPT ![w] = @ \union {g}]
  /\ waited' = [waited EXCEPT ![w] = @ + time]
  /\ heard => LostAnswers /\ time = 1
  /\ holds' = [holds EXCEPT ![g] = IF heard THEN @ \union {w} ELSE @]
  /\ Advance(w, IF tried'[w] = Gateways THEN "give back" ELSE "dispatch")
  /\ UNCHANGED <<hookVars, demo, holder, chosen, status, verdict, balance, posted>>

\* Mutant: the failure is reported and nothing unlocked.
GiveNothingBack(w) ==
  /\ step[w] = "give back"
  /\ Advance(w, "release")
  /\ UNCHANGED <<hookVars, demo, holder, tried, waited, chosen, holds, status, verdict, balance, posted>>

\* Every candidate failed: unlock.
GiveFundsBack(w) ==
  /\ step[w] = "give back"
  /\ \/ Book!PostOnce(GiveBack(w))
     \/ Book!Refused(GiveBack(w)) /\ UNCHANGED <<balance, posted>>
  /\ Advance(w, "release")
  /\ UNCHANGED <<hookVars, demo, holder, tried, waited, chosen, holds, status, verdict>>

\* Mutant: the row is created inside the try, so that its failure unlocks too.
PersistInsideTry(w) ==
  /\ step[w] = "persist"
  /\ \/ status' = [status EXCEPT ![w] = "PENDING"] /\ Advance(w, "release")
     \/ Advance(w, "give back") /\ UNCHANGED status
  /\ UNCHANGED <<hookVars, demo, holder, tried, waited, chosen, holds, verdict, balance, posted>>

Persist(w) ==
  /\ step[w] = "persist"
  /\ status' = [status EXCEPT ![w] = "PENDING"]
  /\ Advance(w, "release")
  /\ UNCHANGED <<hookVars, demo, holder, tried, waited, chosen, holds, verdict, balance, posted>>

\* The wallet's lock or unlock or withdraws.create throws and changes nothing:
\* withLock's finally runs, and nobody unlocks what the request reserved.
RequestThrows(w) ==
  /\ step[w] \in {"reserve", "give back", "persist"}
  /\ faults < MaxFaults
  /\ faults' = faults + 1
  /\ step' = [step EXCEPT ![w] = "release"]
  /\ failed' = failed \union {w}
  /\ UNCHANGED <<hooks, at, payload, row, acked, demo, holder, deciding, tried, waited,
                 chosen, holds, status, verdict, balance, posted>>

\* The finally of withLock compares the token, then deletes the key.
Release(w) ==
  /\ step[w] = "release"
  /\ Advance(w, IF holder = w THEN "delete" ELSE "ended")
  /\ UNCHANGED <<hookVars, demo, holder, tried, waited, chosen, holds, status, verdict, balance, posted>>

DeleteKey(w) ==
  /\ step[w] = "delete"
  /\ holder' = Nobody
  /\ Advance(w, "ended")
  /\ UNCHANGED <<hookVars, demo, tried, waited, chosen, holds, status, verdict, balance, posted>>

Running == {"reserve", "dispatch", "persist", "give back", "release", "delete"}

\* The process dies in the middle of a request.
RequestDies(w) ==
  /\ step[w] \in Running
  /\ faults < MaxFaults
  /\ faults' = faults + 1
  /\ Advance(w, "dead")
  /\ UNCHANGED <<hooks, at, payload, row, acked, demo, holder, tried, waited, chosen,
                 holds, status, verdict, balance, posted>>

\* The lock runs out under a holder that died, or waited too long.
LockExpires ==
  /\ holder # Nobody
  /\ step[holder] = "dead" \/ waited[holder] >= LockTTL
  /\ holder' = Nobody
  /\ UNCHANGED <<hookVars, demo, step, deciding, failed, tried, waited, chosen, holds, status, verdict,
                 balance, posted>>
-----------------------------------------------------------------------------
\* A gateway decides a request it holds; only the chosen one is known to us.
GatewayDecides(g, w, v) ==
  /\ w \in holds[g]
  /\ v \notin verdict[g][w]
  /\ verdict[g][w] \union {v} \in Histories
  /\ verdict' = [verdict EXCEPT ![g][w] = @ \union {v}]
  /\ UNCHANGED <<hookVars, requestVars, status, balance, posted>>

Body(g, w, v, from) == [withdraw |-> w, gateway |-> g, type |-> v, from |-> from]

Notify(d, g, w, v) ==
  /\ v \in verdict[g][w]
  /\ Body(g, w, v, "gateway") \in Payloads
  /\ Deliver(d, Body(g, w, v, "gateway"))
  /\ UNCHANGED withdrawVars

\* reconcileWithdraw
Poll(d, w, v) ==
  /\ status[w] = "PENDING"
  /\ Real
  /\ v \in verdict[chosen[w]][w]
  /\ Body(chosen[w], w, v, "poll") \in Payloads
  /\ Deliver(d, Body(chosen[w], w, v, "poll"))
  /\ UNCHANGED withdrawVars

Known(p) == status[p.withdraw] # "none" /\ chosen[p.withdraw] = p.gateway

ResolveWithdraw(d) ==
  /\ at[d] = "resolve"
  /\ Resolve(d, Known(payload[d]))
  /\ UNCHANGED withdrawVars

SettleRead(d) ==
  /\ at[d] = "settle"
  /\ Goto(d, IF status[payload[d].withdraw] = "PENDING" THEN "move" ELSE "settled")
  /\ UNCHANGED withdrawVars

SettleMove(d) ==
  /\ at[d] = "move"
  /\ Book!PostOnce(Settlement(payload[d].withdraw, payload[d].type))
  /\ Goto(d, "update")
  /\ UNCHANGED <<requestVars, status, verdict>>

\* The wallet refuses: the locked bucket no longer holds the amount.
SettleRefused(d) ==
  /\ at[d] = "move"
  /\ Book!Refused(Settlement(payload[d].withdraw, payload[d].type))
  /\ Goto(d, "threw")
  /\ UNCHANGED withdrawVars

SettleUpdate(d) ==
  /\ at[d] = "update"
  /\ status' = [status EXCEPT ![payload[d].withdraw] = StatusOf[payload[d].type]]
  /\ Goto(d, "settled")
  /\ UNCHANGED <<requestVars, verdict, balance, posted>>

\* decideSimulatedWithdraw: the compare-and-swap, then the movement.
Decide(w, v) ==
  /\ ~ Real
  /\ status[w] = "PENDING"
  /\ status' = [status EXCEPT ![w] = StatusOf[v]]
  /\ deciding' = [deciding EXCEPT ![w] = v]
  /\ UNCHANGED <<hookVars, demo, holder, step, failed, tried, waited, chosen, holds, verdict,
                 balance, posted>>

\* Mutant: whatever was decided, the amount is returned.
ReturnDecided(w) ==
  /\ deciding[w] \in Verdicts
  /\ \/ Book!PostOnce(Return(w))
     \/ Book!Refused(Return(w)) /\ UNCHANGED <<balance, posted>>
  /\ deciding' = [deciding EXCEPT ![w] = "done"]
  /\ UNCHANGED <<hookVars, demo, holder, step, failed, tried, waited, chosen, holds, status, verdict>>

MoveDecided(w) ==
  /\ deciding[w] \in Verdicts
  /\ \/ Book!PostOnce(Settlement(w, deciding[w]))
     \/ Book!Refused(Settlement(w, deciding[w])) /\ UNCHANGED <<balance, posted>>
  /\ deciding' = [deciding EXCEPT ![w] = "done"]
  /\ UNCHANGED <<hookVars, demo, holder, step, failed, tried, waited, chosen, holds, status, verdict>>

\* The process dies before the movement, or the movement throws.
DecisionDies(w) ==
  /\ deciding[w] \in Verdicts
  /\ faults < MaxFaults
  /\ faults' = faults + 1
  /\ deciding' = [deciding EXCEPT ![w] = "dead"]
  /\ UNCHANGED <<hooks, at, payload, row, acked, demo, holder, step, failed, tried, waited,
                 chosen, holds, status, verdict, balance, posted>>
-----------------------------------------------------------------------------
Settling == {"settle", "move", "update"}

RequestStep(w) ==
  \/ ReserveFunds(w) \/ GiveFundsBack(w) \/ Persist(w)
  \/ Release(w) \/ DeleteKey(w) \/ MoveDecided(w)
  \/ \E g \in Gateways : GatewayAccepts(w, g)
  \/ \E g \in Gateways, t \in {0, 1}, heard \in BOOLEAN : GatewayFails(w, g, t, heard)

Work(d) ==
  \/ Dispatch(d) /\ UNCHANGED withdrawVars
  \/ ResolveWithdraw(d) \/ SettleRead(d) \/ SettleMove(d)
  \/ SettleRefused(d) \/ SettleUpdate(d)

Next ==
  \/ \E w \in Withdraw : \/ TakeLock(w) \/ RequestStep(w) \/ RequestThrows(w)
                         \/ RequestDies(w) \/ DecisionDies(w)
                         \/ \E v \in Verdicts : Decide(w, v)
  \/ LockExpires
  \/ \E g \in Gateways, w \in Withdraw, v \in Verdicts : GatewayDecides(g, w, v)
  \/ \E d \in Workers, g \in Gateways, w \in Withdraw, v \in Verdicts :
       Notify(d, g, w, v)
  \/ \E d \in Workers, w \in Withdraw, v \in Verdicts : Poll(d, w, v)
  \/ \E d \in Workers, p \in Payloads : \E i \in Rows(p) :
       Reprocess(d, p, i) /\ UNCHANGED withdrawVars
  \/ \E d \in Workers :
       Work(d) \/ ((Throw(d, Settling) \/ Die(d)) /\ UNCHANGED withdrawVars)

Spec == Init /\ [][Next]_vars

\* Running requests and workers take their next step, and a gateway sends its
\* verdict again until it has been answered with a 200.
FairSpec ==
  /\ Spec
  /\ \A w \in Withdraw : WF_vars(RequestStep(w))
  /\ \A d \in Workers : WF_vars(Work(d))
  /\ \A g \in Gateways, w \in Withdraw, v \in Verdicts :
       SF_vars(/\ Body(g, w, v, "gateway") \notin acked
               /\ \E d \in Workers : Notify(d, g, w, v))
-----------------------------------------------------------------------------
TypeOK ==
  /\ WebhooksTypeOK({"move", "update"})
  /\ demo \in BOOLEAN
  /\ holder \in Withdraw \union {Nobody}
  /\ step \in [Withdraw -> Running \union {"new", "ended", "dead"}]
  /\ failed \subseteq Withdraw
  /\ deciding \in [Withdraw -> Verdicts \union {"none", "done", "dead"}]
  /\ tried \in [Withdraw -> SUBSET Gateways]
  /\ waited \in [Withdraw -> 0..Cardinality(Gateways)]
  /\ chosen \in [Withdraw -> Gateways \union {Nobody}]
  /\ status \in [Withdraw -> {"none", "PENDING", "APPROVED", "REJECTED"}]
  /\ holds \in [Gateways -> SUBSET Withdraw]
  /\ \A g \in Gateways, w \in Withdraw : verdict[g][w] \in Histories

Reserved(w) == Book!Done(Reserve(w))
Endings(w) == {q \in {GiveBack(w), PayOut(w), Return(w)} : Book!Done(q)}

Open == {w \in Withdraw : Reserved(w) /\ Endings(w) = {}}
BothWays == {w \in Withdraw : {PayOut(w), Return(w)} \subseteq Endings(w)}

\* The locked bucket holds the reservations that were neither paid out nor
\* given back, less what was settled a second time, the other way: the only
\* way a withdrawal ever draws on another's reservation.
LockedIsReserved ==
  balance[Player].locked + Total(BothWays, Amount) = Total(Open, Amount)

\* Whatever arrives in whatever order, one reservation is settled once, unless
\* the gateway that has it gives both verdicts, and then at most once each way;
\* and a final status is shown only once the money moved that way; a demo
\* account's, which is decided first, only while the movement is to come.
StatusTellsTheMoney ==
  \A w \in Withdraw :
    /\ Cardinality(Endings(w)) > 1 =>
         w \in BothWays /\ Real /\ verdict[chosen[w]][w] = Verdicts
    /\ Book!Done(GiveBack(w)) => Endings(w) = {GiveBack(w)} /\ status[w] = "none"
    /\ status[w] = "PENDING" => Reserved(w)
    /\ \A v \in Verdicts :
         status[w] = StatusOf[v] =>
           Book!Done(Settlement(w, v)) \/ (~ Real /\ deciding[w] \in {v, "dead"})

\* The amount is given back only if no gateway holds the request.
GivenBackOnlyIfUnheld ==
  \A w \in Withdraw :
    Book!Done(GiveBack(w)) => \A g \in Gateways : w \notin holds[g]

Unheld == {w \in Withdraw : step[w] \in Running /\ holder # w}
Overstayed == {w \in Withdraw : waited[w] >= LockTTL}

\* The lock lets a player's requests run one at a time: without it runs at most
\* one request for each that outlived its lock, be it that request or another
\* whose key it deleted.
OneRequestAtATime == Cardinality(Unheld) <= Cardinality(Overstayed)

\* A 200 means settled: the reservation of a verdict that was acknowledged
\* has ended.
AckedMeansSettled ==
  \A p \in Payloads : p \in acked => Endings(p.withdraw) # {}

\* A verdict is settled in the end, once the withdrawal is known here, unless
\* some gateway takes back a verdict.
VerdictIsSettled ==
  \A g \in Gateways, w \in Withdraw, v \in Verdicts :
    v \in verdict[g][w] /\ chosen[w] = g /\ status[w] # "none"
      ~> \/ Book!Done(Settlement(w, v)) /\ status[w] = StatusOf[v]
         \/ \E h \in Gateways, x \in Withdraw : verdict[h][x] = Verdicts

\* A reservation ends, or a withdrawal exists that will end it, unless the
\* process that made or decided it died or one of their statements threw.
NoStrandedFunds ==
  \A w \in Withdraw :
    Reserved(w) ~>
      \/ Endings(w) # {} \/ status[w] = "PENDING"
      \/ "dead" \in {step[w], deciding[w]} \/ w \in failed
=============================================================================
