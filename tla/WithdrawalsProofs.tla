------------------------- MODULE WithdrawalsProofs -------------------------
(***************************************************************************)
(* Withdrawals, proved for every set of withdrawals and workers, every     *)
(* finite set of gateways, whatever verdicts they give, any number of      *)
(* faults and any life of the lock.  Only the return of an amount needs    *)
(* more: that no answer is lost.                                           *)
(***************************************************************************)
EXTENDS Withdrawals, CentsTheorems

Over == {"release", "delete", "ended", "dead"}

GivenBack(w) == Book!Done(GiveBack(w))
Moved(w, v) == Book!Done(Settlement(w, v))

\* Where a request stands says what became of its money ...
MoneyFollowsRequest(w) ==
  /\ step[w] \in {"new", "reserve"} => ~ Reserved(w)
  /\ step[w] \in {"dispatch", "persist", "give back"} => Reserved(w) /\ Endings(w) = {}
  /\ Endings(w) # {} => Reserved(w)
  /\ status[w] # "none" => step[w] \in Over /\ Reserved(w) /\ ~ GivenBack(w)
  /\ GivenBack(w) => Real /\ step[w] \in Over

\* ... and which gateway has it: a demo account's has none.
GatewayFollowsRequest(w) ==
  /\ \/ demo \/ GivenBack(w)
     \/ step[w] \in {"new", "reserve", "dispatch", "give back"}
     => chosen[w] = Nobody
  /\ Real /\ (step[w] = "persist" \/ status[w] # "none") => chosen[w] \in Gateways
  /\ demo => step[w] \notin {"dispatch", "give back"}
  /\ \A g \in Gateways : w \in holds[g] => LostAnswers \/ chosen[w] = g
  /\ waited[w] <= Cardinality(Gateways)
  /\ step[w] \in {"new", "reserve", "dispatch"} => waited[w] <= Cardinality(tried[w])
  /\ step[w] \in {"new", "reserve"} => waited[w] = 0

\* A decision is of a demo account's withdrawal, and is its status.
DecisionsAreShown(w) ==
  /\ Real => deciding[w] = "none"
  /\ demo /\ deciding[w] = "none" => status[w] \in {"none", "PENDING"}
  /\ deciding[w] # "none" => status[w] \in {"APPROVED", "REJECTED"}
  /\ deciding[w] \in Verdicts => status[w] = StatusOf[deciding[w]]

\* Money moves only as somebody decided: the gateway that was chosen, or the
\* administrator; and a real withdrawal is updated only after it moved.
MovesAreDecided(w) ==
  \A v \in Verdicts :
    /\ Moved(w, v) =>
         /\ status[w] # "none"
         /\ Real => v \in verdict[chosen[w]][w]
         /\ demo => deciding[w] = "done" /\ status[w] = StatusOf[v]
    /\ Real /\ status[w] = StatusOf[v] => Moved(w, v)

RequestKnows(w) ==
  /\ MoneyFollowsRequest(w) /\ GatewayFollowsRequest(w)
  /\ DecisionsAreShown(w) /\ MovesAreDecided(w)

RequestsInv == \A w \in Withdraw : RequestKnows(w)

RequestsTyped ==
  /\ demo \in BOOLEAN
  /\ holder \in Withdraw \union {Nobody}
  /\ step \in [Withdraw -> Running \union {"new", "ended", "dead"}]
  /\ deciding \in [Withdraw -> Verdicts \union {"none", "done", "dead"}]
  /\ failed \subseteq Withdraw
  /\ tried \in [Withdraw -> SUBSET Gateways]
  /\ waited \in [Withdraw -> Nat]
  /\ chosen \in [Withdraw -> Gateways \union {Nobody}]
  /\ status \in [Withdraw -> {"none", "PENDING", "APPROVED", "REJECTED"}]
  /\ holds \in [Gateways -> SUBSET Withdraw]
  /\ verdict \in [Gateways -> [Withdraw -> Histories]]
-----------------------------------------------------------------------------
\* The steps a worker takes with a withdrawal it has found.
Found == {"create", "settle", "move", "update", "settled", "threw"}
WorkerSteps == {"idle", "find", "resolve"} \union Found

\* Its gateway said what a payload says; its movement is made; its reservation
\* has ended.
Heard(p) == p.type \in verdict[p.gateway][p.withdraw]
Carried(p) == Moved(p.withdraw, p.type)
Settled(p) == Endings(p.withdraw) # {}

WorkerKnows(d) ==
  /\ at[d] = "idle" <=> payload[d] = NoPayload
  /\ at[d] = "idle" => row[d] = 0
  /\ at[d] \in Found \ {"create"} => row[d] # 0
  /\ \A p \in Payloads : payload[d] = p =>
       /\ row[d] # 0 => row[d] \in 1..Len(hooks[p])
       /\ Heard(p)
       /\ at[d] \in Found => Known(p)
       /\ at[d] = "update" => Carried(p)
       /\ at[d] = "settled" => Settled(p)

RowsTellTheTruth(p) ==
  /\ hooks[p] # << >> => Heard(p) /\ Known(p)
  /\ \A i \in 1..Len(hooks[p]) : hooks[p][i] = "PROCESSED" => Settled(p)

WorkersTyped ==
  /\ hooks \in [Payloads -> Seq(RowStatus)]
  /\ at \in [Workers -> WorkerSteps]
  /\ payload \in [Workers -> Payloads \union {NoPayload}]
  /\ row \in [Workers -> Nat]
  /\ acked \subseteq Payloads
  /\ faults \in 0..MaxFaults

WorkersInv ==
  /\ \A d \in Workers : WorkerKnows(d)
  /\ \A p \in Payloads : RowsTellTheTruth(p)
  /\ AckedMeansSettled

WithdrawalsInv == RequestsTyped /\ RequestsInv /\ WorkersTyped /\ WorkersInv
-----------------------------------------------------------------------------
\* The locked bucket is the sum of the open reservations, less what was settled
\* both ways, and nothing is in the wallet that was not there at first.
Balanced ==
  /\ Summable(Open, Amount) /\ Summable(BothWays, Amount)
  /\ balance \in [{Player} -> [{"main", "locked", "bonus"} -> Nat]]
  /\ balance[Player].locked + Total(BothWays, Amount) = Total(Open, Amount)
  /\ balance[Player].main + balance[Player].locked <= Funds
  /\ balance[Player].bonus = 0

\* A decision is carried out: an administrator decides only once, so that the
\* locked bucket is never short of it.
DecisionsAreCarried ==
  \A w \in Withdraw, v \in Verdicts :
    deciding[w] = "done" /\ status[w] = StatusOf[v] => Moved(w, v)

\* Each request that runs without the lock has one to answer for it that waited
\* too long and has lost the lock.
LockInv ==
  /\ IsFiniteSet(Unheld) /\ IsFiniteSet(Overstayed)
  /\ Cardinality(Unheld) <= Cardinality(Overstayed \ {holder})
-----------------------------------------------------------------------------
\* A payload names a withdrawal, a gateway and a verdict.
LEMMA PayloadParts ==
  ASSUME NEW p \in Payloads
  PROVE  p.withdraw \in Withdraw /\ p.gateway \in Gateways /\ p.type \in Verdicts
BY PayloadsAssumption DEF Payload

Spent(key, w) == <<<<key, w>>, "only">> \in posted
SettlementKey(v) == IF v = "approved" THEN "approve" ELSE "unlock-reject"

\* A movement of a withdrawal is done when its key is spent.
LEMMA DoneIsSpent ==
  ASSUME NEW w \in Withdraw
  PROVE  /\ Reserved(w) <=> Spent("lock", w)
         /\ Reserved(w)' <=> Spent("lock", w)'
         /\ GivenBack(w) <=> Spent("unlock-provider-failure", w)
         /\ GivenBack(w)' <=> Spent("unlock-provider-failure", w)'
         /\ \A v \in Verdicts : Moved(w, v) <=> Spent(SettlementKey(v), w)
         /\ \A v \in Verdicts : Moved(w, v)' <=> Spent(SettlementKey(v), w)'
<1>1. ASSUME NEW kind \in {"lock", "unlock", "debit"}, NEW account, NEW key
      PROVE  /\ Book!Done(Movement(kind, account, w, key)) <=> Spent(key, w)
             /\ Book!Done(Movement(kind, account, w, key))' <=> Spent(key, w)'
  <2> DEFINE q == Movement(kind, account, w, key)
  <2>1. q.kind = kind /\ q.key = <<key, w>>
    BY DEF Movement
  <2> HIDE DEF q
  <2>2. Book!KeysOf(q) = {<<<<key, w>>, "only">>}
    BY <1>1, <2>1 DEF Book!KeysOf, Book!LegsOf, Book!KeyOf
  <2> QED
    BY <2>2 DEF Book!Done, Spent, q
<1> QED
  BY <1>1 DEF Reserved, GivenBack, Moved, Reserve, GiveBack, Settlement, PayOut, Return,
               SettlementKey, Verdicts

\* A reservation ends by being given back, paid out or returned.
LEMMA EndingsAre ==
  ASSUME NEW w \in Withdraw
  PROVE  /\ Endings(w) = {} <=> ~ GivenBack(w) /\ \A v \in Verdicts : ~ Moved(w, v)
         /\ Endings(w)' = {} <=> ~ GivenBack(w)' /\ \A v \in Verdicts : ~ Moved(w, v)'
BY DEF Endings, GivenBack, Moved, Settlement, Verdicts

\* Settled both ways: one movement for each verdict.
LEMMA BothWaysAre ==
  ASSUME NEW w \in Withdraw
  PROVE  /\ w \in BothWays <=> \A v \in Verdicts : Moved(w, v)
         /\ w \in BothWays' <=> \A v \in Verdicts : Moved(w, v)'
BY DEF BothWays, Endings, Moved, Settlement, Verdicts

\* A movement posted once, now or before, leaves its key spent and no other.
LEMMA PostOnceSpends ==
  ASSUME NEW w \in Withdraw, NEW kind \in {"lock", "unlock", "debit"},
         NEW account, NEW key, Book!PostOnce(Movement(kind, account, w, key))
  PROVE  posted' = posted \union {<<<<key, w>>, "only">>}
<1> DEFINE q == Movement(kind, account, w, key)
<1>1. q.kind = kind /\ q.key = <<key, w>>
  BY DEF Movement
<1>2. Book!PostOnce(q)
  OBVIOUS
<1> HIDE DEF q
<1>3. Book!KeysOf(q) = {<<<<key, w>>, "only">>}
  BY <1>1 DEF Book!KeysOf, Book!LegsOf, Book!KeyOf
<1> QED
  BY <1>2, <1>3 DEF Book!PostOnce, Book!Post, Book!Done, Book!bookVars

\* What no step undoes.
Lasting ==
  /\ posted \subseteq posted'
  /\ \A g \in Gateways, w \in Withdraw : verdict[g][w] \subseteq verdict'[g][w]
  /\ \A w \in Withdraw :
       status[w] # "none" => status'[w] # "none" /\ chosen'[w] = chosen[w]

Keys == {"lock", "unlock-provider-failure", "approve", "unlock-reject"}
SameKeys(w) == \A key \in Keys : Spent(key, w)' <=> Spent(key, w)

\* A step that spends no key of a withdrawal leaves its movements as they were.
LEMMA SameMoney ==
  ASSUME NEW w \in Withdraw, SameKeys(w)
  PROVE  /\ Reserved(w)' <=> Reserved(w)
         /\ GivenBack(w)' <=> GivenBack(w)
         /\ \A v \in Verdicts : Moved(w, v)' <=> Moved(w, v)
         /\ Endings(w)' = {} <=> Endings(w) = {}
BY DoneIsSpent, EndingsAre DEF SameKeys, Keys, SettlementKey, Verdicts

\* Withdrawals that a step does not touch know what they knew.
LEMMA Untouched ==
  ASSUME RequestsTyped, NEW w \in Withdraw, RequestKnows(w), SameKeys(w),
         demo' = demo, step'[w] = step[w], deciding'[w] = deciding[w],
         tried'[w] = tried[w], waited'[w] = waited[w],
         chosen'[w] = chosen[w], status'[w] = status[w],
         \A g \in Gateways : w \in holds'[g] => w \in holds[g],
         \A g \in Gateways : verdict[g][w] \subseteq verdict'[g][w]
  PROVE  RequestKnows(w)'
<1> USE DEF RequestKnows, Real
<1>1. MoneyFollowsRequest(w)'
  BY SameMoney DEF MoneyFollowsRequest
<1>2. GatewayFollowsRequest(w)'
  BY SameMoney DEF GatewayFollowsRequest
<1>3. DecisionsAreShown(w)'
  BY DEF DecisionsAreShown
<1>4. MovesAreDecided(w)'
  <2>1. Real /\ status[w] # "none" => chosen[w] \in Gateways
    BY DEF GatewayFollowsRequest
  <2> QED
    BY <2>1, SameMoney DEF MovesAreDecided
<1> QED
  BY <1>1, <1>2, <1>3, <1>4
-----------------------------------------------------------------------------
RequestsLast == RequestsTyped' /\ RequestsInv' /\ Lasting

\* SET NX, the release, the key's deletion and its expiry; and a request that
\* fails on the way.
LEMMA LockStepsLast ==
  ASSUME RequestsTyped, RequestsInv,
         \/ LockExpires
         \/ \E w \in Withdraw : \/ TakeLock(w) \/ Release(w) \/ DeleteKey(w)
                               \/ RequestThrows(w) \/ RequestDies(w)
  PROVE  RequestsLast
<1> USE DEF RequestsTyped, RequestsLast, Running
<1>1. CASE LockExpires
  <2>1. RequestsTyped' /\ Lasting
    BY <1>1 DEF LockExpires, Lasting
  <2>2. \A w \in Withdraw : RequestKnows(w)'
    BY <1>1, Untouched DEF LockExpires, RequestsInv, SameKeys, Spent
  <2> QED
    BY <2>1, <2>2 DEF RequestsInv
<1>2. ASSUME NEW w \in Withdraw,
             \/ TakeLock(w) \/ Release(w) \/ DeleteKey(w)
             \/ RequestThrows(w) \/ RequestDies(w)
      PROVE  RequestsLast
  <2>1. /\ UNCHANGED <<demo, deciding, tried, waited, chosen, holds, status, verdict,
                       balance, posted>>
        /\ failed' \in {failed, failed \union {w}}
        /\ \E s \in {"reserve", "release", "ended", "delete", "dead"} :
             /\ step' = [step EXCEPT ![w] = s]
             /\ step[w] \in {"new"} \union Running
             /\ s = "reserve" => step[w] = "new"
             /\ s = "ended" => step[w] \in {"new", "release", "delete"}
             /\ s = "delete" => step[w] = "release"
             /\ s \in {"dead", "release"} => step[w] # "new"
        /\ holder' \in Withdraw \union {Nobody}
    BY <1>2 DEF TakeLock, Release, DeleteKey, RequestThrows, RequestDies, Advance
  <2>2. RequestsTyped' /\ Lasting
    <3>1. failed' \subseteq Withdraw
      BY <2>1
    <3>2. step' \in [Withdraw -> Running \union {"new", "ended", "dead"}]
      BY <2>1
    <3> QED
      BY <2>1, <3>1, <3>2 DEF Lasting
  <2>3. \A x \in Withdraw : SameKeys(x)
    BY <2>1 DEF SameKeys, Spent
  <2>4. \A x \in Withdraw \ {w} : RequestKnows(x)'
    BY <2>1, <2>3, Untouched DEF RequestsInv
  <2>5. RequestKnows(w)'
    <3> USE <2>1, <2>3, SameMoney DEF RequestsInv, RequestKnows, Real
    <3>1. MoneyFollowsRequest(w)'
      BY DEF MoneyFollowsRequest, Over
    <3>2. GatewayFollowsRequest(w)'
      BY DEF GatewayFollowsRequest, MoneyFollowsRequest, Over
    <3>3. DecisionsAreShown(w)' /\ MovesAreDecided(w)'
      BY DEF DecisionsAreShown, MovesAreDecided
    <3> QED
      BY <3>1, <3>2, <3>3
  <2> QED
    BY <2>2, <2>4, <2>5 DEF RequestsInv
<1> QED
  BY <1>1, <1>2

\* walletService.lock: the request is reserved before it is dispatched.
LEMMA ReserveFundsLasts ==
  ASSUME RequestsTyped, RequestsInv, NEW w \in Withdraw, ReserveFunds(w)
  PROVE  RequestsLast
<1>1. /\ UNCHANGED <<demo, holder, deciding, failed, tried, waited, chosen, holds, status, verdict>>
      /\ step[w] = "reserve"
  BY DEF ReserveFunds, Advance
<1>2. \/ /\ posted' = posted \union {<<<<"lock", w>>, "only">>}
         /\ step' = [step EXCEPT ![w] = IF Real THEN "dispatch" ELSE "persist"]
      \/ posted' = posted /\ step' = [step EXCEPT ![w] = "release"]
  BY PostOnceSpends DEF ReserveFunds, Advance, Reserve
<1>3. RequestsTyped' /\ Lasting
  BY <1>1, <1>2 DEF RequestsTyped, Running, Lasting
<1>4. \A x \in Withdraw \ {w} : RequestKnows(x)'
  <2>1. \A x \in Withdraw \ {w} : SameKeys(x)
    BY <1>2 DEF SameKeys, Spent
  <2> QED
    BY <1>1, <1>2, <2>1, Untouched DEF RequestsTyped, RequestsInv
<1>5. RequestKnows(w)'
  <2>1. \A key \in Keys \ {"lock"} : Spent(key, w)' <=> Spent(key, w)
    BY <1>2 DEF Keys, Spent
  <2>2. Spent("lock", w)' <=> Spent("lock", w) \/ step'[w] # "release"
    BY <1>1, <1>2 DEF Spent, RequestsTyped
  <2>3. /\ Reserved(w)' <=> Reserved(w) \/ step'[w] # "release"
        /\ GivenBack(w)' <=> GivenBack(w)
        /\ \A v \in Verdicts : Moved(w, v)' <=> Moved(w, v)
        /\ Endings(w)' = {} <=> Endings(w) = {}
    BY <2>1, <2>2, DoneIsSpent, EndingsAre DEF Keys, SettlementKey, Verdicts
  <2>4. step'[w] \in {"release", IF Real THEN "dispatch" ELSE "persist"}
    BY <1>2 DEF RequestsTyped
  <2> USE <1>1, <2>3, <2>4 DEF RequestsInv, RequestKnows, Real
  <2>5. MoneyFollowsRequest(w)'
    BY DEF MoneyFollowsRequest, Over
  <2>6. GatewayFollowsRequest(w)'
    BY DEF GatewayFollowsRequest, MoneyFollowsRequest, Over
  <2>7. DecisionsAreShown(w)' /\ MovesAreDecided(w)'
    BY DEF DecisionsAreShown, MovesAreDecided
  <2> QED
    BY <2>5, <2>6, <2>7
<1> QED
  BY <1>3, <1>4, <1>5 DEF RequestsLast, RequestsInv

\* The catch: a reservation nobody answered for is given back, or refused.
LEMMA GiveFundsBackLasts ==
  ASSUME RequestsTyped, RequestsInv, NEW w \in Withdraw, GiveFundsBack(w)
  PROVE  RequestsLast
<1>1. /\ UNCHANGED <<demo, holder, deciding, failed, tried, waited, chosen, holds, status, verdict>>
      /\ step[w] = "give back"
      /\ step' = [step EXCEPT ![w] = "release"]
  BY DEF GiveFundsBack, Advance
<1>2. \/ posted' = posted \union {<<<<"unlock-provider-failure", w>>, "only">>}
      \/ posted' = posted
  BY PostOnceSpends DEF GiveFundsBack, GiveBack
<1>3. RequestsTyped' /\ Lasting
  BY <1>1, <1>2 DEF RequestsTyped, Running, Lasting
<1>4. \A x \in Withdraw \ {w} : RequestKnows(x)'
  <2>1. \A x \in Withdraw \ {w} : SameKeys(x)
    BY <1>2 DEF SameKeys, Spent
  <2> QED
    BY <1>1, <1>2, <2>1, Untouched DEF RequestsTyped, RequestsInv
<1>5. RequestKnows(w)'
  <2>1. \A key \in Keys \ {"unlock-provider-failure"} : Spent(key, w)' <=> Spent(key, w)
    BY <1>2 DEF Keys, Spent
  <2>2. /\ Reserved(w)' <=> Reserved(w)
        /\ \A v \in Verdicts : Moved(w, v)' <=> Moved(w, v)
    BY <2>1, DoneIsSpent DEF Keys, SettlementKey, Verdicts
  <2>3. step'[w] = "release" /\ Reserved(w) /\ Endings(w) = {} /\ status[w] = "none" /\ Real
    BY <1>1
    DEF RequestsTyped, RequestsInv, RequestKnows, MoneyFollowsRequest,
        GatewayFollowsRequest, Over, Real
  <2> USE <1>1, <2>2, <2>3 DEF RequestsInv, RequestKnows, Real
  <2>4. MoneyFollowsRequest(w)'
    BY DEF MoneyFollowsRequest, Over
  <2>5. GatewayFollowsRequest(w)'
    BY DEF GatewayFollowsRequest, MoneyFollowsRequest, Over
  <2>6. DecisionsAreShown(w)' /\ MovesAreDecided(w)'
    BY DEF DecisionsAreShown, MovesAreDecided
  <2> QED
    BY <2>4, <2>5, <2>6
<1> QED
  BY <1>3, <1>4, <1>5 DEF RequestsLast, RequestsInv

\* A candidate answers in time.
LEMMA GatewayAcceptsLasts ==
  ASSUME RequestsTyped, RequestsInv, NEW w \in Withdraw, NEW g \in Gateways,
         GatewayAccepts(w, g)
  PROVE  RequestsLast
<1>1. UNCHANGED <<demo, holder, deciding, failed, waited, status, verdict, balance, posted>>
  BY DEF GatewayAccepts, Advance
<1>2. /\ step[w] = "dispatch" /\ step' = [step EXCEPT ![w] = "persist"]
      /\ chosen' = [chosen EXCEPT ![w] = g]
      /\ tried' = [tried EXCEPT ![w] = {}]
      /\ holds' = [holds EXCEPT ![g] = holds[g] \union {w}]
  BY DEF GatewayAccepts, Advance
<1>3. \A x \in Withdraw : SameKeys(x)
  BY <1>1 DEF SameKeys, Spent
<1>4. /\ step'[w] = "persist" /\ chosen'[w] = g
      /\ \A x \in Withdraw \ {w} :
           step'[x] = step[x] /\ chosen'[x] = chosen[x] /\ tried'[x] = tried[x]
      /\ \A h \in Gateways, x \in Withdraw :
           x \in holds'[h] => x \in holds[h] \/ (x = w /\ h = g)
  BY <1>2 DEF RequestsTyped
<1>5. /\ Reserved(w) /\ Endings(w) = {} /\ status[w] = "none" /\ Real
      /\ chosen[w] = Nobody
  BY <1>2 DEF RequestsInv, RequestKnows, MoneyFollowsRequest, GatewayFollowsRequest, Over, Real
<1>6. RequestsTyped'
  BY <1>1, <1>2 DEF RequestsTyped, Running
<1>7. Lasting
  BY <1>1, <1>4, <1>5 DEF Lasting
<1>8. \A x \in Withdraw \ {w} : RequestKnows(x)'
  BY <1>1, <1>3, <1>4, Untouched DEF RequestsInv
<1>9. RequestKnows(w)'
  <2> USE <1>1, <1>3, <1>4, <1>5, SameMoney, EndingsAre DEF RequestsInv, RequestKnows, Real
  <2>1. MoneyFollowsRequest(w)'
    BY DEF MoneyFollowsRequest
  <2>2. GatewayFollowsRequest(w)'
    BY NobodyAssumption DEF GatewayFollowsRequest
  <2>3. DecisionsAreShown(w)'
    BY DEF DecisionsAreShown
  <2>4. MovesAreDecided(w)'
    BY DEF MovesAreDecided, StatusOf, Verdicts
  <2> QED
    BY <2>1, <2>2, <2>3, <2>4
<1> QED
  BY <1>6, <1>7, <1>8, <1>9 DEF RequestsLast, RequestsInv

\* A candidate rejects, or times out: it may hold the request all the same.
LEMMA GatewayFailsLasts ==
  ASSUME RequestsTyped, RequestsInv, NEW w \in Withdraw, NEW g \in Gateways,
         NEW t \in {0, 1}, NEW heard \in BOOLEAN, GatewayFails(w, g, t, heard)
  PROVE  RequestsLast
<1>1. UNCHANGED <<demo, holder, deciding, failed, chosen, status, verdict, balance, posted>>
  BY DEF GatewayFails, Advance
<1>2. /\ step[w] = "dispatch" /\ g \notin tried[w]
      /\ \E s \in {"give back", "dispatch"} : step' = [step EXCEPT ![w] = s]
      /\ tried' = [tried EXCEPT ![w] = tried[w] \union {g}]
      /\ waited' = [waited EXCEPT ![w] = waited[w] + t]
      /\ heard => LostAnswers
      /\ holds' = [holds EXCEPT ![g] = IF heard THEN holds[g] \union {w} ELSE holds[g]]
  BY DEF GatewayFails, Advance
<1>3. t \in Nat /\ t <= 1
  OBVIOUS
<1>4. \A x \in Withdraw : SameKeys(x)
  BY <1>1 DEF SameKeys, Spent
<1>5. /\ step'[w] \in {"give back", "dispatch"}
      /\ tried'[w] = tried[w] \union {g} /\ waited'[w] = waited[w] + t
      /\ \A x \in Withdraw \ {w} :
           step'[x] = step[x] /\ tried'[x] = tried[x] /\ waited'[x] = waited[x]
  BY <1>2 DEF RequestsTyped
<1>6. /\ holds' \in [Gateways -> SUBSET Withdraw]
       /\ \A h \in Gateways, x \in Withdraw :
            x \in holds'[h] => x \in holds[h] \/ (x = w /\ LostAnswers)
  <2>1. holds \in [Gateways -> SUBSET Withdraw]
    BY DEF RequestsTyped
  <2>2. CASE heard
    BY <1>2, <2>1, <2>2
  <2>3. CASE ~ heard
    BY <1>2, <2>1, <2>3
  <2> QED
    BY <2>2, <2>3
<1>7. /\ Reserved(w) /\ Endings(w) = {} /\ status[w] = "none" /\ Real
      /\ chosen[w] = Nobody
  BY <1>2 DEF RequestsInv, RequestKnows, MoneyFollowsRequest, GatewayFollowsRequest, Over, Real
<1>8. RequestsTyped'
  <2>1. waited' \in [Withdraw -> Nat] /\ tried' \in [Withdraw -> SUBSET Gateways]
    <3>1. waited \in [Withdraw -> Nat] /\ tried \in [Withdraw -> SUBSET Gateways]
      BY DEF RequestsTyped
    <3>2. waited[w] + t \in Nat
      BY <1>3, <3>1
    <3>3. tried[w] \union {g} \in SUBSET Gateways
      BY <3>1
    <3> QED
      BY <1>2, <3>1, <3>2, <3>3
  <2>2. holds' \in [Gateways -> SUBSET Withdraw]
    BY <1>6
  <2>3. step' \in [Withdraw -> Running \union {"new", "ended", "dead"}]
    BY <1>2 DEF RequestsTyped, Running
  <2> QED
    BY <1>1, <2>1, <2>2, <2>3 DEF RequestsTyped
<1>9. Lasting
  BY <1>1 DEF Lasting
<1>10. \A x \in Withdraw \ {w} : RequestKnows(x)'
  <2> SUFFICES ASSUME NEW x \in Withdraw \ {w} PROVE RequestKnows(x)'
    OBVIOUS
  <2>1. \A h \in Gateways : x \in holds'[h] => x \in holds[h]
    BY <1>6
  <2>2. SameKeys(x) /\ RequestKnows(x)
    BY <1>4 DEF RequestsInv
  <2>3. /\ step'[x] = step[x] /\ tried'[x] = tried[x] /\ waited'[x] = waited[x]
        /\ demo' = demo /\ deciding'[x] = deciding[x] /\ chosen'[x] = chosen[x]
        /\ status'[x] = status[x] /\ verdict' = verdict
    BY <1>1, <1>5
  <2> QED
    BY <2>1, <2>2, <2>3, Untouched
<1>11. RequestKnows(w)'
  <2>1. waited'[w] <= Cardinality(tried'[w]) /\ waited'[w] <= Cardinality(Gateways)
    <3>1. IsFiniteSet(tried[w])
      BY GatewaysAssumption, FS_Subset DEF RequestsTyped
    <3>2. /\ Cardinality(tried[w]) \in Nat
          /\ Cardinality(tried[w] \union {g}) = Cardinality(tried[w]) + 1
      BY <1>2, <3>1, FS_AddElement, FS_CardinalityType
    <3>3. waited[w] \in Nat /\ waited[w] <= Cardinality(tried[w])
      BY <1>2 DEF RequestsTyped, RequestsInv, RequestKnows, GatewayFollowsRequest
    <3>4. waited[w] + t <= Cardinality(tried[w]) + 1
      BY <1>3, <3>2, <3>3
    <3>5. tried[w] \union {g} \subseteq Gateways
      BY DEF RequestsTyped
    <3>6. /\ Cardinality(Gateways) \in Nat
          /\ Cardinality(tried[w]) + 1 <= Cardinality(Gateways)
      BY <3>2, <3>5, GatewaysAssumption, FS_Subset, FS_CardinalityType
    <3>7. waited[w] + t <= Cardinality(Gateways)
      BY <1>3, <3>2, <3>3, <3>4, <3>6
    <3> QED
      BY <1>5, <3>2, <3>4, <3>7
  <2> USE <1>1, <1>4, <1>5, <1>7, SameMoney, EndingsAre DEF RequestsInv, RequestKnows, Real
  <2>2. MoneyFollowsRequest(w)'
    BY DEF MoneyFollowsRequest
  <2>3. GatewayFollowsRequest(w)'
    <3>1. \A h \in Gateways : w \in holds'[h] => LostAnswers \/ chosen'[w] = h
      BY <1>6 DEF GatewayFollowsRequest
    <3> QED
      BY <2>1, <3>1 DEF GatewayFollowsRequest
  <2>4. DecisionsAreShown(w)'
    BY DEF DecisionsAreShown
  <2>5. MovesAreDecided(w)'
    BY DEF MovesAreDecided, StatusOf, Verdicts
  <2> QED
    BY <2>2, <2>3, <2>4, <2>5
<1> QED
  BY <1>8, <1>9, <1>10, <1>11 DEF RequestsLast, RequestsInv

\* The row: from here on webhooks, polls or an administrator settle it.
LEMMA PersistLasts ==
  ASSUME RequestsTyped, RequestsInv, NEW w \in Withdraw, Persist(w)
  PROVE  RequestsLast
<1>1. UNCHANGED <<demo, holder, deciding, failed, tried, waited, chosen, holds, verdict, balance, posted>>
  BY DEF Persist, Advance
<1>2. /\ step[w] = "persist" /\ step' = [step EXCEPT ![w] = "release"]
      /\ status' = [status EXCEPT ![w] = "PENDING"]
  BY DEF Persist, Advance
<1>3. \A x \in Withdraw : SameKeys(x)
  BY <1>1 DEF SameKeys, Spent
<1>4. /\ step'[w] = "release" /\ status'[w] = "PENDING"
      /\ \A x \in Withdraw \ {w} : step'[x] = step[x] /\ status'[x] = status[x]
  BY <1>2 DEF RequestsTyped
<1>5. Reserved(w) /\ Endings(w) = {} /\ status[w] = "none" /\ deciding[w] = "none"
  BY <1>2 DEF RequestsInv, RequestKnows, MoneyFollowsRequest, DecisionsAreShown, Over
<1>6. RequestsTyped' /\ Lasting
  BY <1>1, <1>2, <1>4 DEF RequestsTyped, Running, Lasting
<1>7. \A x \in Withdraw \ {w} : RequestKnows(x)'
  BY <1>1, <1>3, <1>4, Untouched DEF RequestsInv
<1>8. RequestKnows(w)'
  <2> USE <1>1, <1>4, <1>5 DEF RequestsInv, RequestKnows, Real
  <2>1. MoneyFollowsRequest(w)'
    BY <1>3, SameMoney, EndingsAre DEF MoneyFollowsRequest, Over
  <2>2. GatewayFollowsRequest(w)'
    BY <1>2, <1>3, SameMoney DEF GatewayFollowsRequest
  <2>3. DecisionsAreShown(w)'
    BY DEF DecisionsAreShown, Verdicts
  <2>4. MovesAreDecided(w)'
    BY <1>3, SameMoney, EndingsAre DEF MovesAreDecided, StatusOf, Verdicts
  <2> QED
    BY <2>1, <2>2, <2>3, <2>4
<1> QED
  BY <1>6, <1>7, <1>8 DEF RequestsLast, RequestsInv

\* A gateway decides: it may know of more, and nothing moves.
LEMMA GatewayDecidesLasts ==
  ASSUME RequestsTyped, RequestsInv, NEW g \in Gateways, NEW w \in Withdraw,
         NEW v \in Verdicts, GatewayDecides(g, w, v)
  PROVE  RequestsLast
<1>1. UNCHANGED <<demo, holder, step, deciding, failed, tried, waited, chosen, holds,
                  status, balance, posted>>
  BY DEF GatewayDecides, requestVars
<1>2. verdict' = [verdict EXCEPT ![g] = [verdict[g] EXCEPT ![w] = verdict[g][w] \union {v}]]
      /\ verdict[g][w] \union {v} \in Histories
  BY DEF GatewayDecides
<1>3. verdict' \in [Gateways -> [Withdraw -> Histories]]
  <2>1. verdict \in [Gateways -> [Withdraw -> Histories]]
    BY DEF RequestsTyped
  <2> QED
    BY <1>2, <2>1
<1>4. \A h \in Gateways, x \in Withdraw : verdict[h][x] \subseteq verdict'[h][x]
  BY <1>2 DEF RequestsTyped
<1>5. RequestsTyped' /\ Lasting
  BY <1>1, <1>3, <1>4 DEF RequestsTyped, Lasting
<1>6. \A x \in Withdraw : RequestKnows(x)'
  <2>1. \A x \in Withdraw : SameKeys(x)
    BY <1>1 DEF SameKeys, Spent
  <2> QED
    BY <1>1, <1>4, <2>1, Untouched DEF RequestsInv
<1> QED
  BY <1>5, <1>6 DEF RequestsLast, RequestsInv

\* decideSimulatedWithdraw: of a demo account alone, and only while PENDING.
LEMMA DecideLasts ==
  ASSUME RequestsTyped, RequestsInv, NEW w \in Withdraw, NEW v \in Verdicts, Decide(w, v)
  PROVE  RequestsLast
<1>1. UNCHANGED <<demo, holder, step, failed, tried, waited, chosen, holds, verdict,
                  balance, posted>>
  BY DEF Decide
<1>2. /\ ~ Real /\ status[w] = "PENDING"
      /\ status' = [status EXCEPT ![w] = StatusOf[v]]
      /\ deciding' = [deciding EXCEPT ![w] = v]
  BY DEF Decide
<1>3. StatusOf[v] \in {"APPROVED", "REJECTED"}
  BY DEF StatusOf, Verdicts
<1>4. RequestsTyped'
  BY <1>1, <1>2, <1>3 DEF RequestsTyped
<1>5. /\ status'[w] = StatusOf[v] /\ deciding'[w] = v
      /\ \A x \in Withdraw \ {w} : status'[x] = status[x] /\ deciding'[x] = deciding[x]
  BY <1>2 DEF RequestsTyped
<1>6. Lasting
  BY <1>1, <1>2, <1>3, <1>5 DEF Lasting
<1>7. \A x \in Withdraw : SameKeys(x)
  BY <1>1 DEF SameKeys, Spent
<1>8. \A x \in Withdraw \ {w} : RequestKnows(x)'
  BY <1>1, <1>5, <1>7, Untouched DEF RequestsInv
<1>9. RequestKnows(w)'
  <2>1. deciding[w] = "none"
    BY <1>2 DEF RequestsInv, RequestKnows, DecisionsAreShown, RequestsTyped
  <2>2. \A u \in Verdicts : ~ Moved(w, u)
    BY <1>2, <2>1 DEF RequestsInv, RequestKnows, MovesAreDecided, Real
  <2> USE <1>1, <1>2, <1>3, <1>5, <2>1 DEF RequestsInv, RequestKnows, Real
  <2>3. MoneyFollowsRequest(w)'
    BY <1>7, SameMoney DEF MoneyFollowsRequest
  <2>4. GatewayFollowsRequest(w)'
    BY <1>7, SameMoney DEF GatewayFollowsRequest
  <2>5. DecisionsAreShown(w)'
    BY DEF DecisionsAreShown, Verdicts
  <2>6. MovesAreDecided(w)'
    BY <1>7, <2>2, SameMoney DEF MovesAreDecided
  <2> QED
    BY <2>3, <2>4, <2>5, <2>6
<1> QED
  BY <1>4, <1>6, <1>8, <1>9 DEF RequestsLast, RequestsInv

\* The decision's movement is posted or refused, or its process dies.
LEMMA MoveDecidedLasts ==
  ASSUME RequestsTyped, RequestsInv, NEW w \in Withdraw,
         MoveDecided(w) \/ DecisionDies(w)
  PROVE  RequestsLast
<1>1. UNCHANGED <<demo, holder, step, failed, tried, waited, chosen, holds, status, verdict>>
  BY DEF MoveDecided, DecisionDies
<1>2. PICK v \in Verdicts : deciding[w] = v
  BY DEF MoveDecided, DecisionDies
<1>3. demo /\ status[w] = StatusOf[v]
  BY <1>2 DEF RequestsTyped, RequestsInv, RequestKnows, DecisionsAreShown, Real, Verdicts
<1>4. PICK now \in {"done", "dead"} : deciding' = [deciding EXCEPT ![w] = now]
  BY DEF MoveDecided, DecisionDies
<1>5. \/ posted' = posted
      \/ posted' = posted \union {<<<<SettlementKey(v), w>>, "only">>} /\ now = "done"
  <2>1. CASE MoveDecided(w)
    <3>1. deciding'[w] = "done"
      BY <2>1 DEF MoveDecided, RequestsTyped
    <3>2. now = "done"
      BY <1>4, <3>1 DEF RequestsTyped
    <3> QED
      BY <1>2, <2>1, <3>2, PostOnceSpends
      DEF MoveDecided, Settlement, PayOut, Return, SettlementKey
  <2>2. CASE DecisionDies(w)
    BY <2>2 DEF DecisionDies
  <2> QED
    BY <2>1, <2>2
<1>6. RequestsTyped' /\ Lasting
  BY <1>1, <1>4, <1>5 DEF RequestsTyped, Lasting
<1>7. /\ deciding'[w] = now
      /\ \A x \in Withdraw \ {w} : deciding'[x] = deciding[x] /\ SameKeys(x)
  BY <1>4, <1>5 DEF RequestsTyped, SameKeys, Spent
<1>8. \A x \in Withdraw \ {w} : RequestKnows(x)'
  BY <1>1, <1>7, Untouched DEF RequestsInv
<1>9. RequestKnows(w)'
  <2>1. \A key \in Keys \ {SettlementKey(v)} : Spent(key, w)' <=> Spent(key, w)
    BY <1>5 DEF Keys, Spent
  <2>2. Spent(SettlementKey(v), w)' <=> Spent(SettlementKey(v), w)
                                        \/ (posted' # posted /\ now = "done")
    BY <1>5 DEF Spent
  <2>3. /\ Reserved(w)' <=> Reserved(w)
        /\ GivenBack(w)' <=> GivenBack(w)
        /\ \A u \in Verdicts :
             Moved(w, u)' <=> Moved(w, u) \/ (u = v /\ posted' # posted /\ now = "done")
    BY <2>1, <2>2, DoneIsSpent DEF Keys, SettlementKey, Verdicts
  <2>4. status[w] \in {"APPROVED", "REJECTED"}
    BY <1>3 DEF StatusOf, Verdicts
  <2>5. Reserved(w) /\ ~ GivenBack(w) /\ step[w] \in Over
    BY <2>4 DEF RequestsInv, RequestKnows, MoneyFollowsRequest
  <2>6. \A u \in Verdicts : ~ Moved(w, u)
    BY <1>2, <1>3 DEF RequestsInv, RequestKnows, MovesAreDecided, Verdicts
  <2> USE <1>1, <1>3, <1>7, <2>3, <2>4, <2>5 DEF RequestsInv, RequestKnows, Real
  <2>7. MoneyFollowsRequest(w)'
    BY DEF MoneyFollowsRequest, Over
  <2>8. GatewayFollowsRequest(w)'
    BY DEF GatewayFollowsRequest
  <2>9. DecisionsAreShown(w)'
    BY DEF DecisionsAreShown, Verdicts
  <2>10. MovesAreDecided(w)'
    BY <2>6 DEF MovesAreDecided
  <2> QED
    BY <2>7, <2>8, <2>9, <2>10
<1> QED
  BY <1>6, <1>8, <1>9 DEF RequestsLast, RequestsInv

\* settle's movement, for a verdict of the gateway that was chosen.
LEMMA SettleMoveLasts ==
  ASSUME RequestsTyped, RequestsInv, NEW w \in Withdraw, NEW v \in Verdicts,
         Real, status[w] # "none", v \in verdict[chosen[w]][w],
         Book!PostOnce(Settlement(w, v)), UNCHANGED <<requestVars, status, verdict>>
  PROVE  RequestsLast
<1>1. UNCHANGED <<demo, holder, step, deciding, failed, tried, waited, chosen, holds, status, verdict>>
  BY DEF requestVars
<1>2. posted' = posted \union {<<<<SettlementKey(v), w>>, "only">>}
  BY PostOnceSpends DEF Settlement, PayOut, Return, SettlementKey
<1>3. RequestsTyped' /\ Lasting
  BY <1>1, <1>2 DEF RequestsTyped, Lasting
<1>4. \A x \in Withdraw \ {w} : RequestKnows(x)'
  <2>1. \A x \in Withdraw \ {w} : SameKeys(x)
    BY <1>2 DEF SameKeys, Spent
  <2> QED
    BY <1>1, <2>1, Untouched DEF RequestsInv
<1>5. RequestKnows(w)'
  <2>1. \A key \in Keys : Spent(key, w)' <=> Spent(key, w) \/ key = SettlementKey(v)
    BY <1>2 DEF Keys, Spent
  <2>2. /\ Reserved(w)' <=> Reserved(w)
        /\ GivenBack(w)' <=> GivenBack(w)
        /\ \A u \in Verdicts : Moved(w, u)' <=> Moved(w, u) \/ u = v
    BY <2>1, DoneIsSpent DEF Keys, SettlementKey, Verdicts
  <2>3. Reserved(w) /\ ~ GivenBack(w) /\ step[w] \in Over
    BY DEF RequestsInv, RequestKnows, MoneyFollowsRequest
  <2> USE <1>1, <2>2, <2>3 DEF RequestsInv, RequestKnows, Real
  <2>4. MoneyFollowsRequest(w)'
    BY DEF MoneyFollowsRequest, Over
  <2>5. GatewayFollowsRequest(w)'
    BY DEF GatewayFollowsRequest
  <2>6. DecisionsAreShown(w)'
    BY DEF DecisionsAreShown
  <2>7. MovesAreDecided(w)'
    BY DEF MovesAreDecided
  <2> QED
    BY <2>4, <2>5, <2>6, <2>7
<1> QED
  BY <1>3, <1>4, <1>5 DEF RequestsLast, RequestsInv

\* settle's update, after the movement.
LEMMA SettleUpdateLasts ==
  ASSUME RequestsTyped, RequestsInv, NEW w \in Withdraw, NEW v \in Verdicts,
         Real, status[w] # "none", Moved(w, v),
         status' = [status EXCEPT ![w] = StatusOf[v]],
         UNCHANGED <<requestVars, verdict, balance, posted>>
  PROVE  RequestsLast
<1>1. UNCHANGED <<demo, holder, step, deciding, failed, tried, waited, chosen, holds, verdict,
                  balance, posted>>
  BY DEF requestVars
<1>2. /\ StatusOf[v] \in {"APPROVED", "REJECTED"}
      /\ \A u \in Verdicts : StatusOf[u] = StatusOf[v] => u = v
  BY DEF StatusOf, Verdicts
<1>3. status'[w] = StatusOf[v] /\ \A x \in Withdraw \ {w} : status'[x] = status[x]
  BY DEF RequestsTyped
<1>4. RequestsTyped' /\ Lasting
  BY <1>1, <1>2, <1>3 DEF RequestsTyped, Lasting
<1>5. \A x \in Withdraw : SameKeys(x)
  BY <1>1 DEF SameKeys, Spent
<1>6. \A x \in Withdraw \ {w} : RequestKnows(x)'
  BY <1>1, <1>3, <1>5, Untouched DEF RequestsInv
<1>7. RequestKnows(w)'
  <2> USE <1>1, <1>2, <1>3 DEF RequestsInv, RequestKnows, Real
  <2>1. MoneyFollowsRequest(w)'
    BY <1>5, SameMoney DEF MoneyFollowsRequest
  <2>2. GatewayFollowsRequest(w)'
    BY <1>5, SameMoney DEF GatewayFollowsRequest
  <2>3. DecisionsAreShown(w)'
    BY DEF DecisionsAreShown, Verdicts
  <2>4. MovesAreDecided(w)'
    BY <1>5, SameMoney DEF MovesAreDecided
  <2> QED
    BY <2>1, <2>2, <2>3, <2>4
<1> QED
  BY <1>4, <1>6, <1>7 DEF RequestsLast, RequestsInv
-----------------------------------------------------------------------------
\* What is known of a payload stays so.
LEMMA PayloadsLast ==
  ASSUME Lasting, NEW p \in Payloads
  PROVE  /\ Heard(p) => Heard(p)'
         /\ Known(p) => Known(p)'
         /\ Carried(p) => Carried(p)'
         /\ Settled(p) => Settled(p)'
<1>1. p.withdraw \in Withdraw /\ p.gateway \in Gateways /\ p.type \in Verdicts
  BY PayloadParts
<1>2. Heard(p) => Heard(p)'
  BY <1>1 DEF Lasting, Heard
<1>3. Known(p) => Known(p)'
  BY <1>1 DEF Lasting, Known
<1>4. \A key : Spent(key, p.withdraw) => Spent(key, p.withdraw)'
  BY DEF Lasting, Spent
<1>5. /\ \A v \in Verdicts : Moved(p.withdraw, v) => Moved(p.withdraw, v)'
      /\ GivenBack(p.withdraw) => GivenBack(p.withdraw)'
  BY <1>1, <1>4, DoneIsSpent
<1>6. Settled(p) => Settled(p)'
  BY <1>1, <1>5, EndingsAre DEF Settled
<1> QED
  BY <1>1, <1>2, <1>3, <1>5, <1>6 DEF Carried

\* A payload whose movement is made is settled.
LEMMA CarriedIsSettled ==
  ASSUME NEW p \in Payloads
  PROVE  (Carried(p) => Settled(p)) /\ (Carried(p)' => Settled(p)')
BY PayloadParts, EndingsAre DEF Carried, Settled

\* A worker that does nothing goes on knowing what it knew.
LEMMA KeepsKnowing ==
  ASSUME WorkersTyped, Lasting, NEW c \in Workers, WorkerKnows(c),
         at'[c] = at[c], payload'[c] = payload[c], row'[c] = row[c],
         \A p \in Payloads : hooks'[p] \in Seq(RowStatus) /\ Len(hooks'[p]) >= Len(hooks[p])
  PROVE  WorkerKnows(c)'
<1>1. ASSUME NEW p \in Payloads, payload[c] = p
      PROVE  /\ row'[c] # 0 => row'[c] \in 1..Len(hooks'[p])
             /\ Heard(p)'
             /\ at'[c] \in Found => Known(p)'
             /\ at'[c] = "update" => Carried(p)'
             /\ at'[c] = "settled" => Settled(p)'
  <2>1. row[c] # 0 => row[c] \in 1..Len(hooks'[p])
    BY <1>1 DEF WorkersTyped, WorkerKnows
  <2> QED
    BY <1>1, <2>1, PayloadsLast DEF WorkerKnows
<1> QED
  BY <1>1 DEF WorkerKnows

\* A step of one worker: rows only grow, and what it claims is so.
LEMMA WorkerGoesOn ==
  ASSUME WorkersTyped, WorkersInv, Lasting, WorkersTyped', NEW d \in Workers,
         \A c \in Workers \ {d} :
           at'[c] = at[c] /\ payload'[c] = payload[c] /\ row'[c] = row[c],
         WorkerKnows(d)',
         \A p \in Payloads :
           /\ Len(hooks'[p]) >= Len(hooks[p])
           /\ hooks'[p] # << >> => hooks[p] # << >> \/ (Heard(p)' /\ Known(p)')
           /\ \A i \in 1..Len(hooks'[p]) : hooks'[p][i] = "PROCESSED" =>
                Settled(p)' \/ (i \in 1..Len(hooks[p]) /\ hooks[p][i] = "PROCESSED")
           /\ p \in acked' => p \in acked \/ Settled(p)'
  PROVE  WorkersInv'
<1>1. \A c \in Workers : WorkerKnows(c)'
  BY KeepsKnowing DEF WorkersInv, WorkersTyped
<1>2. \A p \in Payloads : RowsTellTheTruth(p)'
  BY PayloadsLast DEF WorkersInv, RowsTellTheTruth
<1>3. \A p \in Payloads : p \in acked' => Settled(p)'
  BY PayloadsLast DEF WorkersInv, AckedMeansSettled, Settled
<1> QED
  BY <1>1, <1>2, <1>3 DEF WorkersInv, AckedMeansSettled, Settled

\* A step of a request or of a gateway leaves the workers what they know.
LEMMA WorkersUntouched ==
  ASSUME WorkersTyped, WorkersInv, Lasting, UNCHANGED <<hooks, at, payload, row, acked>>,
         faults' \in 0..MaxFaults
  PROVE  WorkersTyped' /\ WorkersInv'
<1>1. WorkersTyped'
  BY DEF WorkersTyped
<1>2. \A c \in Workers : WorkerKnows(c)'
  BY KeepsKnowing DEF WorkersInv, WorkersTyped
<1>3. \A p \in Payloads : RowsTellTheTruth(p)'
  BY PayloadsLast DEF WorkersInv, RowsTellTheTruth
<1>4. \A p \in Payloads : p \in acked' => Settled(p)'
  BY PayloadsLast DEF WorkersInv, AckedMeansSettled, Settled
<1> QED
  BY <1>1, <1>2, <1>3, <1>4 DEF WorkersInv, AckedMeansSettled, Settled
-----------------------------------------------------------------------------
\* A step that moves and writes nothing.
LEMMA NothingMoves ==
  ASSUME RequestsTyped, RequestsInv, UNCHANGED withdrawVars
  PROVE  RequestsLast
<1> USE DEF withdrawVars, requestVars
<1>1. RequestsTyped' /\ Lasting
  BY DEF RequestsTyped, Lasting
<1>2. \A w \in Withdraw : RequestKnows(w)'
  BY Untouched DEF RequestsInv, SameKeys, Spent
<1> QED
  BY <1>1, <1>2 DEF RequestsLast, RequestsInv

\* What a busy worker has in its hands.
LEMMA WorkerFacts ==
  ASSUME WorkersTyped, WorkersInv, NEW d \in Workers, at[d] # "idle"
  PROVE  /\ payload[d] \in Payloads
         /\ hooks[payload[d]] \in Seq(RowStatus)
         /\ row[d] \in Nat
         /\ row[d] # 0 => row[d] \in 1..Len(hooks[payload[d]])
         /\ at[d] \in Found \ {"create"} => row[d] # 0
BY DEF WorkersTyped, WorkersInv, WorkerKnows

\* A worker is done: no row is added, and what became PROCESSED or was answered
\* with a 200 is settled.
LEMMA WorkerLeaves ==
  ASSUME WorkersTyped, WorkersInv, Lasting, NEW d \in Workers, at[d] # "idle", Leave(d),
         hooks' \in [Payloads -> Seq(RowStatus)],
         acked' \subseteq Payloads, faults' \in 0..MaxFaults,
         \A p \in Payloads :
           /\ Len(hooks'[p]) = Len(hooks[p])
           /\ \A i \in 1..Len(hooks[p]) : hooks'[p][i] = "PROCESSED" =>
                hooks[p][i] = "PROCESSED" \/ Settled(p)
           /\ p \in acked' => p \in acked \/ Settled(p)
  PROVE  WorkersTyped' /\ WorkersInv'
<1>1. WorkersTyped'
  BY DEF WorkersTyped, WorkerSteps, Leave
<1>2. /\ at'[d] = "idle" /\ payload'[d] = NoPayload /\ row'[d] = 0
      /\ \A c \in Workers \ {d} :
           at'[c] = at[c] /\ payload'[c] = payload[c] /\ row'[c] = row[c]
  BY DEF WorkersTyped, Leave
<1>3. WorkerKnows(d)'
  BY <1>2, NoPayloadAssumption DEF WorkerKnows, Found
<1>4. \A p \in Payloads : Len(hooks[p]) \in Nat /\ hooks[p] \in Seq(RowStatus)
  BY DEF WorkersTyped
<1>5. ASSUME NEW p \in Payloads
      PROVE  /\ Len(hooks'[p]) >= Len(hooks[p])
             /\ hooks'[p] # << >> => hooks[p] # << >> \/ (Heard(p)' /\ Known(p)')
             /\ \A i \in 1..Len(hooks'[p]) : hooks'[p][i] = "PROCESSED" =>
                  Settled(p)' \/ (i \in 1..Len(hooks[p]) /\ hooks[p][i] = "PROCESSED")
             /\ p \in acked' => p \in acked \/ Settled(p)'
  BY <1>4, PayloadsLast
<1> QED
  BY <1>1, <1>2, <1>3, <1>5, WorkerGoesOn

\* A worker moves on within a settlement and touches no row.
LEMMA WorkerAdvances ==
  ASSUME WorkersTyped, WorkersInv, Lasting, NEW d \in Workers, at[d] # "idle",
         NEW next \in Found \union {"resolve"}, NEW i \in Nat,
         at' = [at EXCEPT ![d] = next], row' = [row EXCEPT ![d] = i],
         UNCHANGED <<hooks, payload, acked>>, faults' \in 0..MaxFaults,
         i # 0 => i \in 1..Len(hooks[payload[d]]),
         next \notin {"resolve", "create"} => i # 0,
         \A p \in Payloads : payload[d] = p =>
           /\ next # "resolve" => Known(p)'
           /\ next = "update" => Carried(p)'
           /\ next = "settled" => Settled(p)'
  PROVE  WorkersTyped' /\ WorkersInv'
<1>1. WorkersTyped'
  BY DEF WorkersTyped, WorkerSteps
<1>2. /\ at'[d] = next /\ payload'[d] = payload[d] /\ row'[d] = i
      /\ \A c \in Workers \ {d} :
           at'[c] = at[c] /\ payload'[c] = payload[c] /\ row'[c] = row[c]
  BY DEF WorkersTyped
<1>3. payload[d] \in Payloads /\ Heard(payload[d]) /\ payload[d] # NoPayload
  BY WorkerFacts, NoPayloadAssumption DEF WorkersInv, WorkerKnows
<1>4. ASSUME NEW p \in Payloads, payload'[d] = p
      PROVE  /\ row'[d] # 0 => row'[d] \in 1..Len(hooks'[p])
             /\ Heard(p)'
             /\ at'[d] \in Found => Known(p)'
             /\ at'[d] = "update" => Carried(p)'
             /\ at'[d] = "settled" => Settled(p)'
  <2>1. payload[d] = p /\ Heard(p)
    BY <1>2, <1>3, <1>4
  <2>2. Heard(p)'
    BY <2>1, PayloadsLast
  <2> QED
    BY <1>2, <2>1, <2>2 DEF Found
<1>5. WorkerKnows(d)'
  BY <1>2, <1>3, <1>4 DEF WorkerKnows, Found
<1>6. \A p \in Payloads : Len(hooks[p]) \in Nat
  BY DEF WorkersTyped
<1> QED
  BY <1>1, <1>2, <1>5, <1>6, WorkerGoesOn

\* A worker takes a payload up: a delivery, a poll, or a row to settle again.
LEMMA WorkerStarts ==
  ASSUME WorkersTyped, WorkersInv, Lasting, NEW d \in Workers, at[d] = "idle",
         NEW p \in Payloads, NEW next \in {"find", "settle"}, NEW i \in Nat,
         at' = [at EXCEPT ![d] = next],
         payload' = [payload EXCEPT ![d] = p], row' = [row EXCEPT ![d] = i],
         UNCHANGED <<hooks, acked, faults>>, Heard(p),
         i # 0 => i \in 1..Len(hooks[p]),
         next = "settle" => i # 0
  PROVE  WorkersTyped' /\ WorkersInv'
<1>1. WorkersTyped'
  BY DEF WorkersTyped, WorkerSteps, Found
<1>2. /\ at'[d] = next /\ payload'[d] = p /\ row'[d] = i
      /\ \A c \in Workers \ {d} :
           at'[c] = at[c] /\ payload'[c] = payload[c] /\ row'[c] = row[c]
  BY DEF WorkersTyped
<1>3. next = "settle" => Known(p)
  BY DEF WorkersTyped, WorkersInv, RowsTellTheTruth
<1>4. WorkerKnows(d)'
  BY <1>2, <1>3, PayloadsLast, NoPayloadAssumption DEF WorkerKnows, Found
<1>5. \A q \in Payloads : Len(hooks[q]) \in Nat
  BY DEF WorkersTyped
<1> QED
  BY <1>1, <1>2, <1>4, <1>5, WorkerGoesOn
-----------------------------------------------------------------------------
\* A worker that answers without a settlement of its own, records one, or dies.
LEMMA AnswersInv ==
  ASSUME WithdrawalsInv, NEW d \in Workers, UNCHANGED withdrawVars,
         \/ FindProcessed(d) \/ AdoptProcessed(d) \/ Die(d)
         \/ Record(d) \/ RecordError(d)
  PROVE  WithdrawalsInv'
<1> USE DEF WithdrawalsInv
<1>1. RequestsLast
  BY NothingMoves
<1>2. at[d] # "idle" /\ Leave(d)
  BY DEF FindProcessed, AdoptProcessed, Die, Record, RecordError, Answer200
<1>3. /\ payload[d] \in Payloads /\ hooks[payload[d]] \in Seq(RowStatus)
      /\ at[d] \in {"settled", "threw"} =>
           row[d] \in 1..Len(hooks[payload[d]])
  BY <1>2, WorkerFacts DEF Found
<1>4. \A p \in Payloads : hooks[p] \in Seq(RowStatus) /\ Len(hooks[p]) \in Nat
  BY DEF WorkersTyped
<1>5. faults \in 0..MaxFaults /\ faults' \in 0..MaxFaults
  BY MaxFaultsAssumption
  DEF WorkersTyped, FindProcessed, AdoptProcessed, Die, Record, RecordError, Answer200
<1>6. CASE FindProcessed(d) \/ AdoptProcessed(d) \/ Die(d)
  <2>1. hooks' = hooks /\ acked \subseteq Payloads
    BY <1>6 DEF FindProcessed, AdoptProcessed, Die, Answer200, WorkersTyped
  <2>2. \/ acked' = acked
        \/ /\ acked' = acked \union {payload[d]}
           /\ hooks[payload[d]] # << >> /\ Last(hooks[payload[d]]) = "PROCESSED"
    BY <1>6 DEF FindProcessed, AdoptProcessed, Die, Answer200, Conflicts
  <2>3. hooks[payload[d]] # << >> /\ Last(hooks[payload[d]]) = "PROCESSED" =>
          Settled(payload[d])
    BY <1>3 DEF WorkersInv, RowsTellTheTruth, Last
  <2> QED
    BY <1>1, <1>2, <1>3, <1>4, <1>5, <2>1, <2>2, <2>3, WorkerLeaves DEF RequestsLast, WorkersTyped
<1>7. ASSUME NEW now \in {"PROCESSED", "ERROR"},
             at[d] = IF now = "PROCESSED" THEN "settled" ELSE "threw",
             hooks' = [hooks EXCEPT ![payload[d]] =
                        [hooks[payload[d]] EXCEPT ![row[d]] = now]],
             acked' = IF now = "PROCESSED" THEN acked \union {payload[d]} ELSE acked
      PROVE  WithdrawalsInv'
  <2>1. at[d] = "settled" => Settled(payload[d])
    BY <1>3 DEF WorkersInv, WorkerKnows
  <2>2. row[d] \in 1..Len(hooks[payload[d]])
    BY <1>3, <1>7
  <2> DEFINE new == [hooks[payload[d]] EXCEPT ![row[d]] = now]
  <2>3. /\ new \in Seq(RowStatus) /\ Len(new) = Len(hooks[payload[d]])
        /\ \A i \in 1..Len(hooks[payload[d]]) :
             new[i] = "PROCESSED" => now = "PROCESSED" \/ hooks[payload[d]][i] = "PROCESSED"
    BY <1>3, <2>2 DEF RowStatus
  <2>4. hooks' = [hooks EXCEPT ![payload[d]] = new]
    BY <1>7
  <2> HIDE DEF new
  <2>5. hooks' \in [Payloads -> Seq(RowStatus)]
    BY <1>3, <2>3, <2>4 DEF WorkersTyped
  <2>6. acked \subseteq Payloads /\ acked' \subseteq Payloads
    BY <1>3, <1>7 DEF WorkersTyped
  <2>7. ASSUME NEW p \in Payloads
        PROVE  /\ Len(hooks'[p]) = Len(hooks[p])
               /\ \A i \in 1..Len(hooks[p]) : hooks'[p][i] = "PROCESSED" =>
                    hooks[p][i] = "PROCESSED" \/ Settled(p)
               /\ p \in acked' => p \in acked \/ Settled(p)
    <3>1. CASE p = payload[d]
      BY <1>3, <1>7, <2>1, <2>3, <2>4, <3>1 DEF WorkersTyped
    <3>2. CASE p # payload[d]
      BY <1>7, <2>4, <3>2 DEF WorkersTyped
    <3> QED
      BY <3>1, <3>2
  <2> QED
    BY <1>1, <1>2, <1>5, <2>5, <2>6, <2>7, WorkerLeaves DEF RequestsLast
<1>8. CASE Record(d)
  BY <1>7, <1>8 DEF Record
<1>9. CASE RecordError(d)
  BY <1>7, <1>9 DEF RecordError
<1> QED
  BY <1>6, <1>8, <1>9

\* findExistingWebhook and the loser of the race to create a row.
LEMMA FindsInv ==
  ASSUME WithdrawalsInv, NEW d \in Workers, UNCHANGED withdrawVars, Find(d) \/ Adopt(d)
  PROVE  WithdrawalsInv'
<1> USE DEF WithdrawalsInv
<1> DEFINE last == Len(hooks[payload[d]])
<1>1. RequestsLast
  BY NothingMoves
<1>2. at[d] # "idle" /\ UNCHANGED <<hooks, payload, acked>> /\ faults' \in 0..MaxFaults
  BY DEF Find, Adopt, WorkersTyped
<1>3. /\ last \in Nat /\ (last # 0 => last \in 1..Len(hooks[payload[d]]))
      /\ hooks[payload[d]] # << >> => last # 0
  BY <1>2, WorkerFacts
<1>4. row' = [row EXCEPT ![d] = last]
  BY DEF Find, Adopt
<1> HIDE DEF last
<1>5. CASE Find(d)
  <2>1. at' = [at EXCEPT ![d] = "resolve"]
    BY <1>5 DEF Find
  <2>2. WorkersTyped /\ WorkersInv /\ Lasting /\ "resolve" \in Found \union {"resolve"}
    BY <1>1 DEF RequestsLast
  <2>3. WorkersTyped' /\ WorkersInv'
    BY <1>2, <1>3, <1>4, <2>1, <2>2, WorkerAdvances
  <2> QED
    BY <1>1, <2>3 DEF RequestsLast
<1>6. CASE Adopt(d)
  <2>1. /\ at[d] = "create" /\ at' = [at EXCEPT ![d] = "settle"]
        /\ hooks[payload[d]] # << >>
    BY <1>6 DEF Adopt, Conflicts
  <2>2. \A p \in Payloads : payload[d] = p => Known(p)'
    BY <1>1, <2>1, PayloadsLast DEF RequestsLast, WorkersInv, WorkerKnows, Found
  <2>3. WorkersTyped /\ WorkersInv /\ Lasting /\ "settle" \in Found \union {"resolve"}
    BY <1>1 DEF RequestsLast, Found
  <2>4. WorkersTyped' /\ WorkersInv'
    BY <1>2, <1>3, <1>4, <2>1, <2>2, <2>3, WorkerAdvances
  <2> QED
    BY <1>1, <2>4 DEF RequestsLast
<1> QED
  BY <1>5, <1>6

\* A new row, RECEIVED, of a withdrawal that was found.
LEMMA CreateRowInv ==
  ASSUME WithdrawalsInv, NEW d \in Workers, UNCHANGED withdrawVars, CreateRow(d)
  PROVE  WithdrawalsInv'
<1> USE DEF WithdrawalsInv
<1>1. RequestsLast
  BY NothingMoves
<1>2. /\ at[d] = "create" /\ at' = [at EXCEPT ![d] = "settle"]
      /\ UNCHANGED <<payload, acked, faults>>
  BY DEF CreateRow
<1>3. PICK p \in Payloads : payload[d] = p
  BY <1>2, WorkerFacts
<1>4. Heard(p) /\ Known(p)
  BY <1>2, <1>3 DEF WorkersInv, WorkerKnows, Found
<1> DEFINE longer == Append(hooks[p], "RECEIVED")
<1>5. /\ hooks' = [hooks EXCEPT ![p] = longer]
      /\ row' = [row EXCEPT ![d] = Len(hooks[p]) + 1]
  BY <1>3 DEF CreateRow
<1>6. /\ longer \in Seq(RowStatus) /\ Len(longer) = Len(hooks[p]) + 1 /\ Len(hooks[p]) \in Nat
      /\ \A i \in 1..Len(longer) : longer[i] = "PROCESSED" =>
           i \in 1..Len(hooks[p]) /\ hooks[p][i] = "PROCESSED"
  BY DEF WorkersTyped, RowStatus
<1> HIDE DEF longer
<1>7. WorkersTyped'
  BY <1>2, <1>5, <1>6 DEF WorkersTyped, WorkerSteps, Found
<1>8. /\ at'[d] = "settle" /\ payload'[d] = p /\ row'[d] = Len(hooks[p]) + 1
      /\ hooks'[p] = longer
      /\ \A c \in Workers \ {d} :
           at'[c] = at[c] /\ payload'[c] = payload[c] /\ row'[c] = row[c]
      /\ \A q \in Payloads \ {p} : hooks'[q] = hooks[q]
  BY <1>2, <1>3, <1>5 DEF WorkersTyped
<1>9. WorkerKnows(d)'
  <2>1. row'[d] # 0 /\ row'[d] \in 1..Len(hooks'[p])
    BY <1>6, <1>8
  <2> QED
    BY <1>1, <1>4, <1>8, <2>1, PayloadsLast, NoPayloadAssumption
    DEF RequestsLast, WorkerKnows, Found
<1>10. ASSUME NEW q \in Payloads
       PROVE  /\ Len(hooks'[q]) >= Len(hooks[q])
              /\ hooks'[q] # << >> => hooks[q] # << >> \/ (Heard(q)' /\ Known(q)')
              /\ \A i \in 1..Len(hooks'[q]) : hooks'[q][i] = "PROCESSED" =>
                   Settled(q)' \/ (i \in 1..Len(hooks[q]) /\ hooks[q][i] = "PROCESSED")
              /\ q \in acked' => q \in acked \/ Settled(q)'
  <2>1. CASE q = p
    BY <1>1, <1>2, <1>4, <1>6, <1>8, <2>1, PayloadsLast DEF RequestsLast
  <2>2. CASE q # p
    BY <1>2, <1>8, <2>2 DEF WorkersTyped
  <2> QED
    BY <2>1, <2>2
<1> QED
  BY <1>1, <1>7, <1>8, <1>9, <1>10, WorkerGoesOn DEF RequestsLast

\* resolveRelatedId: a 404, or a withdrawal of the gateway that sent the payload.
LEMMA ResolveInv ==
  ASSUME WithdrawalsInv, NEW d \in Workers, ResolveWithdraw(d)
  PROVE  WithdrawalsInv'
<1> USE DEF WithdrawalsInv
<1>1. at[d] = "resolve" /\ UNCHANGED withdrawVars /\ UNCHANGED <<hooks, acked, faults>>
  BY DEF ResolveWithdraw, Resolve, Goto
<1>2. RequestsLast
  BY <1>1, NothingMoves
<1>3. PICK p \in Payloads : payload[d] = p
  BY <1>1, WorkerFacts
<1>4. CASE Known(p)
  <2>1. PICK next \in {"create", "settle"} :
          at' = [at EXCEPT ![d] = next] /\ (next = "settle" => row[d] # 0)
    BY <1>3, <1>4 DEF ResolveWithdraw, Resolve, Goto
  <2>2. UNCHANGED <<payload, row>>
    BY <1>3, <1>4 DEF ResolveWithdraw, Resolve, Goto
  <2>3. row' = [row EXCEPT ![d] = row[d]] /\ row[d] \in Nat
    BY <2>2 DEF WorkersTyped
  <2>4. row[d] # 0 => row[d] \in 1..Len(hooks[payload[d]])
    BY <1>1, WorkerFacts
  <2>5. Known(p)' /\ faults' \in 0..MaxFaults
    BY <1>1, <1>2, <1>4, PayloadsLast DEF RequestsLast, WorkersTyped
  <2> QED
    BY <1>1, <1>2, <1>3, <2>1, <2>2, <2>3, <2>4, <2>5, WorkerAdvances DEF RequestsLast, Found
<1>5. CASE ~ Known(p)
  <2>1. Leave(d)
    BY <1>3, <1>5 DEF ResolveWithdraw, Resolve
  <2> QED
    BY <1>1, <1>2, <2>1, WorkerLeaves DEF RequestsLast, WorkersTyped
<1> QED
  BY <1>4, <1>5

\* What a worker that settles a payload knows of its withdrawal.
LEMMA SettlerFacts ==
  ASSUME WithdrawalsInv, NEW d \in Workers, at[d] \in {"settle", "move", "update"}
  PROVE  \E p \in Payloads :
           /\ payload[d] = p /\ Known(p) /\ Real /\ Heard(p)
           /\ p.type \in verdict[chosen[p.withdraw]][p.withdraw]
           /\ at[d] = "update" => Carried(p)
           /\ status[p.withdraw] \in {"APPROVED", "REJECTED"} => Settled(p)
           /\ row[d] \in Nat /\ row[d] # 0 /\ row[d] \in 1..Len(hooks[payload[d]])
<1> USE DEF WithdrawalsInv
<1>1. PICK p \in Payloads : payload[d] = p
  BY WorkerFacts
<1>2. Heard(p) /\ Known(p) /\ (at[d] = "update" => Carried(p))
  BY <1>1 DEF WorkersInv, WorkerKnows, Found
<1>3. p.withdraw \in Withdraw /\ p.gateway \in Gateways
  BY PayloadParts
<1>4. Real
  BY <1>2, <1>3, NobodyAssumption
  DEF Known, RequestsInv, RequestKnows, GatewayFollowsRequest, Real
<1>5. status[p.withdraw] \in {"APPROVED", "REJECTED"} => Settled(p)
  <2>1. status[p.withdraw] \in {"APPROVED", "REJECTED"} =>
          \E v \in Verdicts : status[p.withdraw] = StatusOf[v]
    BY DEF StatusOf, Verdicts
  <2> QED
    BY <1>3, <1>4, <2>1, EndingsAre DEF RequestsInv, RequestKnows, MovesAreDecided, Settled
<1>6. row[d] \in Nat /\ row[d] # 0 /\ row[d] \in 1..Len(hooks[payload[d]])
  BY WorkerFacts DEF Found
<1> QED
  BY <1>1, <1>2, <1>4, <1>5, <1>6 DEF Heard, Known

\* The steps of a settlement, and its failures.
LEMMA SettlesInv ==
  ASSUME WithdrawalsInv, NEW d \in Workers,
         \/ SettleRead(d) \/ SettleMove(d) \/ SettleRefused(d) \/ SettleUpdate(d)
         \/ Throw(d, Settling) /\ UNCHANGED withdrawVars
  PROVE  WithdrawalsInv' /\ Lasting
<1> USE DEF WithdrawalsInv
<1>1. /\ at[d] \in {"settle", "move", "update"}
      /\ UNCHANGED <<hooks, payload, row, acked>>
      /\ faults' \in 0..MaxFaults
  BY MaxFaultsAssumption
  DEF SettleRead, SettleMove, SettleRefused, SettleUpdate, Goto, Throw, Settling, WorkersTyped
<1>2. PICK p \in Payloads :
        /\ payload[d] = p /\ Known(p) /\ Real /\ Heard(p)
        /\ p.type \in verdict[chosen[p.withdraw]][p.withdraw]
        /\ at[d] = "update" => Carried(p)
        /\ status[p.withdraw] \in {"APPROVED", "REJECTED"} => Settled(p)
        /\ row[d] \in Nat /\ row[d] # 0 /\ row[d] \in 1..Len(hooks[payload[d]])
  BY <1>1, SettlerFacts
<1>3. p.withdraw \in Withdraw /\ p.type \in Verdicts /\ status[p.withdraw] # "none"
  BY <1>2, PayloadParts DEF Known
<1>4. row' = [row EXCEPT ![d] = row[d]]
  BY <1>1 DEF WorkersTyped
<1>5. ASSUME RequestsLast, NEW next \in {"move", "settled", "threw", "update"},
             at' = [at EXCEPT ![d] = next],
             next = "update" => Carried(p)',
             next = "settled" => Settled(p)'
      PROVE  WithdrawalsInv' /\ Lasting
  <2>1. WorkersTyped /\ WorkersInv /\ Lasting /\ at[d] # "idle"
    BY <1>1, <1>5 DEF RequestsLast
  <2>2. next \in Found \union {"resolve"} /\ next \notin {"resolve", "create"}
    BY DEF Found
  <2>3. Known(p)'
    BY <1>2, <2>1, PayloadsLast
  <2>4. \A q \in Payloads : payload[d] = q =>
          /\ Known(q)'
          /\ next = "update" => Carried(q)'
          /\ next = "settled" => Settled(q)'
    BY <1>2, <1>5, <2>3
  <2>5. WorkersTyped' /\ WorkersInv'
    BY <1>1, <1>2, <1>4, <1>5, <2>1, <2>2, <2>4, WorkerAdvances
  <2> QED
    BY <1>5, <2>5 DEF RequestsLast
<1>6. CASE SettleRead(d)
  <2>1. UNCHANGED withdrawVars /\ RequestsLast
    BY <1>6, NothingMoves DEF SettleRead
  <2>2. status[p.withdraw] # "PENDING" => Settled(p)'
    BY <1>2, <1>3, <2>1, PayloadsLast DEF RequestsLast, RequestsTyped
  <2>3. at' = [at EXCEPT ![d] = IF status[p.withdraw] = "PENDING" THEN "move" ELSE "settled"]
    BY <1>2, <1>6 DEF SettleRead, Goto
  <2> QED
    BY <1>5, <2>1, <2>2, <2>3
<1>7. CASE SettleMove(d)
  <2>1. RequestsLast
    BY <1>2, <1>3, <1>7, SettleMoveLasts DEF SettleMove
  <2>2. Carried(p)'
    <3>1. posted' = posted \union {<<<<SettlementKey(p.type), p.withdraw>>, "only">>}
      BY <1>2, <1>3, <1>7, PostOnceSpends
      DEF SettleMove, Settlement, PayOut, Return, SettlementKey
    <3> QED
      BY <1>3, <3>1, DoneIsSpent DEF Carried, Spent
  <2> QED
    BY <1>5, <1>7, <2>1, <2>2 DEF SettleMove, Goto
<1>8. CASE SettleRefused(d) \/ (Throw(d, Settling) /\ UNCHANGED withdrawVars)
  <2>1. UNCHANGED withdrawVars /\ at' = [at EXCEPT ![d] = "threw"]
    BY <1>8 DEF SettleRefused, Goto, Throw
  <2> QED
    BY <1>5, <2>1, NothingMoves
<1>9. CASE SettleUpdate(d)
  <2>1. /\ Moved(p.withdraw, p.type) /\ at' = [at EXCEPT ![d] = "settled"]
        /\ status' = [status EXCEPT ![p.withdraw] = StatusOf[p.type]]
        /\ UNCHANGED <<requestVars, verdict, balance, posted>>
    BY <1>2, <1>9 DEF SettleUpdate, Goto, Carried
  <2>2. RequestsLast
    BY <1>2, <1>3, <2>1, SettleUpdateLasts
  <2>3. Settled(p)'
    BY <2>1, <2>2, PayloadsLast, CarriedIsSettled DEF RequestsLast, Carried
  <2> QED
    BY <1>5, <2>1, <2>2, <2>3
<1> QED
  BY <1>6, <1>7, <1>8, <1>9

\* Webhooks, polls and the administrator's reprocessing bring payloads in.
LEMMA ArrivalsInv ==
  ASSUME WithdrawalsInv, NEW d \in Workers,
         \/ \E g \in Gateways, w \in Withdraw, v \in Verdicts : Notify(d, g, w, v)
         \/ \E w \in Withdraw, v \in Verdicts : Poll(d, w, v)
         \/ \E p \in Payloads : \E i \in Rows(p) :
              Reprocess(d, p, i) /\ UNCHANGED withdrawVars
  PROVE  WithdrawalsInv' /\ Lasting
<1> USE DEF WithdrawalsInv
<1>1. UNCHANGED withdrawVars
  BY DEF Notify, Poll
<1>2. RequestsLast
  BY <1>1, NothingMoves
<1>3. ASSUME NEW g \in Gateways, NEW w \in Withdraw, NEW v \in Verdicts,
             NEW from \in {"gateway", "poll"}, v \in verdict[g][w],
             Body(g, w, v, from) \in Payloads, Deliver(d, Body(g, w, v, from))
      PROVE  WithdrawalsInv'
  <2> DEFINE body == Body(g, w, v, from)
  <2>1. body \in Payloads /\ Heard(body)
    BY <1>3 DEF Body, Heard
  <2> HIDE DEF body
  <2>2. /\ at[d] = "idle" /\ at' = [at EXCEPT ![d] = "find"]
        /\ payload' = [payload EXCEPT ![d] = body]
        /\ UNCHANGED <<hooks, row, acked, faults>>
    BY <1>3 DEF Deliver, body
  <2>3. row' = [row EXCEPT ![d] = 0]
    BY <2>2 DEF WorkersTyped, WorkersInv, WorkerKnows
  <2>4. WorkersTyped /\ WorkersInv /\ Lasting /\ 0 \in Nat
    BY <1>2 DEF RequestsLast
  <2>5. WorkersTyped' /\ WorkersInv'
    BY <2>1, <2>2, <2>3, <2>4, WorkerStarts
  <2> QED
    BY <1>2, <2>5 DEF RequestsLast
<1>4. ASSUME NEW d1 \in Workers, NEW w \in Withdraw, NEW v \in Verdicts, d1 = d, Poll(d, w, v)
      PROVE  WithdrawalsInv'
  <2>1. chosen[w] \in Gateways
    BY <1>4 DEF Poll, RequestsInv, RequestKnows, GatewayFollowsRequest
  <2> QED
    BY <1>3, <1>4, <2>1 DEF Poll
<1>5. ASSUME NEW p \in Payloads, NEW i \in Rows(p), Reprocess(d, p, i)
      PROVE  WithdrawalsInv'
  <2>1. hooks[p] \in Seq(RowStatus)
    BY DEF WorkersTyped
  <2>2. i \in 1..Len(hooks[p]) /\ i \in Nat /\ i # 0
    BY <2>1 DEF Rows
  <2>3. hooks[p] # << >>
    BY <2>1, <2>2
  <2>4. Heard(p)
    BY <2>3 DEF WorkersInv, RowsTellTheTruth
  <2>5. WorkersTyped /\ WorkersInv /\ Lasting
    BY <1>2 DEF RequestsLast
  <2>6. /\ at[d] = "idle" /\ at' = [at EXCEPT ![d] = "settle"]
        /\ payload' = [payload EXCEPT ![d] = p] /\ row' = [row EXCEPT ![d] = i]
        /\ UNCHANGED <<hooks, acked, faults>>
    BY <1>5 DEF Reprocess
  <2>7. WorkersTyped' /\ WorkersInv'
    BY <2>2, <2>4, <2>5, <2>6, WorkerStarts
  <2> QED
    BY <1>2, <2>7 DEF RequestsLast
<1>6. WithdrawalsInv'
  BY <1>3, <1>4, <1>5 DEF Notify
<1> QED
  BY <1>2, <1>6 DEF RequestsLast

\* Requests, the lock, administrators and gateways leave the workers alone.
LEMMA RequestStepsInv ==
  ASSUME WithdrawalsInv,
         \/ LockExpires
         \/ \E w \in Withdraw :
              \/ TakeLock(w) \/ RequestStep(w) \/ RequestThrows(w)
              \/ RequestDies(w) \/ DecisionDies(w)
              \/ \E v \in Verdicts : Decide(w, v)
         \/ \E g \in Gateways, w \in Withdraw, v \in Verdicts : GatewayDecides(g, w, v)
  PROVE  WithdrawalsInv' /\ Lasting
<1> USE DEF WithdrawalsInv
<1>1. RequestsLast
  <2>1. CASE LockExpires
    BY <2>1, LockStepsLast
  <2>2. ASSUME NEW w \in Withdraw,
               \/ TakeLock(w) \/ RequestStep(w) \/ RequestThrows(w)
               \/ RequestDies(w) \/ DecisionDies(w)
               \/ \E v \in Verdicts : Decide(w, v)
        PROVE  RequestsLast
    BY <2>2, LockStepsLast, ReserveFundsLasts, GiveFundsBackLasts, GatewayAcceptsLasts,
       GatewayFailsLasts, PersistLasts, DecideLasts, MoveDecidedLasts
    DEF RequestStep
  <2>3. ASSUME NEW g \in Gateways, NEW w \in Withdraw, NEW v \in Verdicts,
               GatewayDecides(g, w, v)
        PROVE  RequestsLast
    BY <2>3, GatewayDecidesLasts
  <2> QED
    BY <2>1, <2>2, <2>3
<1>2. /\ UNCHANGED <<hooks, at, payload, row, acked>>
      /\ faults' = faults \/ (faults < MaxFaults /\ faults' = faults + 1)
  BY DEF LockExpires, TakeLock, RequestStep, ReserveFunds, GiveFundsBack, Persist, Release,
         DeleteKey, MoveDecided, GatewayAccepts, GatewayFails, RequestThrows, RequestDies,
         DecisionDies,
         Decide, GatewayDecides, hookVars
<1>3. faults' \in 0..MaxFaults
  <2>1. faults \in 0..MaxFaults
    BY DEF WorkersTyped
  <2> QED
    BY <1>2, <2>1, MaxFaultsAssumption
<1> QED
  BY <1>1, <1>2, <1>3, WorkersUntouched DEF RequestsLast

\* Every step of the service, of its gateways and of its faults.
LEMMA WithdrawalsStep == WithdrawalsInv /\ [Next]_vars => WithdrawalsInv' /\ Lasting
<1> SUFFICES ASSUME WithdrawalsInv, [Next]_vars PROVE WithdrawalsInv' /\ Lasting
  OBVIOUS
<1>1. ASSUME \/ LockExpires
             \/ \E w \in Withdraw :
                  \/ TakeLock(w) \/ RequestStep(w) \/ RequestThrows(w)
                  \/ RequestDies(w) \/ DecisionDies(w)
                  \/ \E v \in Verdicts : Decide(w, v)
             \/ \E g \in Gateways, w \in Withdraw, v \in Verdicts : GatewayDecides(g, w, v)
      PROVE  WithdrawalsInv' /\ Lasting
  BY <1>1, RequestStepsInv
<1>2. ASSUME NEW d \in Workers,
             \/ \E g \in Gateways, w \in Withdraw, v \in Verdicts : Notify(d, g, w, v)
             \/ \E w \in Withdraw, v \in Verdicts : Poll(d, w, v)
             \/ \E p \in Payloads : \E i \in Rows(p) :
                  Reprocess(d, p, i) /\ UNCHANGED withdrawVars
      PROVE  WithdrawalsInv' /\ Lasting
  BY <1>2, ArrivalsInv
<1>3. ASSUME NEW d \in Workers,
             Work(d) \/ ((Throw(d, Settling) \/ Die(d)) /\ UNCHANGED withdrawVars)
      PROVE  WithdrawalsInv' /\ Lasting
  <2>1. UNCHANGED withdrawVars => Lasting
    BY NothingMoves DEF WithdrawalsInv, RequestsLast
  <2>2. CASE Dispatch(d) /\ UNCHANGED withdrawVars
    BY <2>1, <2>2, AnswersInv, FindsInv, CreateRowInv DEF Dispatch
  <2>3. CASE ResolveWithdraw(d)
    BY <2>1, <2>3, ResolveInv DEF ResolveWithdraw
  <2>4. CASE \/ SettleRead(d) \/ SettleMove(d) \/ SettleRefused(d) \/ SettleUpdate(d)
             \/ Throw(d, Settling) /\ UNCHANGED withdrawVars
    BY <2>4, SettlesInv
  <2>5. CASE Die(d) /\ UNCHANGED withdrawVars
    BY <2>1, <2>5, AnswersInv
  <2> QED
    BY <1>3, <2>2, <2>3, <2>4, <2>5 DEF Work
<1>4. CASE UNCHANGED vars
  <2>1. UNCHANGED withdrawVars /\ UNCHANGED <<hooks, at, payload, row, acked, faults>>
    BY <1>4 DEF vars, hookVars
  <2> QED
    BY <2>1, NothingMoves, WorkersUntouched DEF WithdrawalsInv, RequestsLast, WorkersTyped
<1> QED
  BY <1>1, <1>2, <1>3, <1>4 DEF Next

\* Before any request, nothing is reserved, accepted or answered.
LEMMA InitWithdrawalsInv == Init => WithdrawalsInv
<1> SUFFICES ASSUME Init PROVE WithdrawalsInv
  OBVIOUS
<1> USE DEF Init, WebhooksInit, Book!Init
<1>1. RequestsTyped
  BY HistoriesAssumption DEF RequestsTyped
<1>2. RequestsInv
  <2> SUFFICES ASSUME NEW w \in Withdraw PROVE RequestKnows(w)
    BY DEF RequestsInv
  <2>1. \A key \in Keys : ~ Spent(key, w)
    BY DEF Spent
  <2>2. ~ Reserved(w) /\ ~ GivenBack(w) /\ Endings(w) = {} /\ \A v \in Verdicts : ~ Moved(w, v)
    BY <2>1, DoneIsSpent, EndingsAre DEF Keys, SettlementKey, Verdicts
  <2>3. step[w] = "new" /\ status[w] = "none" /\ deciding[w] = "none" /\ chosen[w] = Nobody
        /\ waited[w] = 0 /\ tried[w] = {} /\ \A g \in Gateways : w \notin holds[g]
    OBVIOUS
  <2>4. waited[w] <= Cardinality(tried[w]) /\ waited[w] <= Cardinality(Gateways)
    BY <2>3, FS_EmptySet, GatewaysAssumption, FS_CardinalityType
  <2> QED
    BY <2>2, <2>3, <2>4
    DEF RequestKnows, MoneyFollowsRequest, GatewayFollowsRequest, DecisionsAreShown,
        MovesAreDecided, Real, StatusOf, Verdicts
<1>3. WorkersTyped
  BY MaxFaultsAssumption DEF WorkersTyped, WorkerSteps
<1>4. WorkersInv
  BY NoPayloadAssumption
  DEF WorkersInv, WorkerKnows, RowsTellTheTruth, AckedMeansSettled, Found
<1> QED
  BY <1>1, <1>2, <1>3, <1>4 DEF WithdrawalsInv
-----------------------------------------------------------------------------
\* The wallet with other amounts in its two buckets.
Holding(main, locked) ==
  [u \in {Player} |-> [b \in {"main", "locked", "bonus"} |->
     IF b = "main" THEN main ELSE IF b = "locked" THEN locked ELSE balance[Player].bonus]]

\* What the movements of a withdrawal do to the wallet, and when one is refused.
LEMMA PostMoves ==
  ASSUME NEW w \in Withdraw, Balanced
  PROVE  LET main == balance[Player].main
             locked == balance[Player].locked
         IN  /\ Book!Post(Reserve(w)) =>
                  /\ main >= Amount[w]
                  /\ balance' = Holding(main - Amount[w], locked + Amount[w])
             /\ \A q \in {GiveBack(w), Return(w)} : Book!Post(q) =>
                  balance' = Holding(main + Amount[w], locked - Amount[w])
             /\ Book!Post(PayOut(w)) => balance' = Holding(main, locked - Amount[w])
             /\ \A v \in Verdicts : Book!Refused(Settlement(w, v)) => locked < Amount[w]
<1>1. Amount[w] \in Nat /\ Funds \in Nat
  BY AmountsAssumption
<1>2. /\ balance[Player].main \in Nat /\ balance[Player].locked \in Nat
      /\ balance[Player].bonus = 0
      /\ balance[Player].main + balance[Player].locked <= Funds
  BY DEF Balanced
<1> USE DEF Movement, Book!Affordable, Book!Pays, Book!Applied, Book!Gets,
            Book!Buckets, Users, Holding
<1>3. Book!Post(Reserve(w)) =>
        /\ balance[Player].main >= Amount[w]
        /\ balance' = Holding(balance[Player].main - Amount[w],
                              balance[Player].locked + Amount[w])
  BY <1>1, <1>2 DEF Reserve, Book!Post
<1>4. ASSUME NEW key, Book!Post(Movement("unlock", "main", w, key))
      PROVE  balance' = Holding(balance[Player].main + Amount[w],
                                balance[Player].locked - Amount[w])
  BY <1>1, <1>2, <1>4 DEF Book!Post
<1>5. \A q \in {GiveBack(w), Return(w)} : Book!Post(q) =>
        balance' = Holding(balance[Player].main + Amount[w],
                           balance[Player].locked - Amount[w])
  BY <1>4 DEF GiveBack, Return
<1>6. Book!Post(PayOut(w)) =>
        balance' = Holding(balance[Player].main, balance[Player].locked - Amount[w])
  BY <1>1, <1>2 DEF PayOut, Book!Post
<1>7. ASSUME NEW q \in {PayOut(w), Return(w)}, Book!Refused(q),
             balance[Player].locked >= Amount[w]
      PROVE  FALSE
  <2>1. CASE q = PayOut(w)
    <3>1. Book!Affordable(q, balance)
      BY <1>1, <1>2, <1>7, <2>1 DEF PayOut
    <3>2. Book!Fits(Book!Applied(q, balance))
      BY <1>1, <1>2, <1>7, <2>1 DEF PayOut, Book!Fits, MaxInt
    <3> QED
      BY <1>7, <3>1, <3>2 DEF Book!Refused
  <2>2. CASE q = Return(w)
    <3>1. Book!Affordable(q, balance)
      BY <1>1, <1>2, <1>7, <2>2 DEF Return
    <3>2. Book!Fits(Book!Applied(q, balance))
      BY <1>1, <1>2, <1>7, <2>2 DEF Return, Book!Fits, MaxInt
    <3> QED
      BY <1>7, <3>1, <3>2 DEF Book!Refused
  <2> QED
    BY <2>1, <2>2
<1>8. \A v \in Verdicts : Book!Refused(Settlement(w, v)) => balance[Player].locked < Amount[w]
  BY <1>1, <1>2, <1>7 DEF Settlement
<1> QED
  BY <1>3, <1>5, <1>6, <1>8

\* A reservation is added to the open ones, and to the locked bucket.
LEMMA ReserveBalances ==
  ASSUME Balanced, NEW w \in Withdraw, ~ Reserved(w), Endings(w) = {},
         Book!PostOnce(Reserve(w))
  PROVE  Balanced'
<1>1. Book!Post(Reserve(w))
  BY DEF Book!PostOnce, Reserved
<1>2. posted' = posted \union {<<<<"lock", w>>, "only">>}
  BY PostOnceSpends DEF Reserve
<1>3. Open' = Open \union {w} /\ w \notin Open
  <2>1. \A x \in Withdraw \ {w} : SameKeys(x)
    BY <1>2 DEF SameKeys, Spent
  <2>2. Reserved(w)'
    BY <1>2, DoneIsSpent DEF Spent
  <2>3. Endings(w)' = {}
    <3>1. \A key \in Keys \ {"lock"} : Spent(key, w)' <=> Spent(key, w)
      BY <1>2 DEF Keys, Spent
    <3> QED
      BY <3>1, DoneIsSpent, EndingsAre DEF Keys, SettlementKey, Verdicts
  <2> QED
    BY <2>1, <2>2, <2>3, SameMoney DEF Open
<1>4. Amount[w] \in Nat
  BY AmountsAssumption
<1>5. BothWays' = BothWays
  <2>1. \A x \in Withdraw, key \in Keys \ {"lock"} : Spent(key, x)' <=> Spent(key, x)
    BY <1>2 DEF Keys, Spent
  <2>2. \A x \in Withdraw, v \in Verdicts : Moved(x, v)' <=> Moved(x, v)
    BY <2>1, DoneIsSpent DEF Keys, SettlementKey, Verdicts
  <2> QED
    BY <2>2, BothWaysAre DEF BothWays
<1>6. /\ Summable(Open', Amount)
      /\ Total(Open', Amount) = Total(Open, Amount) + Amount[w]
  BY <1>3, <1>4, TotalGrows DEF Balanced
<1>7. /\ balance[Player].main >= Amount[w]
      /\ balance' = Holding(balance[Player].main - Amount[w],
                            balance[Player].locked + Amount[w])
  BY <1>1, PostMoves
<1> QED
  <2>1. /\ balance[Player].main \in Nat /\ balance[Player].locked \in Nat
        /\ balance[Player].bonus = 0
        /\ balance[Player].main + balance[Player].locked <= Funds
        /\ balance[Player].locked + Total(BothWays, Amount) = Total(Open, Amount)
        /\ Summable(BothWays, Amount)
    BY DEF Balanced
  <2>2. Total(BothWays, Amount) \in Nat
    BY <2>1, TotalIsNat
  <2>3. Total(BothWays', Amount) = Total(BothWays, Amount) /\ Summable(BothWays', Amount)
    BY <1>5, <2>1
  <2>4. balance' \in [{Player} -> [{"main", "locked", "bonus"} -> Nat]]
    BY <1>4, <1>7, <2>1 DEF Holding
  <2>5. /\ balance'[Player].main = balance[Player].main - Amount[w]
        /\ balance'[Player].locked = balance[Player].locked + Amount[w]
        /\ balance'[Player].bonus = 0
    BY <1>7, <2>1 DEF Holding
  <2>6. Total(Open, Amount) \in Nat /\ Funds \in Nat
    BY TotalIsNat, AmountsAssumption DEF Balanced
  <2> QED
    BY <1>4, <1>6, <2>1, <2>2, <2>3, <2>4, <2>5, <2>6 DEF Balanced

\* Whatever is taken from the locked bucket is in it, and goes to the player or
\* out of the wallet.
LEMMA DrawsBalance ==
  ASSUME Balanced, NEW w \in Withdraw, NEW q \in {GiveBack(w), PayOut(w), Return(w)},
         Book!Post(q),
         Summable(Open', Amount), Summable(BothWays', Amount),
         Total(Open', Amount) + Amount[w] + Total(BothWays, Amount)
           = Total(Open, Amount) + Total(BothWays', Amount)
  PROVE  Balanced'
<1> DEFINE main == balance[Player].main
           locked == balance[Player].locked
<1>1. /\ main \in Nat /\ locked \in Nat /\ balance[Player].bonus = 0
      /\ main + locked <= Funds /\ Amount[w] \in Nat /\ Funds \in Nat
      /\ locked + Total(BothWays, Amount) = Total(Open, Amount)
      /\ Summable(Open, Amount) /\ Summable(BothWays, Amount)
  BY AmountsAssumption DEF Balanced
<1>2. /\ Total(Open, Amount) \in Nat /\ Total(BothWays, Amount) \in Nat
      /\ Total(Open', Amount) \in Nat /\ Total(BothWays', Amount) \in Nat
  BY <1>1, TotalIsNat
<1>3. locked >= Amount[w] /\ q.amount = Amount[w]
  <2>1. q = Movement("unlock", "main", w, "unlock-provider-failure")
          \/ q = Movement("debit", "locked", w, "approve")
          \/ q = Movement("unlock", "main", w, "unlock-reject")
    BY DEF GiveBack, PayOut, Return
  <2>2. Book!Affordable(q, balance)
    BY DEF Book!Post
  <2> QED
    BY <1>1, <2>1, <2>2 DEF Movement, Book!Affordable, Book!Pays, Book!Buckets, Users
<1>4. PICK m \in {main, main + Amount[w]} : balance' = Holding(m, locked - Amount[w])
  BY PostMoves
<1> HIDE DEF main, locked
<1>5. m \in Nat /\ locked - Amount[w] \in Nat /\ m + (locked - Amount[w]) <= Funds
  BY <1>1, <1>3, <1>4
<1>6. /\ balance' \in [{Player} -> [{"main", "locked", "bonus"} -> Nat]]
      /\ balance'[Player].main = m /\ balance'[Player].locked = locked - Amount[w]
      /\ balance'[Player].bonus = 0
  BY <1>1, <1>4, <1>5 DEF Holding
<1> QED
  BY <1>1, <1>2, <1>3, <1>5, <1>6 DEF Balanced

\* A first ending takes its reservation from the open ones; a settlement of one
\* that was settled the other way draws on another's.
LEMMA EndingBalances ==
  ASSUME Balanced, NEW w \in Withdraw, Reserved(w),
         NEW q \in {GiveBack(w), PayOut(w), Return(w)}, Book!PostOnce(q),
         Endings(w) = {} \/ (~ GivenBack(w) /\ \E v \in Verdicts : q = Settlement(w, v))
  PROVE  Balanced'
<1>1. CASE Book!Done(q)
  <2>1. UNCHANGED <<balance, posted>>
    BY <1>1 DEF Book!PostOnce, Book!bookVars
  <2>2. \A x \in Withdraw : SameKeys(x)
    BY <2>1 DEF SameKeys, Spent
  <2>3. Open' = Open /\ BothWays' = BothWays
    BY <2>2, SameMoney, BothWaysAre DEF Open, BothWays
  <2> QED
    BY <2>1, <2>3 DEF Balanced, Summable, Total, CentsOf
<1>2. CASE ~ Book!Done(q)
  <2>1. Book!Post(q)
    BY <1>2 DEF Book!PostOnce
  <2>2. PICK key \in Keys \ {"lock"} :
          /\ posted' = posted \union {<<<<key, w>>, "only">>}
          /\ q = GiveBack(w) => key = "unlock-provider-failure"
          /\ \A v \in Verdicts : q = Settlement(w, v) => key = SettlementKey(v)
    <3>1. CASE q = GiveBack(w)
      <4>1. posted' = posted \union {<<<<"unlock-provider-failure", w>>, "only">>}
        BY <3>1, PostOnceSpends DEF GiveBack
      <4>2. \A v \in Verdicts : q # Settlement(w, v)
        BY <3>1 DEF GiveBack, Settlement, PayOut, Return, Movement
      <4> QED
        BY <4>1, <4>2 DEF Keys
    <3>2. ASSUME NEW v \in Verdicts, q = Settlement(w, v)
          PROVE  /\ posted' = posted \union {<<<<SettlementKey(v), w>>, "only">>}
                 /\ q # GiveBack(w)
                 /\ \A u \in Verdicts : q = Settlement(w, u) => u = v
      <4>1. posted' = posted \union {<<<<SettlementKey(v), w>>, "only">>}
        BY <3>2, PostOnceSpends DEF Settlement, PayOut, Return, SettlementKey
      <4>2. q # GiveBack(w) /\ \A u \in Verdicts : q = Settlement(w, u) => u = v
        BY <3>2 DEF GiveBack, Settlement, PayOut, Return, Movement, Verdicts
      <4> QED
        BY <4>1, <4>2
    <3>3. q = GiveBack(w) \/ \E v \in Verdicts : q = Settlement(w, v)
      BY DEF Settlement, Verdicts
    <3> QED
      BY <3>1, <3>2, <3>3 DEF SettlementKey, Keys, Verdicts
  <2>3. \A x \in Withdraw \ {w} : SameKeys(x)
    BY <2>2 DEF SameKeys, Spent
  <2>4. \A k \in Keys : Spent(k, w)' <=> Spent(k, w) \/ k = key
    BY <2>2 DEF Spent
  <2>5. /\ Reserved(w)' /\ Endings(w)' # {}
        /\ \A v \in Verdicts : Moved(w, v)' <=> Moved(w, v) \/ key = SettlementKey(v)
    BY <2>2, <2>4, DoneIsSpent, EndingsAre DEF Keys, SettlementKey, Verdicts
  <2>6. Amount[w] \in Nat
    BY AmountsAssumption
  <2>7. CASE Endings(w) = {}
    <3>1. w \in Open
      BY <2>7 DEF Open
    <3>2. Open' = Open \ {w}
      BY <2>3, <2>5, SameMoney DEF Open
    <3>3. BothWays' = BothWays
      <4>1. \A v \in Verdicts : ~ Moved(w, v)
        BY <2>7, EndingsAre
      <4>2. w \notin BothWays /\ w \notin BothWays'
        BY <2>5, <4>1, BothWaysAre DEF SettlementKey, Verdicts
      <4>3. \A x \in Withdraw \ {w} : x \in BothWays' <=> x \in BothWays
        BY <2>3, SameMoney, BothWaysAre
      <4> QED
        BY <4>2, <4>3 DEF BothWays
    <3>4. /\ Summable(Open', Amount) /\ Summable(BothWays', Amount)
          /\ Total(Open', Amount) = Total(Open, Amount) - Amount[w]
          /\ Total(BothWays', Amount) = Total(BothWays, Amount)
          /\ Total(Open, Amount) \in Nat /\ Total(BothWays, Amount) \in Nat
      BY <3>1, <3>2, <3>3, TotalShrinks, TotalIsNat DEF Balanced
    <3> QED
      BY <2>1, <2>6, <3>4, DrawsBalance
  <2>8. CASE Endings(w) # {}
    <3>1. PICK v \in Verdicts : q = Settlement(w, v)
      BY <2>8
    <3>2. ~ GivenBack(w) /\ ~ Moved(w, v)
      BY <1>2, <2>8, <3>1 DEF Moved
    <3>3. \A u \in Verdicts : u # v => Moved(w, u)
      BY <2>8, <3>2, EndingsAre DEF Verdicts
    <3>4. w \notin Open /\ w \notin BothWays /\ w \in BothWays'
      BY <2>2, <2>5, <2>8, <3>1, <3>2, <3>3, BothWaysAre DEF Open
    <3>5. Open' = Open
      BY <2>3, <2>5, <3>4, SameMoney DEF Open
    <3>6. BothWays' = BothWays \union {w}
      <4>1. \A x \in Withdraw \ {w} : x \in BothWays' <=> x \in BothWays
        BY <2>3, SameMoney, BothWaysAre
      <4> QED
        BY <3>4, <4>1 DEF BothWays
    <3>7. /\ Summable(Open', Amount) /\ Summable(BothWays', Amount)
          /\ Total(Open', Amount) = Total(Open, Amount)
          /\ Total(BothWays', Amount) = Total(BothWays, Amount) + Amount[w]
          /\ Total(Open, Amount) \in Nat /\ Total(BothWays, Amount) \in Nat
      BY <2>6, <3>4, <3>5, <3>6, TotalGrows, TotalIsNat DEF Balanced
    <3> QED
      BY <2>1, <2>6, <3>7, DrawsBalance
  <2> QED
    BY <2>7, <2>8
<1> QED
  BY <1>1, <1>2

\* An amount that was given back is not settled; a demo account's is settled
\* once, and another's twice only if its gateway gave both verdicts.
LEMMA SettledOnce ==
  ASSUME WithdrawalsInv, NEW w \in Withdraw
  PROVE  /\ \A u \in Verdicts : Moved(w, u) => status[w] # "none" /\ ~ GivenBack(w)
         /\ w \in BothWays => Real /\ verdict[chosen[w]][w] = Verdicts
<1> USE DEF WithdrawalsInv, RequestsInv, RequestKnows
<1>1. \A v \in Verdicts : Moved(w, v) =>
        /\ status[w] # "none" /\ ~ GivenBack(w)
        /\ demo => status[w] = StatusOf[v]
        /\ Real => chosen[w] \in Gateways /\ v \in verdict[chosen[w]][w]
  BY DEF MovesAreDecided, MoneyFollowsRequest, GatewayFollowsRequest
<1>2. w \in BothWays => \A v \in Verdicts : Moved(w, v)
  BY BothWaysAre
<1>3. w \in BothWays => Real
  BY <1>1, <1>2 DEF Real, StatusOf, Verdicts
<1>4. w \in BothWays => verdict[chosen[w]][w] = Verdicts
  <2>1. w \in BothWays => chosen[w] \in Gateways /\ Verdicts \subseteq verdict[chosen[w]][w]
    BY <1>1, <1>2, <1>3 DEF Verdicts
  <2>2. \A g \in Gateways : verdict[g][w] \in Histories
    BY DEF RequestsTyped
  <2> QED
    BY <2>1, <2>2, HistoriesAssumption
<1> QED
  BY <1>1, <1>3, <1>4

\* A settlement that is posted, or was.
LEMMA SettlementBalances ==
  ASSUME WithdrawalsInv, Balanced, NEW w \in Withdraw, NEW v \in Verdicts,
         status[w] # "none", Book!PostOnce(Settlement(w, v))
  PROVE  Balanced' /\ Moved(w, v)'
<1>1. posted' = posted \union {<<<<SettlementKey(v), w>>, "only">>}
  BY PostOnceSpends DEF Settlement, PayOut, Return, SettlementKey
<1>2. Moved(w, v)'
  BY <1>1, DoneIsSpent DEF Spent
<1>3. Reserved(w) /\ ~ GivenBack(w)
  BY DEF WithdrawalsInv, RequestsInv, RequestKnows, MoneyFollowsRequest
<1>4. Settlement(w, v) \in {GiveBack(w), PayOut(w), Return(w)}
  BY DEF Settlement
<1> QED
  BY <1>2, <1>3, <1>4, EndingBalances

\* A step that posts nothing leaves the balance as it is.
LEMMA BookUntouched ==
  ASSUME Balanced, UNCHANGED <<balance, posted>>
  PROVE  /\ Balanced'
         /\ \A w \in Withdraw, v \in Verdicts : Moved(w, v)' <=> Moved(w, v)
<1>1. \A w \in Withdraw : SameKeys(w)
  BY DEF SameKeys, Spent
<1>2. Open' = Open /\ BothWays' = BothWays
  BY <1>1, SameMoney, BothWaysAre DEF Open, BothWays
<1> QED
  BY <1>1, <1>2, SameMoney DEF Balanced, Summable, Total, CentsOf

\* What is decided stays carried out while no other decision is.
LEMMA StaysCarried ==
  ASSUME DecisionsAreCarried, posted \subseteq posted',
         \A w \in Withdraw, v \in Verdicts :
           deciding'[w] = "done" /\ status'[w] = StatusOf[v] =>
             Moved(w, v)' \/ (deciding[w] = "done" /\ status[w] = StatusOf[v])
  PROVE  DecisionsAreCarried'
<1>1. \A w \in Withdraw, v \in Verdicts : Moved(w, v) => Moved(w, v)'
  BY DoneIsSpent DEF Spent
<1> QED
  BY <1>1 DEF DecisionsAreCarried

\* The money of a request: reserved, and given back.
LEMMA RequestBalances ==
  ASSUME WithdrawalsInv, Balanced, DecisionsAreCarried, Lasting, NEW w \in Withdraw,
         ReserveFunds(w) \/ GiveFundsBack(w)
  PROVE  Balanced' /\ DecisionsAreCarried'
<1>1. UNCHANGED <<status, deciding>>
  BY DEF ReserveFunds, GiveFundsBack, Advance
<1>2. DecisionsAreCarried'
  BY <1>1, StaysCarried DEF Lasting
<1>3. CASE ReserveFunds(w)
  <2>1. ~ Reserved(w) /\ Endings(w) = {}
    BY <1>3 DEF ReserveFunds, WithdrawalsInv, RequestsInv, RequestKnows, MoneyFollowsRequest
  <2>2. Book!PostOnce(Reserve(w)) \/ UNCHANGED <<balance, posted>>
    BY <1>3 DEF ReserveFunds
  <2> QED
    BY <1>2, <2>1, <2>2, ReserveBalances, BookUntouched
<1>4. CASE GiveFundsBack(w)
  <2>1. Reserved(w) /\ Endings(w) = {}
    BY <1>4 DEF GiveFundsBack, WithdrawalsInv, RequestsInv, RequestKnows, MoneyFollowsRequest
  <2>2. Book!PostOnce(GiveBack(w)) \/ UNCHANGED <<balance, posted>>
    BY <1>4 DEF GiveFundsBack
  <2> QED
    BY <1>2, <2>1, <2>2, EndingBalances, BookUntouched
<1> QED
  BY <1>3, <1>4

\* The movement of a decision: the locked bucket holds what it takes.
LEMMA DecisionBalances ==
  ASSUME WithdrawalsInv, Balanced, DecisionsAreCarried, Lasting, NEW w \in Withdraw,
         MoveDecided(w)
  PROVE  Balanced' /\ DecisionsAreCarried'
<1> USE DEF WithdrawalsInv
<1>1. PICK v \in Verdicts : deciding[w] = v
  BY DEF MoveDecided
<1>2. demo /\ status[w] = StatusOf[v]
  BY <1>1 DEF RequestsTyped, RequestsInv, RequestKnows, DecisionsAreShown, Real, Verdicts
<1>3. status[w] # "none"
  BY <1>2 DEF StatusOf, Verdicts
<1>4. \A u \in Verdicts : ~ Moved(w, u)
  BY <1>1, <1>2 DEF RequestsInv, RequestKnows, MovesAreDecided, Verdicts
<1>5. Reserved(w) /\ ~ GivenBack(w)
  BY <1>3 DEF RequestsInv, RequestKnows, MoneyFollowsRequest
<1>6. w \in Open
  BY <1>4, <1>5, EndingsAre DEF Open
<1>7. balance[Player].locked >= Amount[w]
  <2>1. BothWays = {}
    BY <1>2, SettledOnce DEF BothWays, Real
  <2>2. Total(BothWays, Amount) = 0
    BY <2>1, TotalOfNone
  <2>3. /\ Summable(Open, Amount) /\ balance[Player].locked \in Nat
        /\ balance[Player].locked + Total(BothWays, Amount) = Total(Open, Amount)
    BY DEF Balanced
  <2>4. Total(Open, Amount) >= Amount[w]
    BY <1>6, <2>3, TotalShrinks
  <2> QED
    BY <2>2, <2>3, <2>4
<1>8. Book!PostOnce(Settlement(w, v))
  <2>1. Amount[w] \in Nat /\ balance[Player].locked \in Nat
    BY AmountsAssumption DEF Balanced
  <2>2. ~ Book!Refused(Settlement(w, v))
    BY <1>7, <2>1, PostMoves
  <2> QED
    BY <1>1, <2>2 DEF MoveDecided
<1>9. Balanced' /\ Moved(w, v)'
  BY <1>3, <1>8, SettlementBalances
<1>10. \A x \in Withdraw, u \in Verdicts :
         deciding'[x] = "done" /\ status'[x] = StatusOf[u] =>
           Moved(x, u)' \/ (deciding[x] = "done" /\ status[x] = StatusOf[u])
  <2>1. status' = status /\ \A x \in Withdraw \ {w} : deciding'[x] = deciding[x]
    BY DEF MoveDecided, RequestsTyped
  <2>2. \A u \in Verdicts : status[w] = StatusOf[u] => u = v
    BY <1>2 DEF StatusOf, Verdicts
  <2> QED
    BY <1>9, <2>1, <2>2
<1> QED
  BY <1>9, <1>10, StaysCarried DEF Lasting

\* The movement of a settlement.
LEMMA MoveBalances ==
  ASSUME WithdrawalsInv, Balanced, DecisionsAreCarried, Lasting,
         NEW d \in Workers, SettleMove(d)
  PROVE  Balanced' /\ DecisionsAreCarried'
<1>1. PICK p \in Payloads :
        /\ payload[d] = p /\ Known(p) /\ Real
        /\ p.type \in verdict[chosen[p.withdraw]][p.withdraw]
  BY SettlerFacts DEF SettleMove
<1> DEFINE w == p.withdraw
           v == p.type
<1>2. w \in Withdraw /\ v \in Verdicts /\ status[w] # "none" /\ chosen[w] \in Gateways
  BY <1>1, PayloadParts DEF Known
<1>4. Book!PostOnce(Settlement(w, v)) /\ UNCHANGED <<status, deciding>>
  BY <1>1 DEF SettleMove, requestVars
<1> HIDE DEF w, v
<1>5. Balanced'
  BY <1>2, <1>4, SettlementBalances
<1> QED
  BY <1>4, <1>5, StaysCarried DEF Lasting

\* No other step touches the wallet; the statuses follow the decisions.
LEMMA OthersBalance ==
  ASSUME WithdrawalsInv, Balanced, DecisionsAreCarried, Lasting,
         UNCHANGED <<balance, posted>>,
         \/ UNCHANGED <<status, deciding>>
         \/ \E w \in Withdraw : Persist(w) \/ DecisionDies(w) \/ \E v \in Verdicts : Decide(w, v)
         \/ \E d \in Workers : SettleUpdate(d)
  PROVE  Balanced' /\ DecisionsAreCarried'
<1>1. Balanced'
  BY BookUntouched
<1>2. CASE UNCHANGED <<status, deciding>>
  BY <1>1, <1>2, StaysCarried DEF Lasting
<1>3. ASSUME NEW w \in Withdraw,
             Persist(w) \/ DecisionDies(w) \/ \E v \in Verdicts : Decide(w, v)
      PROVE  DecisionsAreCarried'
  <2>1. \A x \in Withdraw \ {w} : status'[x] = status[x] /\ deciding'[x] = deciding[x]
    BY <1>3 DEF Persist, Advance, DecisionDies, Decide, WithdrawalsInv, RequestsTyped
  <2>2. deciding'[w] # "done" \/ status'[w] = "PENDING"
    BY <1>3
    DEF Persist, Advance, DecisionDies, Decide, WithdrawalsInv, RequestsTyped, Verdicts
  <2>3. \A v \in Verdicts : StatusOf[v] # "PENDING"
    BY DEF StatusOf, Verdicts
  <2> QED
    BY <2>1, <2>2, <2>3, StaysCarried DEF Lasting
<1>4. ASSUME NEW d \in Workers, SettleUpdate(d)
      PROVE  DecisionsAreCarried'
  <2>1. Real
    BY <1>4, SettlerFacts DEF SettleUpdate
  <2>2. \A w \in Withdraw : deciding'[w] = "none"
    BY <1>4, <2>1
    DEF SettleUpdate, requestVars, WithdrawalsInv, RequestsInv, RequestKnows, DecisionsAreShown
  <2> QED
    BY <2>2, StaysCarried DEF Lasting
<1> QED
  BY <1>1, <1>2, <1>3, <1>4

\* No step loses a cent, or leaves a decision that was made half done.
LEMMA BalancesStep ==
  ASSUME WithdrawalsInv, Lasting, Balanced, DecisionsAreCarried, [Next]_vars
  PROVE  Balanced' /\ DecisionsAreCarried'
<1> USE DEF requestVars, withdrawVars
<1>1. ASSUME UNCHANGED <<balance, posted, status, deciding>>
      PROVE  Balanced' /\ DecisionsAreCarried'
  BY <1>1, OthersBalance
<1>2. ASSUME NEW w \in Withdraw,
             \/ TakeLock(w) \/ RequestStep(w) \/ RequestThrows(w)
             \/ RequestDies(w) \/ DecisionDies(w)
             \/ \E v \in Verdicts : Decide(w, v)
      PROVE  Balanced' /\ DecisionsAreCarried'
  <2>1. CASE ReserveFunds(w) \/ GiveFundsBack(w)
    BY <2>1, RequestBalances
  <2>2. CASE MoveDecided(w)
    BY <2>2, DecisionBalances
  <2>3. CASE Persist(w) \/ DecisionDies(w) \/ \E v \in Verdicts : Decide(w, v)
    <3>1. UNCHANGED <<balance, posted>>
      BY <2>3 DEF Persist, DecisionDies, Decide
    <3> QED
      BY <2>3, <3>1, OthersBalance
  <2>4. CASE \/ TakeLock(w) \/ Release(w) \/ DeleteKey(w)
             \/ RequestThrows(w) \/ RequestDies(w)
             \/ \E g \in Gateways : GatewayAccepts(w, g)
             \/ \E g \in Gateways, t \in {0, 1}, heard \in BOOLEAN : GatewayFails(w, g, t, heard)
    BY <1>1, <2>4
    DEF TakeLock, Release, DeleteKey, RequestThrows, RequestDies, GatewayAccepts, GatewayFails,
        Advance
  <2> QED
    BY <1>2, <2>1, <2>2, <2>3, <2>4 DEF RequestStep
<1>3. CASE \/ LockExpires
           \/ \E g \in Gateways, w \in Withdraw, v \in Verdicts : GatewayDecides(g, w, v)
           \/ \E d \in Workers, g \in Gateways, w \in Withdraw, v \in Verdicts :
                Notify(d, g, w, v)
           \/ \E d \in Workers, w \in Withdraw, v \in Verdicts : Poll(d, w, v)
           \/ \E d \in Workers, p \in Payloads : \E i \in Rows(p) :
                Reprocess(d, p, i) /\ UNCHANGED withdrawVars
           \/ UNCHANGED vars
  BY <1>1, <1>3 DEF LockExpires, GatewayDecides, Notify, Poll, vars
<1>4. ASSUME NEW d \in Workers,
             Work(d) \/ ((Throw(d, Settling) \/ Die(d)) /\ UNCHANGED withdrawVars)
      PROVE  Balanced' /\ DecisionsAreCarried'
  <2>1. CASE SettleMove(d)
    BY <2>1, MoveBalances
  <2>2. CASE SettleUpdate(d)
    BY <2>2, OthersBalance DEF SettleUpdate
  <2>3. CASE UNCHANGED withdrawVars
    BY <1>1, <2>3
  <2> QED
    BY <1>4, <2>1, <2>2, <2>3 DEF Work, ResolveWithdraw, SettleRead, SettleRefused
<1> QED
  BY <1>2, <1>3, <1>4 DEF Next
-----------------------------------------------------------------------------
\* The count of requests without the lock is kept by a step that adds none, puts
\* one in the place of another, or adds one that has just outstayed the lock.
LEMMA CountsKeep ==
  ASSUME LockInv, IsFiniteSet(Overstayed'),
         Overstayed \ {holder} \subseteq (Overstayed \ {holder})',
         \/ Unheld' \subseteq Unheld
         \/ \E w \in Unheld : \E x : Unheld' \subseteq (Unheld \ {w}) \union {x}
         \/ \E w \in (Overstayed \ {holder})' \ (Overstayed \ {holder}) :
              Unheld' \subseteq Unheld \union {w}
  PROVE  LockInv'
<1> DEFINE late == Overstayed \ {holder}
           later == (Overstayed \ {holder})'
<1>1. /\ IsFiniteSet(Unheld) /\ IsFiniteSet(late) /\ IsFiniteSet(later)
      /\ Cardinality(Unheld) <= Cardinality(late)
      /\ late \subseteq later
  BY FS_Subset DEF LockInv
<1>2. later = Overstayed' \ {holder'}
  OBVIOUS
<1> HIDE DEF late, later
<1>3. /\ Cardinality(late) <= Cardinality(later)
      /\ Cardinality(late) \in Nat /\ Cardinality(later) \in Nat /\ Cardinality(Unheld) \in Nat
  BY <1>1, FS_Subset, FS_CardinalityType
<1>4. CASE Unheld' \subseteq Unheld
  <2>1. IsFiniteSet(Unheld') /\ Cardinality(Unheld') <= Cardinality(Unheld)
    BY <1>1, <1>4, FS_Subset
  <2>2. Cardinality(Unheld') \in Nat
    BY <2>1, FS_CardinalityType
  <2> QED
    BY <1>1, <1>2, <1>3, <2>1, <2>2 DEF LockInv
<1>5. ASSUME NEW w \in Unheld, NEW x, Unheld' \subseteq (Unheld \ {w}) \union {x}
      PROVE  LockInv'
  <2> DEFINE rest == Unheld \ {w}
  <2>1. IsFiniteSet(rest) /\ Cardinality(rest) = Cardinality(Unheld) - 1
    BY <1>1, FS_RemoveElement
  <2> HIDE DEF rest
  <2>2. /\ IsFiniteSet(rest \union {x})
        /\ Cardinality(rest \union {x}) \in {Cardinality(rest), Cardinality(rest) + 1}
    BY <2>1, FS_AddElement
  <2>3. /\ IsFiniteSet(Unheld')
        /\ Cardinality(Unheld') <= Cardinality(rest \union {x})
    BY <1>5, <2>2, FS_Subset DEF rest
  <2>4. Cardinality(Unheld') \in Nat
    BY <2>3, FS_CardinalityType
  <2> QED
    BY <1>2, <1>1, <1>3, <2>1, <2>2, <2>3, <2>4 DEF LockInv
<1>6. ASSUME NEW w \in later \ late, Unheld' \subseteq Unheld \union {w}
      PROVE  LockInv'
  <2>1. /\ IsFiniteSet(late \union {w}) /\ Cardinality(late \union {w}) = Cardinality(late) + 1
        /\ IsFiniteSet(Unheld \union {w})
        /\ Cardinality(Unheld \union {w}) \in {Cardinality(Unheld), Cardinality(Unheld) + 1}
    BY <1>1, <1>6, FS_AddElement
  <2>2. late \union {w} \subseteq later
    BY <1>1, <1>6
  <2>3. Cardinality(late) + 1 <= Cardinality(later)
    BY <1>1, <2>1, <2>2, FS_Subset
  <2>4. IsFiniteSet(Unheld') /\ Cardinality(Unheld') <= Cardinality(Unheld \union {w})
    BY <1>6, <2>1, FS_Subset
  <2>5. Cardinality(Unheld') \in Nat
    BY <2>4, FS_CardinalityType
  <2> QED
    BY <1>1, <1>2, <1>3, <2>1, <2>3, <2>4, <2>5 DEF LockInv
<1> QED
  BY <1>4, <1>5, <1>6 DEF late, later

\* Who has waited past the lock's life only grows in number with the waits.
LEMMA TTLPositive == LockTTL \in Nat /\ LockTTL > 0
  BY LockAssumption

LEMMA TimesAreNumbers == {0, 1} \subseteq Nat
  OBVIOUS

LEMMA WaitsGrow ==
  ASSUME NEW a \in Nat, NEW t \in Nat
  PROVE  a + t >= a /\ a + t \in Nat /\ a + 0 = a /\ (a >= LockTTL => a + t >= LockTTL)
  BY TTLPositive

LEMMA NoneOverstayed == ASSUME NEW a, a = 0 PROVE ~(a >= LockTTL)
  BY TTLPositive

\* A request keeps the lock, runs without it, or has no use for it: what it does
\* between taking the lock and deleting the key changes that of no other.
LEMMA LockStep ==
  ASSUME WithdrawalsInv, LockInv, [Next]_vars
  PROVE  LockInv'
<1> USE DEF Running
<1>1. /\ step \in [Withdraw -> Running \union {"new", "ended", "dead"}]
      /\ holder \in Withdraw \union {Nobody}
      /\ waited \in [Withdraw -> Nat]
      /\ Nobody \notin Withdraw
  BY NobodyAssumption DEF WithdrawalsInv, RequestsTyped
<1>2. IsFiniteSet(Overstayed)
  BY DEF LockInv
<1>3. CASE UNCHANGED <<holder, step, waited>>
  BY <1>3 DEF LockInv, Unheld, Overstayed
<1>4. ASSUME NEW w \in Withdraw, TakeLock(w)
      PROVE  LockInv'
  <2>1. waited' = waited /\ step[w] = "new"
    BY <1>4 DEF TakeLock
  <2>2. w \notin Overstayed
    <3>1. waited[w] = 0
      BY <2>1 DEF WithdrawalsInv, RequestsInv, RequestKnows, GatewayFollowsRequest
    <3> QED
      BY <3>1, NoneOverstayed DEF Overstayed
  <2>3. Overstayed' = Overstayed
    BY <2>1 DEF Overstayed
  <2>4. CASE holder = Nobody
    <3>1. holder' = w /\ step' = [step EXCEPT ![w] = "reserve"]
      BY <1>4, <2>4 DEF TakeLock, Advance
    <3>2. Unheld' \subseteq Unheld
      BY <1>1, <2>4, <3>1 DEF Unheld
    <3> QED
      BY <1>2, <2>2, <2>3, <3>1, <3>2, CountsKeep
  <2>5. CASE holder # Nobody
    <3>1. holder' = holder /\ step' = [step EXCEPT ![w] = "ended"]
      BY <1>4, <2>5 DEF TakeLock, Advance
    <3>2. Unheld' \subseteq Unheld
      BY <1>1, <3>1 DEF Unheld
    <3> QED
      BY <1>2, <2>3, <3>1, <3>2, CountsKeep
  <2> QED
    BY <2>4, <2>5
<1>5. ASSUME NEW w \in Withdraw, DeleteKey(w)
      PROVE  LockInv'
  <2>1. /\ step[w] = "delete" /\ step' = [step EXCEPT ![w] = "ended"]
        /\ holder' = Nobody /\ waited' = waited
    BY <1>5 DEF DeleteKey, Advance
  <2>2. Overstayed' = Overstayed /\ Nobody \notin Overstayed
    BY <1>1, <2>1 DEF Overstayed
  <2>3. CASE holder = w
    <3>1. Unheld' \subseteq Unheld
      BY <1>1, <2>1, <2>3 DEF Unheld
    <3> QED
      BY <1>2, <2>1, <2>2, <3>1, CountsKeep
  <2>4. CASE holder # w
    <3>1. w \in Unheld
      BY <2>1, <2>4 DEF Unheld
    <3>2. Unheld' \subseteq (Unheld \ {w}) \union {holder}
      BY <1>1, <2>1 DEF Unheld
    <3> QED
      BY <1>2, <2>1, <2>2, <3>1, <3>2, CountsKeep
  <2> QED
    BY <2>3, <2>4
<1>6. ASSUME NEW w \in Withdraw, holder' = holder, step[w] \in Running,
             NEW s \in Running \union {"ended", "dead"}, step' = [step EXCEPT ![w] = s],
             NEW t \in Nat, waited' = [waited EXCEPT ![w] = waited[w] + t]
      PROVE  LockInv'
  <2>1. Unheld' \subseteq Unheld
    BY <1>1, <1>6 DEF Unheld
  <2>2. \A x \in Withdraw : waited'[x] = IF x = w THEN waited[x] + t ELSE waited[x]
    BY <1>1, <1>6
  <2>3. waited[w] >= LockTTL => waited[w] + t >= LockTTL
    BY <1>1, <1>6, WaitsGrow
  <2>4. Overstayed \subseteq Overstayed' /\ Overstayed' \subseteq Overstayed \union {w}
    BY <2>2, <2>3 DEF Overstayed
  <2>5. IsFiniteSet(Overstayed \union {w})
    BY <1>2, FS_AddElement
  <2>6. IsFiniteSet(Overstayed')
    BY <2>4, <2>5, FS_Subset
  <2> QED
    BY <1>6, <2>1, <2>4, <2>6, CountsKeep
<1>7. CASE LockExpires
  <2>1. /\ holder \in Withdraw /\ step' = step /\ holder' = Nobody /\ waited' = waited
        /\ step[holder] = "dead" \/ waited[holder] >= LockTTL
    BY <1>1, <1>7 DEF LockExpires
  <2>2. Overstayed' = Overstayed /\ Nobody \notin Overstayed
    BY <1>1, <2>1 DEF Overstayed
  <2>3. CASE step[holder] = "dead"
    <3>1. Unheld' \subseteq Unheld
      BY <1>1, <2>1, <2>3 DEF Unheld
    <3> QED
      BY <1>2, <2>1, <2>2, <3>1, CountsKeep
  <2>4. CASE waited[holder] >= LockTTL
    <3>1. holder \in (Overstayed \ {holder})' \ (Overstayed \ {holder})
      BY <1>1, <2>1, <2>2, <2>4 DEF Overstayed
    <3>2. Unheld' \subseteq Unheld \union {holder}
      BY <1>1, <2>1 DEF Unheld
    <3> QED
      BY <1>2, <2>1, <2>2, <3>1, <3>2, CountsKeep
  <2> QED
    BY <2>1, <2>3, <2>4
<1>8. ASSUME NEW w \in Withdraw,
             \/ RequestStep(w) \/ RequestThrows(w) \/ RequestDies(w) \/ DecisionDies(w)
             \/ \E v \in Verdicts : Decide(w, v)
      PROVE  LockInv'
  <2>1. ASSUME NEW s \in Running \union {"ended", "dead"}, step[w] \in Running,
               step' = [step EXCEPT ![w] = s], UNCHANGED <<holder, waited>>
        PROVE  LockInv'
    <3>1. waited' = [waited EXCEPT ![w] = waited[w] + 0]
      <4>1. waited[w] + 0 = waited[w]
        BY <1>1, WaitsGrow
      <4> QED
        BY <1>1, <2>1, <4>1
    <3> QED
      BY <1>6, <2>1, <3>1
  <2>2. CASE ReserveFunds(w)
    BY <2>1, <2>2 DEF ReserveFunds, Advance
  <2>3. CASE GiveFundsBack(w) \/ Persist(w)
    BY <2>1, <2>3 DEF GiveFundsBack, Persist, Advance
  <2>4. CASE Release(w) \/ RequestThrows(w) \/ RequestDies(w)
    BY <2>1, <2>4 DEF Release, RequestThrows, RequestDies, Advance
  <2>5. ASSUME NEW g \in Gateways, GatewayAccepts(w, g)
        PROVE  LockInv'
    BY <2>1, <2>5 DEF GatewayAccepts, Advance
  <2>6. ASSUME NEW g \in Gateways, NEW t \in {0, 1}, NEW heard \in BOOLEAN,
               GatewayFails(w, g, t, heard)
        PROVE  LockInv'
    <3>1. /\ step[w] = "dispatch" /\ holder' = holder
          /\ waited' = [waited EXCEPT ![w] = waited[w] + t]
      BY <2>6 DEF GatewayFails
    <3>2. PICK s \in {"give back", "dispatch"} : step' = [step EXCEPT ![w] = s]
      <4>1. step' = [step EXCEPT ![w] = IF tried'[w] = Gateways THEN "give back"
                                        ELSE "dispatch"]
        BY <2>6 DEF GatewayFails, Advance
      <4> QED
        BY <4>1
    <3>3. t \in Nat
      BY TimesAreNumbers
    <3> QED
      BY <1>6, <3>1, <3>2, <3>3
  <2>7. CASE MoveDecided(w) \/ DecisionDies(w) \/ \E v \in Verdicts : Decide(w, v)
    BY <1>3, <2>7 DEF MoveDecided, DecisionDies, Decide
  <2> QED
    BY <1>5, <1>8, <2>2, <2>3, <2>4, <2>5, <2>6, <2>7 DEF RequestStep
<1>9. CASE \/ \E g \in Gateways, w \in Withdraw, v \in Verdicts : GatewayDecides(g, w, v)
           \/ \E d \in Workers, g \in Gateways, w \in Withdraw, v \in Verdicts :
                Notify(d, g, w, v)
           \/ \E d \in Workers, w \in Withdraw, v \in Verdicts : Poll(d, w, v)
           \/ \E d \in Workers, p \in Payloads : \E i \in Rows(p) :
                Reprocess(d, p, i) /\ UNCHANGED withdrawVars
           \/ UNCHANGED vars
  BY <1>3, <1>9 DEF GatewayDecides, Notify, Poll, vars, withdrawVars, requestVars
<1>10. ASSUME NEW d \in Workers,
              Work(d) \/ ((Throw(d, Settling) \/ Die(d)) /\ UNCHANGED withdrawVars)
       PROVE  LockInv'
  BY <1>3, <1>10
  DEF Work, ResolveWithdraw, SettleRead, SettleMove, SettleRefused, SettleUpdate,
      withdrawVars, requestVars
<1> QED
  BY <1>4, <1>7, <1>8, <1>9, <1>10 DEF Next

\* At first nothing is reserved or decided, and no request runs.
LEMMA InitMoneyAndLock == Init => Balanced /\ DecisionsAreCarried /\ LockInv
<1> SUFFICES ASSUME Init PROVE Balanced /\ DecisionsAreCarried /\ LockInv
  OBVIOUS
<1>1. posted = {}
  BY DEF Init, Book!Init
<1>2. Open = {} /\ BothWays = {}
  <2>1. \A w \in Withdraw : ~ Reserved(w) /\ \A v \in Verdicts : ~ Moved(w, v)
    BY <1>1, DoneIsSpent DEF Spent
  <2> QED
    BY <2>1, BothWaysAre DEF Open, BothWays, Verdicts
<1>3. balance = [u \in {Player} |-> [b \in {"main", "locked", "bonus"} |->
                                       IF b = "main" THEN Funds ELSE 0]]
  BY DEF Init, Book!Init
<1>4. Balanced
  BY <1>2, <1>3, TotalOfNone, AmountsAssumption DEF Balanced
<1>5. DecisionsAreCarried
  BY DEF Init, DecisionsAreCarried
<1>6. LockInv
  <2>1. Unheld = {} /\ Overstayed = {}
    BY NoneOverstayed DEF Init, Unheld, Overstayed, Running
  <2> QED
    BY <2>1, FS_EmptySet DEF LockInv
<1> QED
  BY <1>4, <1>5, <1>6
-----------------------------------------------------------------------------
\* The parts make up the type invariant.
LEMMA PartsMakeTypeOK == WithdrawalsInv => TypeOK
<1> SUFFICES ASSUME WithdrawalsInv PROVE TypeOK
  OBVIOUS
<1> USE DEF WithdrawalsInv
<1>1. WebhooksTypeOK({"move", "update"})
  <2>1. /\ DOMAIN hooks = Payloads
        /\ \A p \in Payloads : hooks[p] \in Seq(RowStatus)
        /\ at \in [Workers -> {"move", "update"} \union {"idle", "find", "resolve", "create",
                                                         "settle", "settled", "threw"}]
        /\ payload \in [Workers -> Payloads \union {NoPayload}]
        /\ row \in [Workers -> Nat]
        /\ acked \subseteq Payloads
        /\ faults \in 0..MaxFaults
    BY DEF WorkersTyped, WorkerSteps, Found
  <2>2. ASSUME NEW d \in Workers
        PROVE  /\ at[d] = "idle" <=> payload[d] = NoPayload
               /\ row[d] # 0 => row[d] \in Rows(payload[d])
               /\ at[d] \notin {"idle", "find", "resolve", "create"} => row[d] # 0
    <3>1. /\ at[d] = "idle" <=> payload[d] = NoPayload
          /\ at[d] \notin {"idle", "find", "resolve", "create"} => row[d] # 0
          /\ row[d] # 0 => payload[d] \in Payloads
      BY <2>1 DEF WorkersInv, WorkerKnows, Found
    <3>2. \A p \in Payloads : payload[d] = p /\ row[d] # 0 => row[d] \in Rows(p)
      <4>1. \A p \in Payloads : payload[d] = p /\ row[d] # 0 => row[d] \in 1..Len(hooks[p])
        BY DEF WorkersInv, WorkerKnows
      <4>2. \A p \in Payloads : Rows(p) = 1..Len(hooks[p])
        BY <2>1 DEF Rows
      <4> QED
        BY <4>1, <4>2
    <3> QED
      BY <3>1, <3>2
  <2> QED
    BY <2>1, <2>2 DEF WebhooksTypeOK
<1>2. \A w \in Withdraw : waited[w] \in 0..Cardinality(Gateways)
  <2> TAKE w \in Withdraw
  <2>1. waited[w] <= Cardinality(Gateways) /\ waited[w] \in Nat
    BY DEF RequestsTyped, RequestsInv, RequestKnows, GatewayFollowsRequest
  <2>2. Cardinality(Gateways) \in Nat
    BY GatewaysAssumption, FS_CardinalityType
  <2> QED
    BY <2>1, <2>2
<1>3. waited \in [Withdraw -> 0..Cardinality(Gateways)]
  BY <1>2 DEF RequestsTyped
<1> QED
  BY <1>1, <1>3 DEF TypeOK, RequestsTyped, Running

\* A final status tells what happened to the money.
LEMMA PartsTellTheMoney ==
  WithdrawalsInv /\ DecisionsAreCarried => StatusTellsTheMoney
<1> SUFFICES ASSUME WithdrawalsInv, DecisionsAreCarried, NEW w \in Withdraw
             PROVE  /\ Cardinality(Endings(w)) > 1 =>
                         w \in BothWays /\ Real /\ verdict[chosen[w]][w] = Verdicts
                    /\ GivenBack(w) => Endings(w) = {GiveBack(w)} /\ status[w] = "none"
                    /\ status[w] = "PENDING" => Reserved(w)
                    /\ \A v \in Verdicts : status[w] = StatusOf[v] =>
                         Moved(w, v) \/ (~ Real /\ deciding[w] \in {v, "dead"})
  BY DEF StatusTellsTheMoney, GivenBack, Moved
<1>1. Cardinality(Endings(w)) > 1 =>
        w \in BothWays /\ Real /\ verdict[chosen[w]][w] = Verdicts
  <2>1. w \in BothWays \/ \E q : Endings(w) \subseteq {q}
    BY SettledOnce, BothWaysAre DEF Endings, GivenBack, Moved, Settlement, Verdicts
  <2>2. ASSUME NEW q, Endings(w) \subseteq {q}
        PROVE  ~ (Cardinality(Endings(w)) > 1)
    <3>1. IsFiniteSet({q}) /\ Cardinality({q}) = 1
      BY FS_Singleton
    <3>2. Cardinality(Endings(w)) \in Nat /\ Cardinality(Endings(w)) <= 1
      BY <2>2, <3>1, FS_Subset, FS_CardinalityType
    <3> QED
      BY <3>2
  <2> QED
    BY <2>1, <2>2, SettledOnce
<1>2. status[w] = "PENDING" => Reserved(w)
  BY DEF WithdrawalsInv, RequestsInv, RequestKnows, MoneyFollowsRequest
<1>3. GivenBack(w) => Endings(w) = {GiveBack(w)} /\ status[w] = "none"
  <2>1. GivenBack(w) => status[w] = "none"
    BY DEF WithdrawalsInv, RequestsInv, RequestKnows, MoneyFollowsRequest
  <2>2. GivenBack(w) => \A v \in Verdicts : ~ Moved(w, v)
    BY SettledOnce
  <2> QED
    BY <2>1, <2>2 DEF Endings, GivenBack, Moved, Settlement, Verdicts
<1>4. ASSUME NEW v \in Verdicts, status[w] = StatusOf[v]
      PROVE  Moved(w, v) \/ (~ Real /\ deciding[w] \in {v, "dead"})
  <2> USE DEF WithdrawalsInv, RequestsTyped, RequestsInv, RequestKnows
  <2>1. CASE Real
    BY <1>4, <2>1 DEF MovesAreDecided
  <2>2. CASE demo
    <3>1. deciding[w] # "none"
      BY <1>4, <2>2 DEF DecisionsAreShown, StatusOf, Verdicts
    <3>2. deciding[w] \in Verdicts => deciding[w] = v
      BY <1>4, <2>2 DEF DecisionsAreShown, StatusOf, Verdicts
    <3>3. deciding[w] = "done" => Moved(w, v)
      BY <1>4 DEF DecisionsAreCarried
    <3> QED
      BY <2>2, <3>1, <3>2, <3>3 DEF Real
  <2> QED
    BY <2>1, <2>2 DEF Real
<1> QED
  BY <1>1, <1>2, <1>3, <1>4

\* An amount that was given back is with no gateway if none loses its answer.
LEMMA PartsGiveBackUnheld == ~ LostAnswers /\ WithdrawalsInv => GivenBackOnlyIfUnheld
<1> SUFFICES ASSUME ~ LostAnswers, WithdrawalsInv, NEW w \in Withdraw, GivenBack(w),
                    NEW g \in Gateways, w \in holds[g]
             PROVE  FALSE
  BY DEF GivenBackOnlyIfUnheld, GivenBack
<1> QED
  BY NobodyAssumption DEF WithdrawalsInv, RequestsInv, RequestKnows, GatewayFollowsRequest
-----------------------------------------------------------------------------
\* Whatever arrives in whatever order and whoever dies where, a request's
\* money, gateway, decision and webhooks stay with it.
THEOREM WithdrawalsInvariance == Spec => []WithdrawalsInv
<1>1. Init => WithdrawalsInv
  BY InitWithdrawalsInv
<1>2. WithdrawalsInv /\ [Next]_vars => WithdrawalsInv'
  BY WithdrawalsStep
<1> QED
  BY <1>1, <1>2, PTL DEF Spec

\* Every variable keeps its type.
THEOREM WithdrawalsTypeCorrect == Spec => []TypeOK
BY WithdrawalsInvariance, PartsMakeTypeOK, PTL

\* A 200 means settled: whatever is lost, repeated or reprocessed, a verdict
\* that was acknowledged has ended its reservation.
THEOREM AckedMeansSettledAlways == Spec => []AckedMeansSettled
<1>1. WithdrawalsInv => AckedMeansSettled
  BY DEF WithdrawalsInv, WorkersInv
<1> QED
  BY <1>1, WithdrawalsInvariance, PTL

\* If no answer of a gateway is lost, none holds a request whose amount was
\* given back; without that, requestWithdraw's catch pays twice.
THEOREM GivenBackOnlyIfUnheldAlways ==
  ASSUME ~ LostAnswers
  PROVE  Spec => []GivenBackOnlyIfUnheld
<1>1. WithdrawalsInv => GivenBackOnlyIfUnheld
  BY PartsGiveBackUnheld
<1> QED
  BY <1>1, WithdrawalsInvariance, PTL

\* The wallet and the reservations agree.
LEMMA BalanceInvariance == Spec => [](Balanced /\ DecisionsAreCarried)
<1>1. Init => WithdrawalsInv /\ Balanced /\ DecisionsAreCarried
  BY InitWithdrawalsInv, InitMoneyAndLock
<1>2. WithdrawalsInv /\ Balanced /\ DecisionsAreCarried /\ [Next]_vars
        => WithdrawalsInv' /\ Balanced' /\ DecisionsAreCarried'
  BY WithdrawalsStep, BalancesStep
<1> QED
  BY <1>1, <1>2, PTL DEF Spec

\* The locked bucket is the sum of the reservations that have not ended, less
\* exactly those that contradictory verdicts settled both ways.
THEOREM LockedIsReservedAlways == Spec => []LockedIsReserved
<1>1. Balanced => LockedIsReserved
  BY DEF Balanced, LockedIsReserved
<1> QED
  BY <1>1, BalanceInvariance, PTL

\* A reservation is settled once, unless its gateway gives both verdicts, and a
\* final status is the money's, whatever the gateways say.
THEOREM StatusTellsTheMoneyAlways == Spec => []StatusTellsTheMoney
<1>1. WithdrawalsInv /\ Balanced /\ DecisionsAreCarried => StatusTellsTheMoney
  BY PartsTellTheMoney
<1> QED
  BY <1>1, WithdrawalsInvariance, BalanceInvariance, PTL

\* However long the gateways take and whoever deletes whose key, no more
\* requests run without the lock than have outstayed it.
THEOREM OneRequestAtATimeAlways == Spec => []OneRequestAtATime
<1>1. Init => WithdrawalsInv /\ LockInv
  BY InitWithdrawalsInv, InitMoneyAndLock
<1>2. WithdrawalsInv /\ LockInv /\ [Next]_vars => WithdrawalsInv' /\ LockInv'
  BY WithdrawalsStep, LockStep
<1>3. LockInv => OneRequestAtATime
  <2> SUFFICES ASSUME LockInv PROVE OneRequestAtATime
    OBVIOUS
  <2>1. /\ IsFiniteSet(Unheld) /\ IsFiniteSet(Overstayed)
        /\ Cardinality(Unheld) <= Cardinality(Overstayed \ {holder})
    BY DEF LockInv
  <2>2. /\ Cardinality(Overstayed \ {holder}) <= Cardinality(Overstayed)
        /\ IsFiniteSet(Overstayed \ {holder})
    BY <2>1, FS_Subset
  <2>3. /\ Cardinality(Unheld) \in Nat /\ Cardinality(Overstayed) \in Nat
        /\ Cardinality(Overstayed \ {holder}) \in Nat
    BY <2>1, <2>2, FS_CardinalityType
  <2> QED
    BY <2>1, <2>2, <2>3 DEF OneRequestAtATime
<1> QED
  BY <1>1, <1>2, <1>3, PTL DEF Spec
=============================================================================
