--------------------------- MODULE DepositsProofs ---------------------------
(***************************************************************************)
(* Deposits, proved for every set of deposits, players and workers, every  *)
(* set of gateway histories and any number of faults.                      *)
(***************************************************************************)
EXTENDS Deposits, CentsTheorems

\* The steps a worker takes with a deposit it has found.
Found == {"create", "settle", "credit", "update", "settled", "threw"}

\* A worker has found a deposit, and a row was created, only if it is persisted.
FoundIsPersisted ==
  /\ \A d \in Workers : at[d] \in Found => Persisted(payload[d].deposit)
  /\ \A p \in Payloads : hooks[p] # << >> => Persisted(p.deposit)

\* What the settlements under way know of the wallet.
SettlersKnow ==
  \A d \in Workers :
    /\ at[d] = "update" /\ payload[d].type \in {"paid", "refunded"} =>
         Credited(payload[d].deposit)
    /\ at[d] = "settled" /\ payload[d].type = "paid" => Credited(payload[d].deposit)

RowsAreSequences == hooks \in [Payloads -> Seq(RowStatus)]

WorkerSteps == {"idle", "find", "resolve"} \union Found

\* The type invariant, in parts.
WorkersTyped ==
  /\ at \in [Workers -> WorkerSteps]
  /\ payload \in [Workers -> Payloads \union {NoPayload}]
  /\ row \in [Workers -> Nat]
  /\ \A d \in Workers : at[d] = "idle" <=> payload[d] = NoPayload

\* A worker holds a row of its payload, and has one to settle.
WorkersHoldRows ==
  \A d \in Workers :
    /\ row[d] # 0 => row[d] \in 1..Len(hooks[payload[d]])
    /\ at[d] = "idle" => row[d] = 0
    /\ at[d] \in Found \ {"create"} => row[d] # 0

DepositStatuses ==
  {"none", "charged", "lost", "PENDING"} \union {StatusOf[o] : o \in Outcomes}

DepositsTyped ==
  /\ status \in [Deposit -> DepositStatuses]
  /\ outcome \in [Deposit -> Histories]
  /\ acked \subseteq Payloads
  /\ faults \in 0..MaxFaults

DepositsInv ==
  /\ RowsAreSequences /\ WorkersTyped /\ WorkersHoldRows /\ DepositsTyped
  /\ FoundIsPersisted /\ SettlersKnow /\ PaidMeansCredited /\ AckedMeansCredited

\* What no step undoes.
Lasting ==
  /\ \A p \in Deposit : Credited(p) => Credited(p)'
  /\ \A p \in Deposit : Persisted(p) => Persisted(p)'
-----------------------------------------------------------------------------
\* A payload names a deposit and one of the outcomes.
LEMMA PayloadParts ==
  ASSUME NEW p \in Payloads
  PROVE  p.deposit \in Deposit /\ p.type \in Outcomes
BY HistoriesAssumption, PayloadsAssumption DEF Payload

\* settle's status of each outcome: PAID is the status of paid alone, and so
\* REFUNDED of refunded; none is a status of a deposit without a row.
LEMMA StatusOfOutcome ==
  ASSUME NEW o \in Outcomes
  PROVE  /\ StatusOf[o] \in {"PAID", "FAILED", "CANCELLED", "EXPIRED", "REFUNDED"}
         /\ StatusOf[o] = "PAID" => o = "paid"
         /\ StatusOf[o] = "REFUNDED" => o = "refunded"
BY DEF Outcomes, StatusOf

\* A credit that was posted stays posted.
LEMMA CreditLasts ==
  ASSUME posted \subseteq posted'
  PROVE  \A p \in Deposit : Credited(p) => Credited(p)'
BY DEF Credited, Book!Done

\* After credit() returns the deposit's key is spent, whoever spent it.
LEMMA CreditLands ==
  ASSUME NEW p \in Deposit, Book!PostOnce(Confirm(p))
  PROVE  Credited(p)' /\ posted \subseteq posted'
<1>1. CASE Book!Done(Confirm(p))
  BY <1>1 DEF Credited, Book!PostOnce, Book!bookVars, Book!Done
<1>2. CASE ~ Book!Done(Confirm(p))
  BY <1>2 DEF Credited, Book!PostOnce, Book!Post, Book!Done
<1> QED
  BY <1>1, <1>2
-----------------------------------------------------------------------------
\* Before any charge is made, nothing is found, credited or answered.
LEMMA InitDepositsInv == Init => DepositsInv
<1> SUFFICES ASSUME Init PROVE DepositsInv
  OBVIOUS
<1> USE DEF Init, WebhooksInit
<1>1. RowsAreSequences /\ WorkersTyped /\ WorkersHoldRows
  BY NoPayloadAssumption
  DEF RowsAreSequences, WorkersTyped, WorkersHoldRows, WorkerSteps, Found
<1>2. DepositsTyped
  BY HistoriesAssumption, MaxFaultsAssumption DEF DepositsTyped, DepositStatuses
<1>3. FoundIsPersisted /\ SettlersKnow
  BY DEF FoundIsPersisted, Found, SettlersKnow
<1>4. PaidMeansCredited /\ AckedMeansCredited
  BY DEF PaidMeansCredited, AckedMeansCredited, Rows
<1> QED
  BY <1>1, <1>2, <1>3, <1>4 DEF DepositsInv

\* The parts make up the type invariant the runs check.
LEMMA PartsMakeTypeOK == DepositsInv => TypeOK
<1> SUFFICES ASSUME DepositsInv PROVE TypeOK
  OBVIOUS
<1>1. \A p \in Payloads : hooks[p] \in Seq(RowStatus) /\ Rows(p) = 1..Len(hooks[p])
  BY DEF DepositsInv, RowsAreSequences, Rows
<1>2. WebhooksTypeOK({"credit", "update"})
  <2>1. DOMAIN hooks = Payloads /\ \A p \in Payloads : hooks[p] \in Seq(RowStatus)
    BY DEF DepositsInv, RowsAreSequences
  <2>2. /\ at \in [Workers -> {"credit", "update"} \union {"idle", "find", "resolve", "create",
                                                         "settle", "settled", "threw"}]
        /\ payload \in [Workers -> Payloads \union {NoPayload}]
        /\ row \in [Workers -> Nat]
    BY DEF DepositsInv, WorkersTyped, WorkerSteps, Found
  <2>3. \A d \in Workers :
          /\ at[d] = "idle" <=> payload[d] = NoPayload
          /\ row[d] # 0 => row[d] \in Rows(payload[d])
          /\ at[d] \notin {"idle", "find", "resolve", "create"} => row[d] # 0
    BY <1>1, <2>2 DEF DepositsInv, WorkersTyped, WorkersHoldRows, Found
  <2> QED
    BY <2>1, <2>2, <2>3 DEF DepositsInv, DepositsTyped, WebhooksTypeOK
<1>3. \A d \in Workers : at[d] \in Settling => Persisted(payload[d].deposit)
  BY DEF DepositsInv, FoundIsPersisted, Found, Settling
<1> QED
  BY <1>2, <1>3 DEF DepositsInv, DepositsTyped, DepositStatuses, TypeOK

\* What the invariant says of one worker.
LEMMA WorkerFacts ==
  ASSUME DepositsInv, NEW d \in Workers, at[d] # "idle"
  PROVE  /\ payload[d] \in Payloads
         /\ payload[d].deposit \in Deposit
         /\ payload[d].type \in Outcomes
         /\ row[d] \in Nat
         /\ row[d] # 0 => row[d] \in 1..Len(hooks[payload[d]])
         /\ hooks[payload[d]] \in Seq(RowStatus)
         /\ at[d] \in Found \ {"create"} => row[d] # 0
<1>1. payload[d] \in Payloads
  BY DEF DepositsInv, WorkersTyped
<1> QED
  BY <1>1, PayloadParts
  DEF DepositsInv, WorkersTyped, WorkersHoldRows, RowsAreSequences

\* A step of one worker that writes no row: it goes on, to a step it is
\* entitled to.
LEMMA GoesOn ==
  ASSUME DepositsInv, Lasting, NEW d \in Workers, at[d] # "idle",
         NEW step \in Found \union {"resolve"},
         at' = [at EXCEPT ![d] = step],
         row' \in [Workers -> Nat],
         \A c \in Workers \ {d} : row'[c] = row[c],
         row'[d] # 0 => row'[d] \in 1..Len(hooks[payload[d]]),
         step \notin {"resolve", "create"} => row'[d] # 0,
         step # "resolve" => Persisted(payload[d].deposit)',
         step = "update" /\ payload[d].type \in {"paid", "refunded"} =>
           Credited(payload[d].deposit)',
         step = "settled" /\ payload[d].type = "paid" => Credited(payload[d].deposit)',
         UNCHANGED <<hooks, payload, acked>>,
         DepositsTyped', PaidMeansCredited'
  PROVE  DepositsInv'
<1> USE DEF DepositsInv
<1>1. \A c \in Workers : at[c] # "idle" =>
         payload[c] \in Payloads /\ payload[c].deposit \in Deposit
  BY WorkerFacts
<1>2. FoundIsPersisted'
  BY <1>1, PayloadParts DEF FoundIsPersisted, Found, Lasting, WorkersTyped
<1>3. WorkersTyped' /\ RowsAreSequences'
  BY DEF WorkersTyped, WorkerSteps, Found, RowsAreSequences
<1>4. WorkersHoldRows'
  BY DEF WorkersTyped, WorkersHoldRows, Found
<1>5. SettlersKnow'
  BY <1>1 DEF SettlersKnow, Lasting, WorkersTyped
<1>6. AckedMeansCredited'
  BY PayloadParts DEF AckedMeansCredited, Lasting, Rows, DepositsTyped
<1> QED
  BY <1>2, <1>3, <1>4, <1>5, <1>6

\* A worker is done: rows only change their status, to PROCESSED only if the
\* payload is settled, and so for the payloads answered with a 200.
LEMMA Frees ==
  ASSUME DepositsInv, NEW d \in Workers, at[d] # "idle", Leave(d),
         RowsAreSequences',
         \A p \in Payloads : Len(hooks'[p]) = Len(hooks[p]),
         \A p \in Payloads : \A i \in 1..Len(hooks[p]) :
           hooks'[p][i] = "PROCESSED" /\ p.type = "paid" => Credited(p.deposit),
         acked' \subseteq Payloads,
         \A p \in acked' : p.type = "paid" => Credited(p.deposit),
         faults' \in 0..MaxFaults,
         UNCHANGED depositVars
  PROVE  DepositsInv'
<1> USE DEF DepositsInv, Leave, depositVars
<1>1. \A p \in Deposit : (Credited(p)' <=> Credited(p)) /\ (Persisted(p)' <=> Persisted(p))
  BY DEF Credited, Book!Done, Persisted
<1>2. \A p \in Payloads : Rows(p)' = 1..Len(hooks[p])
  BY DEF RowsAreSequences, Rows
<1>3. \A p \in Payloads : hooks'[p] # << >> <=> hooks[p] # << >>
  BY DEF RowsAreSequences
<1>4. \A c \in Workers : at[c] # "idle" =>
         payload[c] \in Payloads /\ payload[c].deposit \in Deposit
  BY WorkerFacts
<1>5. FoundIsPersisted'
  BY <1>1, <1>3, <1>4, PayloadParts DEF FoundIsPersisted, Found, WorkersTyped
<1>6. SettlersKnow'
  BY <1>1, <1>4 DEF SettlersKnow, WorkersTyped
<1>7. PaidMeansCredited' /\ AckedMeansCredited'
  BY <1>1, <1>2, PayloadParts DEF PaidMeansCredited, AckedMeansCredited
<1>8. WorkersTyped' /\ DepositsTyped'
  BY NoPayloadAssumption DEF WorkersTyped, WorkerSteps, DepositsTyped
<1>9. WorkersHoldRows'
  BY <1>4 DEF WorkersHoldRows, WorkersTyped, Found
<1> QED
  BY <1>5, <1>6, <1>7, <1>8, <1>9

\* A worker takes a payload up: a delivery, a poll, or a row to settle again.
LEMMA Starts ==
  ASSUME DepositsInv, NEW d \in Workers, at[d] = "idle", NEW p \in Payloads,
         NEW step \in {"find", "settle"}, NEW i \in Nat,
         at' = [at EXCEPT ![d] = step],
         payload' = [payload EXCEPT ![d] = p],
         row' = [row EXCEPT ![d] = i],
         i # 0 => i \in 1..Len(hooks[p]),
         step = "settle" => i # 0,
         UNCHANGED <<hooks, acked, faults, depositVars>>
  PROVE  DepositsInv'
<1> USE DEF DepositsInv, depositVars
<1>1. \A q \in Deposit : (Credited(q)' <=> Credited(q)) /\ (Persisted(q)' <=> Persisted(q))
  BY DEF Credited, Book!Done, Persisted
<1>2. hooks[p] \in Seq(RowStatus)
  BY DEF RowsAreSequences
<1>3. step = "settle" => Persisted(p.deposit)
  BY <1>2 DEF FoundIsPersisted
<1>4. \A c \in Workers : at[c] # "idle" =>
         payload[c] \in Payloads /\ payload[c].deposit \in Deposit
  BY WorkerFacts
<1>5. FoundIsPersisted'
  BY <1>1, <1>3, <1>4, PayloadParts DEF FoundIsPersisted, Found, WorkersTyped
<1>6. SettlersKnow'
  BY <1>1, <1>4 DEF SettlersKnow, WorkersTyped
<1>7. PaidMeansCredited' /\ AckedMeansCredited' /\ RowsAreSequences' /\ DepositsTyped'
  BY <1>1, PayloadParts
  DEF PaidMeansCredited, AckedMeansCredited, RowsAreSequences, Rows, DepositsTyped
<1>8. WorkersTyped'
  BY NoPayloadAssumption DEF WorkersTyped, WorkerSteps, Found
<1>9. WorkersHoldRows'
  BY DEF WorkersHoldRows, WorkersTyped, Found
<1> QED
  BY <1>5, <1>6, <1>7, <1>8, <1>9
-----------------------------------------------------------------------------
\* createDeposit, and what a gateway decides: no step of a worker.
LEMMA DepositStepsInv ==
  ASSUME DepositsInv, NEW p \in Deposit,
         \/ Charge(p) \/ Persist(p) \/ LoseCharge(p)
         \/ \E o \in Outcomes : GatewayDecides(p, o)
  PROVE  DepositsInv'
<1> USE DEF DepositsInv, Charge, Persist, LoseCharge, GatewayDecides, hookVars
<1>1. \A q \in Deposit : Credited(q)' <=> Credited(q)
  BY DEF Credited, Book!Done
<1>2. \A q \in Deposit :
        /\ Persisted(q) => Persisted(q)'
        /\ status'[q] \in {"PAID", "REFUNDED"} => status[q] \in {"PAID", "REFUNDED"}
  BY DEF Persisted, DepositsTyped
<1>3. RowsAreSequences' /\ WorkersTyped' /\ WorkersHoldRows'
  BY DEF RowsAreSequences, WorkersTyped, WorkersHoldRows
<1>4. DepositsTyped'
  <2>1. status' \in [Deposit -> DepositStatuses]
    BY DEF DepositsTyped, DepositStatuses
  <2>2. outcome' \in [Deposit -> Histories]
    BY DEF DepositsTyped
  <2>3. faults' = faults \/ (faults < MaxFaults /\ faults' = faults + 1)
    OBVIOUS
  <2>4. faults \in 0..MaxFaults /\ acked' \subseteq Payloads
    BY DEF DepositsTyped
  <2>5. faults' \in 0..MaxFaults
    BY <2>3, <2>4, MaxFaultsAssumption
  <2> QED
    BY <2>1, <2>2, <2>4, <2>5 DEF DepositsTyped
<1>5. FoundIsPersisted'
  BY <1>2, WorkerFacts, PayloadParts DEF FoundIsPersisted, Found
<1>6. SettlersKnow'
  BY <1>1, WorkerFacts DEF SettlersKnow
<1>7. PaidMeansCredited' /\ AckedMeansCredited'
  BY <1>1, <1>2, PayloadParts DEF PaidMeansCredited, AckedMeansCredited, Rows, DepositsTyped
<1> QED
  BY <1>3, <1>4, <1>5, <1>6, <1>7

\* Nothing is lost by a step that leaves deposits and wallets alone.
LEMMA NothingLost ==
  ASSUME DepositsInv, UNCHANGED depositVars
  PROVE  Lasting /\ PaidMeansCredited' /\ (\A p \in Deposit : Credited(p)' <=> Credited(p))
BY DEF DepositsInv, depositVars, Lasting, PaidMeansCredited, Credited, Book!Done, Persisted

\* A payload whose latest row is PROCESSED is settled.
LEMMA ProcessedIsSettled ==
  ASSUME DepositsInv, NEW d \in Workers, at[d] # "idle",
         hooks[payload[d]] # << >>, Last(hooks[payload[d]]) = "PROCESSED",
         payload[d].type = "paid"
  PROVE  Credited(payload[d].deposit)
<1>1. payload[d] \in Payloads /\ hooks[payload[d]] \in Seq(RowStatus)
  BY WorkerFacts
<1>2. Len(hooks[payload[d]]) \in Rows(payload[d])
  BY <1>1 DEF Rows
<1> QED
  BY <1>1, <1>2 DEF DepositsInv, AckedMeansCredited, Last

\* A worker that answers without a settlement of its own, or dies.
LEMMA AnswersInv ==
  ASSUME DepositsInv, NEW d \in Workers,
         FindProcessed(d) \/ AdoptProcessed(d) \/ Die(d), UNCHANGED depositVars
  PROVE  DepositsInv'
<1> USE DEF FindProcessed, AdoptProcessed, Die, Answer200
<1>1. at[d] # "idle" /\ Leave(d) /\ hooks' = hooks
  OBVIOUS
<1>2. payload[d] \in Payloads
  BY <1>1, WorkerFacts
<1>3. \A p \in acked' : p.type = "paid" => Credited(p.deposit)
  BY <1>1, ProcessedIsSettled DEF DepositsInv, AckedMeansCredited, DepositsTyped, Conflicts
<1>4. acked' \subseteq Payloads /\ faults' \in 0..MaxFaults
  BY <1>2, MaxFaultsAssumption DEF DepositsInv, DepositsTyped
<1>5. \A p \in Payloads : \A i \in 1..Len(hooks[p]) :
        hooks[p][i] = "PROCESSED" /\ p.type = "paid" => Credited(p.deposit)
  BY DEF DepositsInv, RowsAreSequences, AckedMeansCredited, Rows
<1>6. RowsAreSequences'
  BY <1>1 DEF DepositsInv, RowsAreSequences
<1> QED
  BY <1>1, <1>3, <1>4, <1>5, <1>6, Frees

\* settleAndRecord's last statement, whichever way the settlement went.
LEMMA RecordsInv ==
  ASSUME DepositsInv, NEW d \in Workers,
         Record(d) \/ RecordError(d), UNCHANGED depositVars
  PROVE  DepositsInv'
<1> DEFINE written == IF at[d] = "settled" THEN "PROCESSED" ELSE "ERROR"
<1>1. /\ at[d] \in {"settled", "threw"} /\ Leave(d)
      /\ hooks' = [hooks EXCEPT ![payload[d]][row[d]] = written]
      /\ faults' = faults
      /\ acked' = acked \/ (at[d] = "settled" /\ acked' = acked \union {payload[d]})
  BY DEF Record, RecordError
<1>2. /\ payload[d] \in Payloads /\ hooks[payload[d]] \in Seq(RowStatus)
      /\ row[d] \in 1..Len(hooks[payload[d]])
  BY <1>1, WorkerFacts DEF Found
<1>3. at[d] = "settled" /\ payload[d].type = "paid" => Credited(payload[d].deposit)
  BY DEF DepositsInv, SettlersKnow
<1>4. written \in RowStatus /\ (written = "PROCESSED" => at[d] = "settled")
  BY DEF RowStatus
<1> HIDE DEF written
<1>5. hooks \in [Payloads -> Seq(RowStatus)]
  BY DEF DepositsInv, RowsAreSequences
<1> DEFINE rewritten == [hooks[payload[d]] EXCEPT ![row[d]] = written]
<1>6. hooks' = [hooks EXCEPT ![payload[d]] = rewritten]
  BY <1>1, Zenon
<1>7. /\ rewritten \in Seq(RowStatus) /\ Len(rewritten) = Len(hooks[payload[d]])
      /\ \A i \in 1..Len(hooks[payload[d]]) :
           rewritten[i] = IF i = row[d] THEN written ELSE hooks[payload[d]][i]
  BY <1>2, <1>4
<1> HIDE DEF rewritten
<1>8. RowsAreSequences' /\ \A p \in Payloads : Len(hooks'[p]) = Len(hooks[p])
  BY <1>2, <1>5, <1>6, <1>7 DEF RowsAreSequences
<1>9. \A p \in Payloads : \A i \in 1..Len(hooks[p]) :
        hooks[p][i] = "PROCESSED" /\ p.type = "paid" => Credited(p.deposit)
  BY DEF DepositsInv, RowsAreSequences, AckedMeansCredited, Rows
<1>10. \A p \in Payloads : \A i \in 1..Len(hooks[p]) :
        hooks'[p][i] = "PROCESSED" /\ p.type = "paid" => Credited(p.deposit)
  BY <1>2, <1>3, <1>4, <1>5, <1>6, <1>7, <1>9
<1>11. \A p \in acked' : p.type = "paid" => Credited(p.deposit)
  BY <1>1, <1>3 DEF DepositsInv, AckedMeansCredited, DepositsTyped
<1>12. acked' \subseteq Payloads /\ faults' \in 0..MaxFaults
  BY <1>1, <1>2 DEF DepositsInv, DepositsTyped
<1> QED
  BY <1>1, <1>8, <1>10, <1>11, <1>12, Frees

\* The loser of a race on the unique index takes the winner's row.
LEMMA FindsInv ==
  ASSUME DepositsInv, NEW d \in Workers,
         Find(d) \/ Adopt(d), UNCHANGED depositVars
  PROVE  DepositsInv'
<1>1. /\ at[d] # "idle" /\ hooks[payload[d]] \in Seq(RowStatus)
      /\ at[d] = "create" => Persisted(payload[d].deposit)
  BY WorkerFacts DEF Find, Adopt, DepositsInv, FoundIsPersisted, Found
<1>2. row' \in [Workers -> Nat] /\ \A c \in Workers \ {d} : row'[c] = row[c]
  BY <1>1 DEF Find, Adopt, DepositsInv, WorkersTyped
<1>3. row'[d] = Len(hooks[payload[d]])
  BY DEF Find, Adopt, DepositsInv, WorkersTyped
<1>4. /\ row'[d] # 0 => row'[d] \in 1..Len(hooks[payload[d]])
      /\ Adopt(d) => row'[d] # 0
  BY <1>1, <1>3 DEF Adopt, Conflicts
<1>5. Persisted(payload[d].deposit) => Persisted(payload[d].deposit)'
  BY DEF depositVars, Persisted, Find, Adopt
<1>6. DepositsTyped'
  BY DEF Find, Adopt, DepositsInv, DepositsTyped, depositVars
<1>7. CASE Find(d)
  <2>1. at' = [at EXCEPT ![d] = "resolve"] /\ UNCHANGED <<hooks, payload, acked>>
    BY <1>7 DEF Find
  <2> QED
    BY <1>1, <1>2, <1>4, <1>6, <2>1, NothingLost, GoesOn
<1>8. CASE Adopt(d)
  <2>1. /\ at[d] = "create" /\ at' = [at EXCEPT ![d] = "settle"]
        /\ UNCHANGED <<hooks, payload, acked>>
    BY <1>8 DEF Adopt
  <2> QED
    BY <1>1, <1>2, <1>4, <1>5, <1>6, <1>8, <2>1, NothingLost, GoesOn DEF Found
<1> QED
  BY <1>7, <1>8

\* A new row, RECEIVED, of a deposit that was found.
LEMMA CreateRowInv ==
  ASSUME DepositsInv, NEW d \in Workers, CreateRow(d), UNCHANGED depositVars
  PROVE  DepositsInv'
<1> USE DEF DepositsInv
<1> DEFINE longer == Append(hooks[payload[d]], "RECEIVED")
<1>1. /\ at[d] = "create" /\ at' = [at EXCEPT ![d] = "settle"]
      /\ hooks' = [hooks EXCEPT ![payload[d]] = longer]
      /\ row' = [row EXCEPT ![d] = Len(hooks[payload[d]]) + 1]
      /\ UNCHANGED <<payload, acked, faults>>
  BY DEF CreateRow
<1>2. payload[d] \in Payloads /\ hooks[payload[d]] \in Seq(RowStatus)
  BY <1>1, WorkerFacts
<1>3. /\ longer \in Seq(RowStatus) /\ Len(longer) = Len(hooks[payload[d]]) + 1
      /\ longer # << >>
      /\ \A i \in 1..Len(longer) : longer[i] = "PROCESSED" =>
           i \in 1..Len(hooks[payload[d]]) /\ hooks[payload[d]][i] = "PROCESSED"
  BY <1>2 DEF RowStatus
<1> HIDE DEF longer
<1>4. \A p \in Deposit : (Credited(p)' <=> Credited(p)) /\ (Persisted(p)' <=> Persisted(p))
  BY DEF Credited, Book!Done, Persisted, depositVars
<1>5. Persisted(payload[d].deposit)
  BY <1>1 DEF FoundIsPersisted, Found
<1>6. \A c \in Workers : at[c] # "idle" =>
         payload[c] \in Payloads /\ payload[c].deposit \in Deposit
  BY WorkerFacts
<1>7. RowsAreSequences' /\ DepositsTyped' /\ PaidMeansCredited'
  BY <1>1, <1>3, <1>4
  DEF RowsAreSequences, DepositsTyped, PaidMeansCredited, depositVars
<1>8. WorkersTyped'
  BY <1>1, <1>2 DEF WorkersTyped, WorkerSteps, Found
<1>9. WorkersHoldRows'
  <2>1. \A p \in Payloads : Len(hooks[p]) \in Nat /\ Len(hooks[p]) <= Len(hooks'[p])
    BY <1>1, <1>2, <1>3 DEF RowsAreSequences
  <2>2. row'[d] \in 1..Len(hooks'[payload[d]])
    BY <1>1, <1>2, <1>3 DEF RowsAreSequences, WorkersTyped
  <2>3. \A c \in Workers : c # d => row'[c] = row[c]
    BY <1>1 DEF WorkersTyped
  <2>4. \A c \in Workers : row[c] # 0 => at[c] # "idle"
    BY DEF WorkersHoldRows
  <2>5. \A c \in Workers : c # d /\ row[c] # 0 => row'[c] \in 1..Len(hooks'[payload[c]])
    BY <1>6, <2>1, <2>3, <2>4 DEF WorkersHoldRows, WorkersTyped
  <2> QED
    BY <1>1, <2>2, <2>3, <2>5 DEF WorkersHoldRows, WorkersTyped, Found
<1>10. FoundIsPersisted'
  BY <1>1, <1>2, <1>4, <1>5, <1>6, PayloadParts DEF FoundIsPersisted, Found, RowsAreSequences, WorkersTyped
<1>11. SettlersKnow'
  BY <1>1, <1>4, <1>6 DEF SettlersKnow, WorkersTyped
<1>12. AckedMeansCredited'
  <2>1. \A p \in acked' : p.type = "paid" => Credited(p.deposit)'
    BY <1>1, <1>4, PayloadParts DEF AckedMeansCredited, DepositsTyped
  <2>2. \A p \in Payloads : Rows(p) = 1..Len(hooks[p]) /\ Rows(p)' = 1..Len(hooks'[p])
    BY <1>7 DEF RowsAreSequences, Rows
  <2>3. ASSUME NEW p \in Payloads, NEW i \in 1..Len(hooks'[p]), hooks'[p][i] = "PROCESSED"
        PROVE  i \in 1..Len(hooks[p]) /\ hooks[p][i] = "PROCESSED"
    BY <1>1, <1>2, <1>3, <2>3 DEF RowsAreSequences
  <2> QED
    BY <1>4, <2>1, <2>2, <2>3, PayloadParts DEF AckedMeansCredited
<1> QED
  BY <1>7, <1>8, <1>9, <1>10, <1>11, <1>12

\* The steps of a settlement, of which only the credit posts and only the update
\* writes the deposit.
LEMMA SettlesInv ==
  ASSUME DepositsInv, NEW d \in Workers,
         \/ SettleRead(d) \/ SettleCredit(d) \/ SettleRefused(d) \/ SettleUpdate(d)
  PROVE  DepositsInv'
<1>1. /\ at[d] \in {"settle", "credit", "update"}
      /\ UNCHANGED <<hooks, payload, row, acked, faults>>
  BY DEF SettleRead, SettleCredit, SettleRefused, SettleUpdate, Goto
<1>2. /\ payload[d] \in Payloads /\ payload[d].deposit \in Deposit
      /\ payload[d].type \in Outcomes
      /\ row[d] \in 1..Len(hooks[payload[d]]) /\ row[d] # 0
  BY <1>1, WorkerFacts DEF Found
<1>3. /\ row' \in [Workers -> Nat] /\ \A c \in Workers \ {d} : row'[c] = row[c]
      /\ row'[d] \in 1..Len(hooks[payload[d]]) /\ row'[d] # 0
  BY <1>1, <1>2 DEF DepositsInv, WorkersTyped
<1>4. Persisted(payload[d].deposit)
  BY <1>1 DEF DepositsInv, FoundIsPersisted, Found
<1>5. CASE SettleRead(d)
  <2>1. /\ UNCHANGED depositVars
        /\ \E step \in {"settled", "credit", "update"} :
             /\ at' = [at EXCEPT ![d] = step]
             /\ step = "update" => payload[d].type # "paid"
             /\ step = "update" /\ payload[d].type = "refunded" =>
                  status[payload[d].deposit] = "PAID"
             /\ step = "settled" /\ payload[d].type = "paid" =>
                  status[payload[d].deposit] = "PAID"
    BY <1>5 DEF SettleRead, Goto, OutOfOrder
  <2>2. status[payload[d].deposit] = "PAID" => Credited(payload[d].deposit)'
    BY <1>1, <1>2, <2>1, NothingLost DEF DepositsInv, PaidMeansCredited
  <2>3. DepositsTyped' /\ Persisted(payload[d].deposit)'
    BY <1>1, <1>4, <2>1 DEF DepositsInv, DepositsTyped, depositVars, Persisted
  <2> QED
    BY <1>1, <1>3, <2>1, <2>2, <2>3, NothingLost, GoesOn DEF Found
<1>6. CASE SettleCredit(d)
  <2>1. Credited(payload[d].deposit)' /\ posted \subseteq posted'
    BY <1>1, <1>2, <1>6, CreditLands DEF SettleCredit
  <2>2. UNCHANGED <<status, outcome>> /\ at' = [at EXCEPT ![d] = "update"]
    BY <1>6 DEF SettleCredit, Goto
  <2>3. Lasting /\ PaidMeansCredited'
    BY <2>1, <2>2, CreditLasts DEF Lasting, DepositsInv, PaidMeansCredited, Persisted
  <2>4. DepositsTyped' /\ Persisted(payload[d].deposit)'
    BY <1>1, <1>4, <2>2 DEF DepositsInv, DepositsTyped, Persisted
  <2> QED
    BY <1>1, <1>3, <2>1, <2>2, <2>3, <2>4, GoesOn DEF Found
<1>7. CASE SettleRefused(d)
  <2>1. UNCHANGED depositVars /\ at' = [at EXCEPT ![d] = "threw"]
    BY <1>7 DEF SettleRefused, Goto
  <2>2. DepositsTyped' /\ Persisted(payload[d].deposit)'
    BY <1>1, <1>4, <2>1 DEF DepositsInv, DepositsTyped, depositVars, Persisted
  <2> QED
    BY <1>1, <1>3, <2>1, <2>2, NothingLost, GoesOn DEF Found
<1>8. CASE SettleUpdate(d)
  <2>1. /\ at[d] = "update" /\ at' = [at EXCEPT ![d] = "settled"]
        /\ status' = [status EXCEPT ![payload[d].deposit] = StatusOf[payload[d].type]]
        /\ UNCHANGED <<outcome, balance, posted>>
    BY <1>8 DEF SettleUpdate, Goto
  <2>2. \A p \in Deposit : Credited(p)' <=> Credited(p)
    BY <2>1 DEF Credited, Book!Done
  <2>3. payload[d].type \in {"paid", "refunded"} => Credited(payload[d].deposit)
    BY <2>1 DEF DepositsInv, SettlersKnow
  <2>4. DepositsTyped'
    BY <1>1, <1>2, <2>1 DEF DepositsInv, DepositsTyped, DepositStatuses
  <2>5. Lasting /\ Persisted(payload[d].deposit)'
    BY <1>1, <1>2, <2>1, <2>2, StatusOfOutcome
    DEF Lasting, Persisted, DepositsInv, DepositsTyped
  <2>6. PaidMeansCredited'
    BY <1>2, <2>1, <2>2, <2>3, StatusOfOutcome
    DEF DepositsInv, PaidMeansCredited, DepositsTyped
  <2> QED
    BY <1>1, <1>2, <1>3, <2>1, <2>2, <2>3, <2>4, <2>5, <2>6, GoesOn DEF Found
<1> QED
  BY <1>5, <1>6, <1>7, <1>8

\* resolveRelatedId: a 404, or a deposit that is persisted.
LEMMA ResolveInv ==
  ASSUME DepositsInv, NEW d \in Workers, ResolveDeposit(d)
  PROVE  DepositsInv'
<1>1. at[d] = "resolve" /\ UNCHANGED <<hooks, acked, faults, depositVars>>
  BY DEF ResolveDeposit, Resolve, Goto
<1>2. /\ RowsAreSequences' /\ DepositsTyped'
      /\ \A p \in Payloads : \A i \in 1..Len(hooks[p]) :
           hooks[p][i] = "PROCESSED" /\ p.type = "paid" => Credited(p.deposit)
  BY <1>1
  DEF DepositsInv, RowsAreSequences, AckedMeansCredited, Rows, DepositsTyped, depositVars
<1>3. CASE Persisted(payload[d].deposit)
  <2>1. /\ \E step \in {"create", "settle"} :
             /\ at' = [at EXCEPT ![d] = step]
             /\ step # "create" => row[d] # 0
        /\ UNCHANGED <<payload, row>>
    BY <1>3 DEF ResolveDeposit, Resolve, Goto
  <2>2. Persisted(payload[d].deposit)'
    BY <1>1, <1>3, <2>1 DEF Persisted, depositVars
  <2>3. /\ row' \in [Workers -> Nat]
        /\ row'[d] # 0 => row'[d] \in 1..Len(hooks[payload[d]])
    BY <2>1 DEF DepositsInv, WorkersTyped, WorkersHoldRows
  <2> QED
    BY <1>1, <1>2, <2>1, <2>2, <2>3, NothingLost, GoesOn DEF Found
<1>4. CASE ~ Persisted(payload[d].deposit)
  <2>1. Leave(d)
    BY <1>1, <1>4 DEF ResolveDeposit, Resolve
  <2>2. \A p \in acked' : p.type = "paid" => Credited(p.deposit)
    BY <1>1 DEF DepositsInv, AckedMeansCredited, DepositsTyped
  <2>3. acked' \subseteq Payloads /\ faults' \in 0..MaxFaults
    BY <1>2 DEF DepositsTyped
  <2>4. \A p \in Payloads : Len(hooks'[p]) = Len(hooks[p])
    BY <1>1
  <2> QED
    BY <1>1, <1>2, <2>1, <2>2, <2>3, <2>4, Frees
<1> QED
  BY <1>3, <1>4

\* A settlement that throws claims nothing.
LEMMA ThrowInv ==
  ASSUME DepositsInv, NEW d \in Workers, Throw(d, Settling), UNCHANGED depositVars
  PROVE  DepositsInv'
<1>1. /\ at[d] \in {"settle", "credit", "update"} /\ at' = [at EXCEPT ![d] = "threw"]
      /\ UNCHANGED <<hooks, payload, row, acked>>
      /\ faults < MaxFaults /\ faults' = faults + 1
  BY DEF Throw, Settling
<1>2. faults' \in 0..MaxFaults
  BY <1>1, MaxFaultsAssumption DEF DepositsInv, DepositsTyped
<1>3. DepositsTyped' /\ Persisted(payload[d].deposit)'
  BY <1>1, <1>2
  DEF DepositsInv, DepositsTyped, FoundIsPersisted, Found, Persisted, depositVars
<1>4. /\ row' \in [Workers -> Nat] /\ \A c \in Workers \ {d} : row'[c] = row[c]
      /\ row'[d] \in 1..Len(hooks[payload[d]]) /\ row'[d] # 0
  BY <1>1, WorkerFacts DEF DepositsInv, WorkersTyped, Found
<1> QED
  BY <1>1, <1>3, <1>4, NothingLost, GoesOn DEF Found

\* Webhooks, polls and the administrator's reprocessing bring payloads in.
LEMMA ArrivalsInv ==
  ASSUME DepositsInv, NEW d \in Workers,
         \/ \E p \in Deposit, o \in Outcomes : Notify(d, p, o) \/ Poll(d, p, o)
         \/ \E p \in Payloads : \E i \in Rows(p) :
              Reprocess(d, p, i) /\ UNCHANGED depositVars
  PROVE  DepositsInv'
<1>1. ASSUME NEW p \in Deposit, NEW o \in Outcomes, NEW from \in {"gateway", "poll"},
             o \in outcome[p],
             Deliver(d, [deposit |-> p, type |-> o, from |-> from]),
             UNCHANGED depositVars
      PROVE  DepositsInv'
  <2> DEFINE body == [deposit |-> p, type |-> o, from |-> from]
  <2>1. body \in Payloads
    BY <1>1, PayloadsAssumption DEF Payload, DepositsInv, DepositsTyped
  <2> HIDE DEF body
  <2>2. /\ at[d] = "idle" /\ at' = [at EXCEPT ![d] = "find"]
        /\ payload' = [payload EXCEPT ![d] = body]
        /\ UNCHANGED <<hooks, row, acked, faults>>
    BY <1>1 DEF Deliver, body
  <2>3. row[d] = 0 /\ row' = [row EXCEPT ![d] = 0]
    BY <2>2 DEF DepositsInv, WorkersHoldRows, WorkersTyped
  <2>4. UNCHANGED depositVars
    BY <1>1
  <2> QED
    <3> SUFFICES \E step \in {"find", "settle"}, i \in Nat :
          /\ at' = [at EXCEPT ![d] = step]
          /\ row' = [row EXCEPT ![d] = i]
          /\ i # 0 => i \in 1..Len(hooks[body])
          /\ step = "settle" => i # 0
      BY <2>1, <2>2, <2>4, Starts
    <3> WITNESS "find" \in {"find", "settle"}, 0 \in Nat
    <3> QED
      BY <2>2, <2>3
<1>2. ASSUME NEW p \in Payloads, NEW i \in Rows(p), Reprocess(d, p, i),
             UNCHANGED depositVars
      PROVE  DepositsInv'
  <2>1. i \in 1..Len(hooks[p]) /\ i \in Nat /\ i # 0
    BY DEF DepositsInv, RowsAreSequences, Rows
  <2> QED
    BY <1>2, <2>1, Starts DEF Reprocess
<1> QED
  BY <1>1, <1>2 DEF Notify, Poll

\* Every step of the service, of its gateways and of its faults.
LEMMA DepositsStepInv == DepositsInv /\ [Next]_vars => DepositsInv'
<1> SUFFICES ASSUME DepositsInv, [Next]_vars PROVE DepositsInv'
  OBVIOUS
<1>1. ASSUME NEW p \in Deposit,
             \/ Charge(p) \/ Persist(p) \/ LoseCharge(p)
             \/ \E o \in Outcomes : GatewayDecides(p, o)
      PROVE  DepositsInv'
  BY <1>1, DepositStepsInv
<1>2. ASSUME NEW d \in Workers,
             \/ \E p \in Deposit, o \in Outcomes : Notify(d, p, o) \/ Poll(d, p, o)
             \/ \E p \in Payloads : \E i \in Rows(p) :
                  Reprocess(d, p, i) /\ UNCHANGED depositVars
      PROVE  DepositsInv'
  BY <1>2, ArrivalsInv
<1>3. ASSUME NEW d \in Workers, Work(d) PROVE DepositsInv'
  BY <1>3, AnswersInv, RecordsInv, FindsInv, CreateRowInv, ResolveInv, SettlesInv
  DEF Work, Dispatch
<1>4. ASSUME NEW d \in Workers, Fault(d) PROVE DepositsInv'
  BY <1>4, ThrowInv, AnswersInv DEF Fault
<1>5. CASE UNCHANGED vars
  BY <1>5
  DEF vars, hookVars, depositVars, DepositsInv, RowsAreSequences, WorkersTyped,
      WorkersHoldRows, DepositsTyped, FoundIsPersisted, Persisted, SettlersKnow,
      PaidMeansCredited, AckedMeansCredited, Credited, Book!Done, Rows
<1> QED
  BY <1>1, <1>2, <1>3, <1>4, <1>5 DEF Next
-----------------------------------------------------------------------------
\* The gateway said of a charge what a payload says.
Reported(p) == p.type \in outcome[p.deposit]

\* Only what was reported comes in, and only what was reported paid is credited.
ReportsInv ==
  /\ \A p \in Deposit : Credited(p) => "paid" \in outcome[p]
  /\ \A p \in Payloads : hooks[p] # << >> => Reported(p)
  /\ \A d \in Workers, p \in Payloads : payload[d] = p =>
       Reported(p) /\ (at[d] = "credit" => p.type = "paid")

CreditsOf(u) == {p \in Deposit : User[p] = u /\ Credited(p)}

\* Each wallet is the sum of the deposits credited to it.
WalletsInv ==
  /\ balance \in [Users -> [{"main", "locked", "bonus"} -> Nat]]
  /\ \A u \in Users : /\ Summable(CreditsOf(u), Amount)
                      /\ balance[u].main = Total(CreditsOf(u), Amount)

\* A deposit is credited when its key is spent.
LEMMA CreditedIsSpent ==
  ASSUME NEW p
  PROVE  /\ Credited(p) <=> <<<<"confirm", p>>, "only">> \in posted
         /\ Credited(p)' <=> <<<<"confirm", p>>, "only">> \in posted'
         /\ Book!KeysOf(Confirm(p)) = {<<<<"confirm", p>>, "only">>}
BY DEF Credited, Book!Done, Book!KeysOf, Book!LegsOf, Book!KeyOf, Confirm

\* A credit posted once, now or before, spends no key but its own.
LEMMA CreditSpends ==
  ASSUME NEW p, Book!PostOnce(Confirm(p))
  PROVE  posted' = posted \union {<<<<"confirm", p>>, "only">>}
BY CreditedIsSpent DEF Book!PostOnce, Book!Post, Book!Done, Book!bookVars

\* What the steps of one worker leave of what was reported.
KeepsReports(d) ==
  /\ \A p \in Payloads : hooks[p] = << >> /\ hooks'[p] # << >> => payload[d] = p
  /\ \A c \in Workers : payload'[c] \in {payload[c], NoPayload}
  /\ \A c \in Workers : at'[c] = "credit" /\ payload'[c] = payload[c] =>
       at[c] = "credit" \/ payload[c].type = "paid"

\* What a worker does keeps what every deposit has been reported as.
LEMMA WorkerKeepsReports ==
  ASSUME DepositsInv, NEW d \in Workers, Work(d) \/ Fault(d)
  PROVE  KeepsReports(d)
<1>0. /\ at \in [Workers -> WorkerSteps]
      /\ payload \in [Workers -> Payloads \union {NoPayload}]
      /\ hooks \in [Payloads -> Seq(RowStatus)]
  BY DEF DepositsInv, WorkersTyped, RowsAreSequences
<1>1. ASSUME NEW step, Goto(d, step), step = "credit" => payload[d].type = "paid"
      PROVE  KeepsReports(d)
  BY <1>0, <1>1 DEF Goto, KeepsReports
<1>2. ASSUME Leave(d), \A p \in Payloads : hooks[p] = << >> => hooks'[p] = << >>
      PROVE  KeepsReports(d)
  BY <1>0, <1>2 DEF Leave, KeepsReports
<1>3. CASE SettleRead(d) \/ SettleCredit(d) \/ SettleRefused(d) \/ SettleUpdate(d)
  BY <1>1, <1>3 DEF SettleRead, SettleCredit, SettleRefused, SettleUpdate
<1>4. CASE ResolveDeposit(d)
  BY <1>1, <1>2, <1>4 DEF ResolveDeposit, Resolve
<1>5. CASE FindProcessed(d) \/ AdoptProcessed(d) \/ Die(d)
  BY <1>2, <1>5 DEF FindProcessed, AdoptProcessed, Answer200, Die
<1>6. CASE Record(d) \/ RecordError(d)
  <2>1. Leave(d) /\ at[d] \in {"settled", "threw"}
    BY <1>6 DEF Record, RecordError
  <2>2. payload[d] \in Payloads /\ row[d] \in 1..Len(hooks[payload[d]])
    BY <2>1, WorkerFacts DEF Found
  <2>3. \A p \in Payloads : hooks[p] = << >> => hooks'[p] = << >>
    <3>1. hooks[payload[d]] # << >>
      BY <1>0, <2>2
    <3>2. \A p \in Payloads : p # payload[d] => hooks'[p] = hooks[p]
      BY <1>0, <1>6 DEF Record, RecordError
    <3> QED
      BY <3>1, <3>2
  <2> QED
    BY <1>2, <2>1, <2>3
<1>7. CASE Find(d) \/ Adopt(d) \/ Throw(d, Settling)
  BY <1>0, <1>7 DEF Find, Adopt, Throw, KeepsReports
<1>8. CASE CreateRow(d)
  <2>1. payload[d] \in Payloads
    BY <1>8, WorkerFacts DEF CreateRow
  <2> QED
    BY <1>0, <1>8, <2>1 DEF CreateRow, KeepsReports
<1> QED
  BY <1>3, <1>4, <1>5, <1>6, <1>7, <1>8 DEF Work, Dispatch, Fault

\* Only the credit of a worker that reached it spends a key.
LEMMA WorkerCredits ==
  ASSUME NEW d \in Workers, Work(d) \/ Fault(d)
  PROVE  /\ outcome' = outcome
         /\ \/ posted' = posted
            \/ at[d] = "credit" /\ Book!PostOnce(Confirm(payload[d].deposit))
BY DEF Work, Fault, ResolveDeposit, SettleRead, SettleCredit, SettleRefused, SettleUpdate,
       depositVars

\* What a gateway reported it reported, and nothing else is acted upon.
LEMMA ReportsStep == DepositsInv /\ ReportsInv /\ [Next]_vars => ReportsInv'
<1> SUFFICES ASSUME DepositsInv, ReportsInv, [Next]_vars PROVE ReportsInv'
  OBVIOUS
<1>1. \A p \in Payloads : p.deposit \in Deposit
  BY PayloadParts
<1>2. \A p \in Payloads : p # NoPayload
  BY NoPayloadAssumption
<1>3. CASE UNCHANGED <<hooks, at, payload, posted>>
           /\ \A p \in Deposit : outcome[p] \subseteq outcome'[p]
  BY <1>1, <1>3, CreditedIsSpent DEF ReportsInv, Reported
<1>4. ASSUME NEW p \in Deposit,
             \/ Charge(p) \/ Persist(p) \/ LoseCharge(p)
             \/ \E o \in Outcomes : GatewayDecides(p, o)
      PROVE  ReportsInv'
  BY <1>3, <1>4
  DEF Charge, Persist, LoseCharge, GatewayDecides, hookVars, DepositsInv, DepositsTyped
<1>5. ASSUME NEW d \in Workers, NEW p \in Payloads, Reported(p),
             at[d] = "idle", NEW step \in {"find", "settle"},
             at' = [at EXCEPT ![d] = step], payload' = [payload EXCEPT ![d] = p],
             hooks' = hooks, UNCHANGED depositVars
      PROVE  ReportsInv'
  BY <1>5, CreditedIsSpent
  DEF ReportsInv, Reported, depositVars, DepositsInv, WorkersTyped
<1>6. ASSUME NEW d \in Workers, NEW p \in Deposit, NEW o \in Outcomes,
             Notify(d, p, o) \/ Poll(d, p, o)
      PROVE  ReportsInv'
  <2>1. PICK body \in Payload :
          /\ body.deposit = p /\ body.type = o /\ o \in outcome[p]
          /\ Deliver(d, body) /\ UNCHANGED depositVars
    <3>1. o \in outcome[p] => o \in UNION Histories
      BY DEF DepositsInv, DepositsTyped
    <3> QED
      BY <1>6, <3>1 DEF Notify, Poll, Payload
  <2> QED
    BY <1>5, <2>1, PayloadsAssumption DEF Deliver, Reported
<1>7. ASSUME NEW d \in Workers, NEW p \in Payloads, NEW i \in Rows(p),
             Reprocess(d, p, i), UNCHANGED depositVars
      PROVE  ReportsInv'
  <2>1. hooks[p] # << >>
    BY DEF Rows
  <2> QED
    BY <1>5, <1>7, <2>1 DEF Reprocess, ReportsInv
<1>8. ASSUME NEW d \in Workers, Work(d) \/ Fault(d)
      PROVE  ReportsInv'
  <2>1. /\ outcome' = outcome /\ KeepsReports(d)
        /\ \/ posted' = posted
           \/ at[d] = "credit" /\ Book!PostOnce(Confirm(payload[d].deposit))
    BY <1>8, WorkerCredits, WorkerKeepsReports
  <2>2. \A p \in Deposit : Credited(p)' => "paid" \in outcome'[p]
    <3>1. CASE posted' = posted
      BY <2>1, <3>1, CreditedIsSpent DEF ReportsInv
    <3>2. CASE at[d] = "credit" /\ Book!PostOnce(Confirm(payload[d].deposit))
      <4>1. "paid" \in outcome[payload[d].deposit]
        BY <3>2, WorkerFacts DEF ReportsInv, Reported
      <4>2. posted' = posted \union {<<<<"confirm", payload[d].deposit>>, "only">>}
        BY <3>2, CreditSpends
      <4> QED
        BY <2>1, <4>1, <4>2, CreditedIsSpent DEF ReportsInv
    <3> QED
      BY <2>1, <3>1, <3>2
  <2>3. \A p \in Payloads : hooks'[p] # << >> => Reported(p)'
    BY <2>1 DEF ReportsInv, Reported, KeepsReports
  <2>4. \A c \in Workers, p \in Payloads : payload'[c] = p =>
          Reported(p)' /\ (at'[c] = "credit" => p.type = "paid")
    BY <1>2, <2>1 DEF ReportsInv, Reported, KeepsReports
  <2> QED
    BY <2>2, <2>3, <2>4 DEF ReportsInv
<1>9. CASE UNCHANGED vars
  BY <1>3, <1>9 DEF vars, hookVars, depositVars
<1> QED
  BY <1>4, <1>6, <1>7, <1>8, <1>9 DEF Next

\* A credit is added to its player's wallet, and to that wallet's deposits.
LEMMA CreditAddsUp ==
  ASSUME WalletsInv, NEW p \in Deposit, ~ Credited(p), Book!PostOnce(Confirm(p))
  PROVE  WalletsInv'
<1>1. Book!Post(Confirm(p))
  BY DEF Credited, Book!PostOnce
<1>2. posted' = posted \union {<<<<"confirm", p>>, "only">>}
  BY CreditSpends
<1>3. User[p] \in Users /\ Amount[p] \in Nat
  BY AmountsAssumption DEF Users
<1>4. \A u \in Users : balance[u].main \in Nat /\ balance[u].locked \in Nat
                       /\ balance[u].bonus \in Nat
  BY DEF WalletsInv
<1>5. balance' = [u \in Users |-> [b \in {"main", "locked", "bonus"} |->
                    IF u = User[p] /\ b = "main" THEN balance[u][b] + Amount[p]
                    ELSE balance[u][b]]]
  <2>1. balance' = Book!Applied(Confirm(p), balance)
    BY <1>1 DEF Book!Post
  <2>2. \A u \in Users, b \in {"main", "locked", "bonus"} : balance[u][b] \in Nat
    BY DEF WalletsInv
  <2> QED
    BY <1>3, <2>1, <2>2 DEF Book!Applied, Book!Gets, Book!Pays, Book!Buckets, Confirm
<1>6. CreditsOf(User[p])' = CreditsOf(User[p]) \union {p} /\ p \notin CreditsOf(User[p])
  BY <1>2, CreditedIsSpent DEF CreditsOf
<1>7. \A u \in Users : u # User[p] => CreditsOf(u)' = CreditsOf(u)
  BY <1>2, CreditedIsSpent DEF CreditsOf
<1>8. /\ Summable(CreditsOf(User[p])', Amount)
      /\ Total(CreditsOf(User[p])', Amount) = Total(CreditsOf(User[p]), Amount) + Amount[p]
  BY <1>3, <1>6, TotalGrows DEF WalletsInv
<1>9. balance' \in [Users -> [{"main", "locked", "bonus"} -> Nat]]
  BY <1>3, <1>4, <1>5
<1>10. ASSUME NEW u \in Users
       PROVE  Summable(CreditsOf(u)', Amount) /\ balance'[u].main = Total(CreditsOf(u)', Amount)
  <2>1. CASE u = User[p]
    BY <1>5, <1>8, <2>1 DEF WalletsInv
  <2>2. CASE u # User[p]
    BY <1>5, <1>7, <2>2 DEF WalletsInv
  <2> QED
    BY <2>1, <2>2
<1> QED
  BY <1>9, <1>10 DEF WalletsInv, Summable, Total, CentsOf

\* A step that posts nothing leaves the wallets as they are.
LEMMA WalletsUntouched ==
  ASSUME WalletsInv, UNCHANGED <<balance, posted>>
  PROVE  WalletsInv'
<1>1. \A u \in Users : CreditsOf(u)' = CreditsOf(u)
  BY CreditedIsSpent DEF CreditsOf
<1> QED
  BY <1>1 DEF WalletsInv, Summable, Total, CentsOf

\* Only a credit moves money, and it does so once.
LEMMA WalletsStep == DepositsInv /\ WalletsInv /\ [Next]_vars => WalletsInv'
<1> SUFFICES ASSUME DepositsInv, WalletsInv, [Next]_vars PROVE WalletsInv'
  OBVIOUS
<1>1. \/ UNCHANGED <<balance, posted>>
      \/ \E d \in Workers : SettleCredit(d)
  BY DEF Next, Charge, Persist, LoseCharge, GatewayDecides, Notify, Poll, Work, Fault,
         ResolveDeposit, SettleRead, SettleRefused, SettleUpdate, vars, depositVars
<1>2. ASSUME NEW d \in Workers, SettleCredit(d)
      PROVE  WalletsInv'
  <2>1. payload[d].deposit \in Deposit
    BY <1>2, WorkerFacts DEF SettleCredit
  <2>2. Book!PostOnce(Confirm(payload[d].deposit))
    BY <1>2 DEF SettleCredit
  <2>3. Credited(payload[d].deposit) => UNCHANGED <<balance, posted>>
    BY <2>2 DEF Credited, Book!PostOnce, Book!bookVars
  <2> QED
    BY <2>1, <2>2, <2>3, CreditAddsUp, WalletsUntouched
<1> QED
  BY <1>1, <1>2, WalletsUntouched

\* At first nothing was reported and nothing credited.
LEMMA InitReportsAndWallets == Init => ReportsInv /\ WalletsInv
<1> SUFFICES ASSUME Init PROVE ReportsInv /\ WalletsInv
  OBVIOUS
<1> USE DEF Init, WebhooksInit, Book!Init
<1>1. \A p \in Deposit : ~ Credited(p)
  BY CreditedIsSpent
<1>2. \A u \in Users : CreditsOf(u) = {}
  BY <1>1 DEF CreditsOf
<1>3. ReportsInv
  BY <1>1, NoPayloadAssumption DEF ReportsInv
<1> QED
  BY <1>2, <1>3, TotalOfNone DEF WalletsInv
-----------------------------------------------------------------------------
\* The inductive invariant holds whatever the gateways send and whatever dies.
THEOREM DepositsInvariance == Spec => []DepositsInv
BY InitDepositsInv, DepositsStepInv, PTL DEF Spec

\* Workers, rows and deposits keep their types, and no settlement is under way
\* of a deposit that has no row.
THEOREM DepositsAreTyped == Spec => []TypeOK
BY DepositsInvariance, PartsMakeTypeOK, PTL

\* A deposit shown as paid, or as refunded, has had its money credited, although
\* the credit and the update are separate statements any number of workers may
\* race to.
THEOREM PaidDepositsAreCredited == Spec => []PaidMeansCredited
<1>1. DepositsInv => PaidMeansCredited
  BY DEF DepositsInv
<1> QED
  BY <1>1, DepositsInvariance, PTL

\* A gateway that was answered with a 200 has had its payment credited.
THEOREM AnsweredPaymentsAreCredited == Spec => []AckedMeansCredited
<1>1. DepositsInv => AckedMeansCredited
  BY DEF DepositsInv
<1> QED
  BY <1>1, DepositsInvariance, PTL

\* Nothing is credited that its gateway did not report paid, and every wallet
\* is, to the cent, the sum of the deposits credited to it.
THEOREM WalletsHoldPaidDeposits == Spec => []WalletHoldsPaidDeposits
<1>1. Init => DepositsInv /\ ReportsInv /\ WalletsInv
  BY InitDepositsInv, InitReportsAndWallets
<1>2. DepositsInv /\ ReportsInv /\ WalletsInv /\ [Next]_vars
        => DepositsInv' /\ ReportsInv' /\ WalletsInv'
  BY DepositsStepInv, ReportsStep, WalletsStep
<1>3. ReportsInv /\ WalletsInv => WalletHoldsPaidDeposits
  BY DEF ReportsInv, WalletsInv, WalletHoldsPaidDeposits, CreditsOf
<1> QED
  BY <1>1, <1>2, <1>3, PTL DEF Spec
=============================================================================
