------------------------- MODULE MatchEngineProofs -------------------------
(***************************************************************************)
(* MatchEngine, proved for every number of calls, course length, goal,     *)
(* bet, table of payouts and any number of crashes.                        *)
(***************************************************************************)
EXTENDS MatchEngine, TLAPS

Steps == {"idle", "start", "progress", "promote", "forfeit", "cash out", "invalidate",
          "lose", "cancel", "void", "close", "answered", "crashed"}

BetTaken == Book!Done(TakeBet)

\* The type invariant, with the steps spelt out.
MatchTyped ==
  /\ status \in {"NONE", "DEBITED"} \union MatchStatus
  /\ platforms \in 0..MaxPlatforms
  /\ payout \in Nat
  /\ at \in [Calls -> Steps]
  /\ seen \in [Calls -> {"NONE"} \union MatchStatus]
  /\ reached \in [Calls -> 0..MaxPlatforms]
  /\ crashes \in 0..MaxCrashes

\* What a call read, and how far the match can have moved since.
SeenStillHolds ==
  \A c \in Calls :
    /\ at[c] = "start" => seen[c] = "AWAITING_START"
    /\ at[c] \in {"forfeit", "cancel"} => status \in Active \union Terminal
    /\ at[c] \in {"progress", "lose", "invalidate", "void"} =>
         seen[c] \in Playing /\ status \in Playing \union Terminal
    /\ at[c] \in {"cash out", "close"} =>
         /\ seen[c] = "CASHOUT_AVAILABLE" /\ reached[c] >= Goal
         /\ status \in {"CASHOUT_AVAILABLE"} \union Terminal

\* The money a call has moved when it comes to close the row.
MoneyMovedFirst ==
  /\ status # "NONE" => BetTaken
  /\ \A c \in Calls :
       /\ at[c] = "close" => PaidOut
       /\ at[c] \in {"cancel", "void"} => Refunded

MatchInv == MatchTyped /\ SeenStillHolds /\ MoneyMovedFirst /\ OutcomeIsFunded
-----------------------------------------------------------------------------
\* The steps that close the row, and with which outcome.
LEMMA Outcomes ==
  /\ DOMAIN OutcomeOf = {"lose", "cancel", "void", "close"}
  /\ OutcomeOf["lose"] = "LOST" /\ OutcomeOf["cancel"] = "CANCELLED"
  /\ OutcomeOf["void"] = "INVALIDATED" /\ OutcomeOf["close"] = "CASHED_OUT"
BY DEF OutcomeOf

\* The invariant's types are those the runs check.
LEMMA TypedMeansTypeOK == MatchTyped => TypeOK
BY Outcomes DEF MatchTyped, TypeOK, Steps

\* Each movement has a key of its own; what a cash-out pays is not in its key.
KeysOfMoves ==
  /\ Book!KeysOf(TakeBet) = {<<"bet", "only">>}
  /\ Book!KeysOf(RefundBet) = {<<"refund", "only">>}
  /\ \A n \in 0..MaxPlatforms : Book!KeysOf(PayOut(n)) = {<<"payout", "only">>}
  /\ 0 \in 0..MaxPlatforms

\* The keys of matchDebit, matchRefund and matchPayout are what is said above.
LEMMA KeysAreSo == KeysOfMoves
BY GoalAssumption
DEF KeysOfMoves, Book!KeysOf, Book!KeyOf, Book!LegsOf, TakeBet, RefundBet, PayOut, Movement

\* After a wallet call its movement is done, and the others are as they were.
LEMMA TakingTheBet ==
  ASSUME Book!PostOnce(TakeBet)
  PROVE  BetTaken' /\ (PaidOut' <=> PaidOut) /\ (Refunded' <=> Refunded)
<1>1. posted' = posted \union {<<"bet", "only">>}
  BY KeysAreSo DEF KeysOfMoves, Book!PostOnce, Book!Done, Book!Post, Book!bookVars
<1> QED
  BY <1>1, KeysAreSo DEF KeysOfMoves, BetTaken, PaidOut, Refunded, Book!Done

\* The same of a refund.
LEMMA Refunding ==
  ASSUME Book!PostOnce(RefundBet)
  PROVE  Refunded' /\ (PaidOut' <=> PaidOut) /\ (BetTaken' <=> BetTaken)
<1>1. posted' = posted \union {<<"refund", "only">>}
  BY KeysAreSo DEF KeysOfMoves, Book!PostOnce, Book!Done, Book!Post, Book!bookVars
<1> QED
  BY <1>1, KeysAreSo DEF KeysOfMoves, BetTaken, PaidOut, Refunded, Book!Done

\* And of a payout, whatever its amount.
LEMMA Paying ==
  ASSUME NEW n \in 0..MaxPlatforms, Book!PostOnce(PayOut(n))
  PROVE  PaidOut' /\ (Refunded' <=> Refunded) /\ (BetTaken' <=> BetTaken)
<1>1. posted' = posted \union {<<"payout", "only">>}
  BY KeysAreSo DEF KeysOfMoves, Book!PostOnce, Book!Done, Book!Post, Book!bookVars
<1> QED
  BY <1>1, KeysAreSo DEF KeysOfMoves, BetTaken, PaidOut, Refunded, Book!Done

\* Without a wallet call, none is done or undone.
LEMMA NoMoneyMoves ==
  ASSUME UNCHANGED bookVars
  PROVE  /\ BetTaken' <=> BetTaken
         /\ PaidOut' <=> PaidOut
         /\ Refunded' <=> Refunded
BY DEF bookVars, BetTaken, PaidOut, Refunded, Book!Done
-----------------------------------------------------------------------------
\* Before the match is created no money has moved.
LEMMA InitMatchInv == Init => MatchInv
<1> SUFFICES ASSUME Init PROVE MatchInv
  OBVIOUS
<1> USE GoalAssumption, MaxCrashesAssumption DEF Init
<1>1. MatchTyped
  BY DEF MatchTyped, Steps
<1>2. ~ PaidOut
  BY KeysAreSo DEF KeysOfMoves, PaidOut, Book!Done, Book!Init
<1>3. SeenStillHolds /\ MoneyMovedFirst /\ OutcomeIsFunded
  BY <1>2 DEF SeenStillHolds, MoneyMovedFirst, OutcomeIsFunded, MatchStatus, Active, Terminal
<1> QED
  BY <1>1, <1>3 DEF MatchInv

\* create: nobody else knows the match yet.
LEMMA CreateInv ==
  ASSUME MatchInv, Debit \/ Insert \/ Open
  PROVE  MatchInv'
<1> USE DEF MatchInv, callVars
<1>1. status \in {"NONE", "DEBITED", "CREATED"}
  BY DEF Debit, Insert, Open
<1>2. status' \in {"DEBITED", "CREATED", "AWAITING_START"} /\ UNCHANGED <<platforms, payout, callVars, crashes>>
  BY DEF Debit, Insert, Open
<1>3. BetTaken' /\ (PaidOut' <=> PaidOut) /\ (Refunded' <=> Refunded)
  BY TakingTheBet, NoMoneyMoves DEF Debit, Insert, Open, MoneyMovedFirst
<1>4. MatchTyped'
  BY <1>2 DEF MatchTyped, MatchStatus, Active
<1>5. SeenStillHolds'
  BY <1>1, <1>2 DEF SeenStillHolds, MatchTyped, Active, Playing, Terminal, Steps
<1>6. MoneyMovedFirst' /\ OutcomeIsFunded'
  BY <1>2, <1>3 DEF MoneyMovedFirst, OutcomeIsFunded, BetTaken
<1> QED
  BY <1>4, <1>5, <1>6

\* A call reads the row and goes to a step what it read allows.
LEMMA ReadInv ==
  ASSUME MatchInv, NEW c \in Calls,
         NEW next \in {"start", "progress", "lose", "forfeit", "cash out", "invalidate"},
         NEW n \in 0..MaxPlatforms, Read(c, next, n),
         status \in Active,
         next = "start" => status = "AWAITING_START",
         next \in {"progress", "lose", "invalidate"} => status \in Playing,
         next = "cash out" => status = "CASHOUT_AVAILABLE" /\ n >= Goal
  PROVE  MatchInv'
<1> USE DEF MatchInv, Read, matchVars
<1>1. (BetTaken' <=> BetTaken) /\ (PaidOut' <=> PaidOut) /\ (Refunded' <=> Refunded)
  BY NoMoneyMoves
<1>2. MatchTyped'
  BY DEF MatchTyped, Steps, MatchStatus
<1>3. SeenStillHolds'
  BY DEF SeenStillHolds, MatchTyped, Active, Playing, Terminal
<1>4. MoneyMovedFirst'
  BY <1>1 DEF MoneyMovedFirst, MatchTyped
<1>5. OutcomeIsFunded'
  BY <1>1 DEF OutcomeIsFunded, MatchTyped, BetTaken
<1> QED
  BY <1>2, <1>3, <1>4, <1>5

\* begin, reportProgress, resolve and the anti-cheat's flag begin with a read.
LEMMA ReadsInv ==
  ASSUME MatchInv, NEW c \in Calls,
         Begin(c) \/ Report(c) \/ Lose(c) \/ Forfeit(c) \/ CashOut(c) \/ Flag(c)
  PROVE  MatchInv'
<1>1. platforms \in 0..MaxPlatforms /\ \A n \in platforms..MaxPlatforms : n \in 0..MaxPlatforms
  BY GoalAssumption DEF MatchInv, MatchTyped
<1>2. CASE Begin(c)
  BY <1>1, <1>2, ReadInv DEF Begin, Active
<1>3. CASE Report(c)
  BY <1>1, <1>3, ReadInv DEF Report, Active, Playing
<1>4. CASE Lose(c)
  <2>1. status \in Playing
    BY <1>4 DEF Lose, Transitions, Active
  <2> QED
    BY <1>1, <1>4, <2>1, ReadInv DEF Lose, Active, Playing
<1>5. CASE Forfeit(c)
  BY <1>1, <1>5, ReadInv DEF Forfeit
<1>6. CASE CashOut(c)
  BY <1>1, <1>6, ReadInv DEF CashOut, Active
<1>7. CASE Flag(c)
  <2>1. status \in Playing
    BY <1>7 DEF Flag, Transitions, Active
  <2> QED
    BY <1>1, <1>7, <2>1, ReadInv DEF Flag, Active, Playing
<1> QED
  BY <1>2, <1>3, <1>4, <1>5, <1>6, <1>7

\* updateIfStatusIn, whoever calls it: the status is left alone, or changes
\* from an active status by one of TRANSITIONS.
LEMMA WriteIsTransition ==
  ASSUME MatchInv, NEW c \in Calls,
         Start(c) \/ Progress(c) \/ Promote(c) \/ Close(c)
  PROVE  \/ status' = status
         \/ status \in Active /\ <<status, status'>> \in Transitions
<1> USE DEF MatchInv, Swap
<1>1. CASE Start(c)
  BY <1>1 DEF Start, SeenStillHolds, Transitions, Active
<1>2. CASE Progress(c)
  BY <1>2 DEF Progress, SeenStillHolds, Transitions, Active, Playing
<1>3. CASE Promote(c)
  BY <1>3 DEF Promote, Transitions, Active
<1>4. CASE Close(c)
  <2>1. at[c] \in {"lose", "cancel", "void", "close"}
    BY <1>4, Outcomes DEF Close
  <2>2. status \in Active => <<status, OutcomeOf[at[c]]>> \in Transitions
    BY <2>1, Outcomes DEF SeenStillHolds, Transitions, Active, Playing, Terminal
  <2> QED
    BY <1>4, <2>2 DEF Close
<1> QED
  BY <1>1, <1>2, <1>3, <1>4

\* A write that is a transition, and closes the row only after its money.
LEMMA WriteInv ==
  ASSUME MatchInv, NEW c \in Calls, NEW next \in {"promote", "answered"},
         at[c] \notin {"idle", "answered", "crashed"}, at' = [at EXCEPT ![c] = next],
         UNCHANGED <<seen, reached, crashes, bookVars>>,
         platforms' \in 0..MaxPlatforms, payout' \in Nat,
         at[c] = "close" => next = "answered",
         \/ status' = status
         \/ status \in Active /\ <<status, status'>> \in Transitions,
         status' # status /\ status' = "CASHED_OUT" => PaidOut,
         status' # status /\ status' \in {"CANCELLED", "INVALIDATED"} => Refunded
  PROVE  MatchInv'
<1> USE DEF MatchInv
<1>1. (BetTaken' <=> BetTaken) /\ (PaidOut' <=> PaidOut) /\ (Refunded' <=> Refunded)
  BY NoMoneyMoves
<1>2. /\ status' \in {"NONE", "DEBITED"} \union MatchStatus
      /\ status \in Playing \union Terminal => status' \in Playing \union Terminal
      /\ status \in Active \union Terminal => status' \in Active \union Terminal
      /\ status \in {"CASHOUT_AVAILABLE"} \union Terminal =>
           status' \in {"CASHOUT_AVAILABLE"} \union Terminal
      /\ status' # "NONE" => status # "NONE"
  BY DEF MatchTyped, Transitions, MatchStatus, Active, Playing, Terminal
<1>3. MatchTyped'
  BY <1>2 DEF MatchTyped, Steps
<1>4. SeenStillHolds'
  BY <1>2 DEF SeenStillHolds, MatchTyped
<1>5. MoneyMovedFirst'
  BY <1>1, <1>2 DEF MoneyMovedFirst, MatchTyped
<1>6. OutcomeIsFunded'
  <2>1. PaidOut' => \E x \in Calls : at'[x] \in {"close", "answered", "crashed"}
                                     /\ seen'[x] = "CASHOUT_AVAILABLE" /\ reached'[x] >= Goal
    <3> SUFFICES ASSUME PaidOut
                 PROVE  \E x \in Calls : at'[x] \in {"close", "answered", "crashed"}
                                     /\ seen'[x] = "CASHOUT_AVAILABLE" /\ reached'[x] >= Goal
      BY <1>1
    <3>1. PICK x \in Calls : at[x] \in {"close", "answered", "crashed"}
                             /\ seen[x] = "CASHOUT_AVAILABLE" /\ reached[x] >= Goal
      BY DEF OutcomeIsFunded
    <3>2. at'[x] \in {"close", "answered", "crashed"}
      BY <3>1 DEF MatchTyped
    <3> WITNESS x \in Calls
    <3> QED
      BY <3>1, <3>2
  <2>2. /\ status' \in MatchStatus => BetTaken'
        /\ status' = "CASHED_OUT" => PaidOut'
        /\ status' \in {"CANCELLED", "INVALIDATED"} => Refunded'
    BY <1>1, <1>2 DEF OutcomeIsFunded, MoneyMovedFirst, MatchStatus, Active, Terminal
  <2> QED
    BY <2>1, <2>2 DEF OutcomeIsFunded, BetTaken
<1> QED
  BY <1>3, <1>4, <1>5, <1>6

\* The writes of begin, of a report and its promotion, and of an outcome.
LEMMA WritesInv ==
  ASSUME MatchInv, NEW c \in Calls,
         Start(c) \/ Progress(c) \/ Promote(c) \/ Close(c)
  PROVE  MatchInv'
<1> USE DEF Swap, KeptUnlessSwapped, Answer
<1>1. /\ status \in {"NONE", "DEBITED"} \union MatchStatus
      /\ platforms \in 0..MaxPlatforms /\ payout \in Nat
      /\ seen[c] \in {"NONE"} \union MatchStatus
      /\ reached[c] \in 0..MaxPlatforms /\ PayoutAt[reached[c]] \in Nat
  BY PayoutAssumption DEF MatchInv, MatchTyped
<1>2. CASE Start(c)
  <2>1. /\ at[c] = "start" /\ at' = [at EXCEPT ![c] = "answered"]
        /\ UNCHANGED <<seen, reached, crashes, bookVars, platforms, payout>>
        /\ status' = status \/ status' = "IN_PROGRESS"
    BY <1>2 DEF Start
  <2> QED
    BY <1>1, <1>2, <2>1, WriteInv, WriteIsTransition
<1>3. CASE Progress(c)
  <2>1. seen[c] \in Playing
    BY <1>3 DEF Progress, MatchInv, SeenStillHolds
  <2>2. /\ at[c] = "progress"
        /\ \E next \in {"promote", "answered"} : at' = [at EXCEPT ![c] = next]
        /\ UNCHANGED <<seen, reached, crashes, bookVars, payout>>
        /\ platforms' \in 0..MaxPlatforms
        /\ status' = status \/ status' \in Playing
    BY <1>1, <1>3, <2>1 DEF Progress, Playing, Active
  <2>3. status' # status => status' \notin {"CASHED_OUT", "CANCELLED", "INVALIDATED"}
    BY <2>2 DEF Playing, Active
  <2> QED
    BY <1>1, <1>3, <2>2, <2>3, WriteInv, WriteIsTransition
<1>4. CASE Promote(c)
  <2>1. /\ at[c] = "promote" /\ at' = [at EXCEPT ![c] = "answered"]
        /\ UNCHANGED <<seen, reached, crashes, bookVars, platforms, payout>>
        /\ status' = status \/ status' = "CASHOUT_AVAILABLE"
    BY <1>4 DEF Promote
  <2> QED
    BY <1>1, <1>4, <2>1, WriteInv, WriteIsTransition
<1>5. CASE Close(c)
  <2>1. /\ at[c] \in {"lose", "cancel", "void", "close"}
        /\ at' = [at EXCEPT ![c] = "answered"]
        /\ UNCHANGED <<seen, reached, crashes, bookVars>>
        /\ platforms' \in 0..MaxPlatforms /\ payout' \in Nat
        /\ status' = status \/ status' = OutcomeOf[at[c]]
    BY <1>1, <1>5, Outcomes DEF Close
  <2>2. /\ status' # status /\ status' = "CASHED_OUT" => at[c] = "close"
        /\ status' # status /\ status' \in {"CANCELLED", "INVALIDATED"} =>
             at[c] \in {"cancel", "void"}
    BY <2>1, Outcomes
  <2>3. /\ at[c] = "close" => PaidOut
        /\ at[c] \in {"cancel", "void"} => Refunded
    BY DEF MatchInv, MoneyMovedFirst
  <2> QED
    BY <1>5, <2>1, <2>2, <2>3, WriteInv, WriteIsTransition
<1> QED
  BY <1>2, <1>3, <1>4, <1>5

\* The refund of a forfeited or an invalidated match.
LEMMA RefundInv ==
  ASSUME MatchInv, NEW c \in Calls, Refund(c)
  PROVE  MatchInv'
<1> USE DEF MatchInv, matchVars
<1>1. /\ at[c] \in {"forfeit", "invalidate"}
      /\ at' = [at EXCEPT ![c] = IF at[c] = "forfeit" THEN "cancel" ELSE "void"]
      /\ UNCHANGED <<matchVars, seen, reached, crashes>>
  BY DEF Refund
<1>2. Refunded' /\ (PaidOut' <=> PaidOut) /\ (BetTaken' <=> BetTaken)
  BY Refunding DEF Refund
<1>3. MatchTyped' /\ SeenStillHolds'
  BY <1>1 DEF MatchTyped, Steps, SeenStillHolds
<1>4. MoneyMovedFirst'
  BY <1>1, <1>2 DEF MatchTyped, MoneyMovedFirst
<1>5. OutcomeIsFunded'
  BY <1>1, <1>2 DEF MatchTyped, OutcomeIsFunded, BetTaken
<1> QED
  BY <1>3, <1>4, <1>5

\* The payout of a cash-out: from here on some call answers for it.
LEMMA PayInv ==
  ASSUME MatchInv, NEW c \in Calls, Pay(c)
  PROVE  MatchInv'
<1> USE DEF MatchInv, matchVars
<1>1. /\ at[c] = "cash out" /\ at' = [at EXCEPT ![c] = "close"]
      /\ UNCHANGED <<matchVars, seen, reached, crashes>>
      /\ reached[c] \in 0..MaxPlatforms
  BY DEF Pay, MatchTyped
<1>2. PaidOut' /\ (Refunded' <=> Refunded) /\ (BetTaken' <=> BetTaken)
  BY <1>1, Paying DEF Pay
<1>3. MatchTyped' /\ SeenStillHolds'
  BY <1>1 DEF MatchTyped, Steps, SeenStillHolds
<1>4. MoneyMovedFirst'
  BY <1>1, <1>2 DEF MatchTyped, MoneyMovedFirst
<1>5. \E x \in Calls : at'[x] \in {"close", "answered", "crashed"}
                       /\ seen'[x] = "CASHOUT_AVAILABLE" /\ reached'[x] >= Goal
  <2> WITNESS c \in Calls
  <2> QED
    BY <1>1 DEF MatchTyped, SeenStillHolds
<1>6. OutcomeIsFunded'
  BY <1>1, <1>2, <1>5 DEF OutcomeIsFunded, BetTaken
<1> QED
  BY <1>3, <1>4, <1>6

\* A call that dies has moved what it moved.
LEMMA CrashInv ==
  ASSUME MatchInv, NEW c \in Calls, Crash(c)
  PROVE  MatchInv'
<1> USE DEF MatchInv, matchVars, Crash
<1>1. (BetTaken' <=> BetTaken) /\ (PaidOut' <=> PaidOut) /\ (Refunded' <=> Refunded)
  BY NoMoneyMoves
<1>2. MatchTyped'
  <2>1. crashes \in 0..MaxCrashes /\ crashes < MaxCrashes /\ crashes' = crashes + 1
    BY DEF MatchTyped
  <2>2. crashes' \in 0..MaxCrashes
    BY <2>1, MaxCrashesAssumption
  <2>3. at' \in [Calls -> Steps]
    BY DEF MatchTyped, Steps
  <2> QED
    BY <2>2, <2>3 DEF MatchTyped
<1>3. SeenStillHolds' /\ MoneyMovedFirst'
  BY <1>1 DEF MatchTyped, SeenStillHolds, MoneyMovedFirst
<1>4. OutcomeIsFunded'
  BY <1>1 DEF MatchTyped, OutcomeIsFunded, BetTaken
<1> QED
  BY <1>2, <1>3, <1>4

\* A step that changes nothing.
LEMMA StutterInv ==
  ASSUME MatchInv, UNCHANGED vars
  PROVE  MatchInv'
<1>1. (BetTaken' <=> BetTaken) /\ (PaidOut' <=> PaidOut) /\ (Refunded' <=> Refunded)
  BY NoMoneyMoves DEF vars
<1> QED
  BY <1>1 DEF vars, matchVars, callVars, MatchInv, MatchTyped, SeenStillHolds,
              MoneyMovedFirst, OutcomeIsFunded, BetTaken

\* Every step of every call keeps the invariant.
LEMMA MatchStepInv == MatchInv /\ [Next]_vars => MatchInv'
BY CreateInv, ReadsInv, WritesInv, RefundInv, PayInv, CrashInv, StutterInv
DEF Next, Work, Done

\* And writes the status by a transition, create's own writes included.
LEMMA MatchStepIsTransition ==
  ASSUME MatchInv, [Next]_vars, status' # status, status \in MatchStatus
  PROVE  <<status, status'>> \in Transitions
<1>1. CASE Debit \/ Insert \/ Open
  BY <1>1 DEF Debit, Insert, Open, MatchStatus, Active, Terminal, Transitions
<1>2. ASSUME NEW c \in Calls,
             Begin(c) \/ Report(c) \/ Lose(c) \/ Forfeit(c) \/ CashOut(c) \/ Flag(c)
      PROVE  status' = status
  BY <1>2 DEF Begin, Report, Lose, Forfeit, CashOut, Flag, Read, matchVars
<1>3. ASSUME NEW c \in Calls, Refund(c) \/ Pay(c) \/ Crash(c)
      PROVE  status' = status
  BY <1>3 DEF Refund, Pay, Crash, matchVars
<1>4. CASE Done \/ UNCHANGED vars
  BY <1>4 DEF Done, vars, matchVars
<1> QED
  BY <1>1, <1>2, <1>3, <1>4, WriteIsTransition DEF Next, Work
-----------------------------------------------------------------------------
\* The inductive invariant holds however the calls interleave and crash.
THEOREM MatchInvariance == Spec => []MatchInv
BY InitMatchInv, MatchStepInv, PTL DEF Spec

\* The row and the calls keep their types.
THEOREM MatchIsTyped == Spec => []TypeOK
<1>1. MatchInv => TypeOK
  BY TypedMeansTypeOK DEF MatchInv
<1> QED
  BY <1>1, MatchInvariance, PTL

\* A match is cashed out, cancelled or invalidated in the row only after its
\* money moved, and none is paid but by a call that was entitled to it.
THEOREM OutcomesAreFunded == Spec => []OutcomeIsFunded
<1>1. MatchInv => OutcomeIsFunded
  BY DEF MatchInv
<1> QED
  BY <1>1, MatchInvariance, PTL

\* However stale what a call read, what it writes is a transition of the state
\* machine: a match ends once.
THEOREM StatusFollowsTransitions == Spec => WritesAreTransitions
<1>1. MatchInv /\ [Next]_vars =>
        [status' # status /\ status \in MatchStatus => <<status, status'>> \in Transitions]_vars
  BY MatchStepIsTransition
<1> QED
  BY <1>1, MatchInvariance, PTL DEF Spec, WritesAreTransitions
=============================================================================
