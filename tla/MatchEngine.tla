---------------------------- MODULE MatchEngine ----------------------------
(***************************************************************************)
(* MatchEngineService: the life of one match under concurrent API calls.   *)
(* create debits the bet, then inserts the row; every other call reads the *)
(* row, decides from what it read, moves money in a wallet of its own      *)
(* statement, and writes by compare-and-swap on the status.  The wallet is *)
(* the book WalletService implements.  What a client claims and how much   *)
(* time passed are abstracted to the canonical progress a call arrives at, *)
(* any value from the one it read up; the anti-cheat verdict is free.      *)
(***************************************************************************)
EXTENDS Integers, Sequences, FiniteSetsExt

CONSTANTS
  Calls,         \* API calls on the match after its creation
  Goal,          \* platforms at which the target multiplier is reached
  MaxPlatforms,  \* bound on platforms passed
  Bet,           \* cents
  PayoutAt,      \* [0..MaxPlatforms -> cents], what a cash-out there pays
  Funds,         \* the player's balance before the match
  MaxCrashes     \* bound on calls that die half-way

ASSUME GoalAssumption == MaxPlatforms \in Nat /\ Goal \in 1..MaxPlatforms
ASSUME PayoutAssumption == PayoutAt \in [0..MaxPlatforms -> Nat \ {0}]
ASSUME MaxCrashesAssumption == MaxCrashes \in Nat

VARIABLES
  status,    \* MatchStatus; "NONE" and "DEBITED" before there is a row
  platforms, \* platformsPassed
  payout,    \* the payout the row records
  at,        \* where each call stands
  seen,      \* the status each call read
  reached,   \* the canonical progress each call computed
  crashes,
  balance, posted

matchVars == <<status, platforms, payout>>
callVars == <<at, seen, reached>>
bookVars == <<balance, posted>>
vars == <<matchVars, callVars, crashes, bookVars>>

Active == {"AWAITING_START", "IN_PROGRESS", "GOAL_REACHED", "CASHOUT_AVAILABLE"}
Playing == Active \ {"AWAITING_START"}
Terminal == {"CASHED_OUT", "LOST", "CANCELLED", "INVALIDATED"}
MatchStatus == {"CREATED"} \union Active \union Terminal

\* TRANSITIONS
Transitions ==
  {<<"CREATED", "AWAITING_START">>, <<"AWAITING_START", "IN_PROGRESS">>,
   <<"IN_PROGRESS", "GOAL_REACHED">>, <<"GOAL_REACHED", "CASHOUT_AVAILABLE">>,
   <<"CASHOUT_AVAILABLE", "CASHED_OUT">>}
  \union (({"CREATED"} \union Active) \X {"CANCELLED"})
  \union (Playing \X {"LOST", "INVALIDATED"})

\* The wallet calls of PrismaWalletLedger.
Player == "player"
Users == {Player}
Movement(kind, amount, key) ==
  [kind |-> kind, type |-> "MOVE", user |-> Player, to |-> Player,
   account |-> "main", amount |-> amount, key |-> key]
TakeBet == Movement("debit", Bet, "bet")
RefundBet == Movement("credit", Bet, "refund")
PayOut(n) == Movement("credit", PayoutAt[n], "payout")

Book == INSTANCE MoneyBook WITH
  Calls <- {},
  Request <- {TakeBet, RefundBet} \union {PayOut(n) : n \in 0..MaxPlatforms},
  MaxInt <- Funds + Bet + PayoutAt[MaxPlatforms],
  Opening <- [u \in {Player} |-> [b \in {"main", "locked", "bonus"} |->
                                    IF b = "main" THEN Funds ELSE 0]]

PaidOut == Book!Done(PayOut(0))
Refunded == Book!Done(RefundBet)

Init ==
  /\ Book!Init
  /\ status = "NONE"
  /\ platforms = 0
  /\ payout = 0
  /\ at = [c \in Calls |-> "idle"]
  /\ seen = [c \in Calls |-> "NONE"]
  /\ reached = [c \in Calls |-> 0]
  /\ crashes = 0
-----------------------------------------------------------------------------
\* create: the debit, the row, and the plain update that makes it playable.
\* Nobody knows the match's token before create has answered.
Debit ==
  /\ status = "NONE"
  /\ Book!PostOnce(TakeBet)
  /\ status' = "DEBITED"
  /\ UNCHANGED <<platforms, payout, callVars, crashes>>

Insert ==
  /\ status = "DEBITED"
  /\ status' = "CREATED"
  /\ UNCHANGED <<platforms, payout, callVars, crashes, bookVars>>

Open ==
  /\ status = "CREATED"
  /\ status' = "AWAITING_START"
  /\ UNCHANGED <<platforms, payout, callVars, crashes, bookVars>>

\* A call reads the row and decides what to do next.
Read(c, next, n) ==
  /\ at[c] = "idle"
  /\ at' = [at EXCEPT ![c] = next]
  /\ seen' = [seen EXCEPT ![c] = status]
  /\ reached' = [reached EXCEPT ![c] = n]
  /\ UNCHANGED <<matchVars, crashes, bookVars>>

Answer(c) == at' = [at EXCEPT ![c] = "answered"] /\ UNCHANGED <<seen, reached>>

\* updateIfStatusIn: the row changes only if its status is still one of these.
\* A call that loses answers with the winner's row.
Swap(from, new) == status' = IF status \in from THEN new ELSE status
KeptUnlessSwapped(from, var, new) == IF status \in from THEN new ELSE var

\* begin
Begin(c) ==
  /\ status = "AWAITING_START"
  /\ Read(c, "start", platforms)

Start(c) ==
  /\ at[c] = "start"
  /\ Swap({seen[c]}, "IN_PROGRESS")
  /\ Answer(c)
  /\ UNCHANGED <<platforms, payout, crashes, bookVars>>

\* Mutant of Report: the floor at the previous progress is an off-by-one.
ReportBelowFloor(c) ==
  /\ status \in Playing
  /\ \E n \in (platforms - 1)..MaxPlatforms : Read(c, "progress", n)

\* reportProgress: the canonical progress is never below the one it read.
Report(c) ==
  /\ status \in Playing
  /\ \E n \in platforms..MaxPlatforms : Read(c, "progress", n)

\* Mutant of Progress: the write is guarded by any active status.
ProgressOnAnyActive(c) ==
  /\ at[c] = "progress"
  /\ LET next == IF seen[c] = "IN_PROGRESS" /\ reached[c] >= Goal
                 THEN "GOAL_REACHED" ELSE seen[c]
     IN  /\ Swap(Active, next)
         /\ platforms' = KeptUnlessSwapped(Active, platforms, reached[c])
         /\ at' = [at EXCEPT ![c] = IF next = "GOAL_REACHED"
                                   THEN "promote" ELSE "answered"]
  /\ UNCHANGED <<payout, seen, reached, crashes, bookVars>>

\* Mutant of Progress: the promotion is forgotten.
ProgressOnly(c) ==
  /\ at[c] = "progress"
  /\ Swap({seen[c]}, IF seen[c] = "IN_PROGRESS" /\ reached[c] >= Goal
                     THEN "GOAL_REACHED" ELSE seen[c])
  /\ platforms' = KeptUnlessSwapped({seen[c]}, platforms, reached[c])
  /\ Answer(c)
  /\ UNCHANGED <<payout, crashes, bookVars>>

\* A report that leaves the row at its goal promotes it, also when it found it there.
Progress(c) ==
  /\ at[c] = "progress"
  /\ LET next == IF seen[c] = "IN_PROGRESS" /\ reached[c] >= Goal
                 THEN "GOAL_REACHED" ELSE seen[c]
         won == status = seen[c]
     IN  /\ Swap({seen[c]}, next)
         /\ platforms' = KeptUnlessSwapped({seen[c]}, platforms, reached[c])
         /\ at' = [at EXCEPT ![c] = IF won /\ next = "GOAL_REACHED"
                                   THEN "promote" ELSE "answered"]
  /\ UNCHANGED <<payout, seen, reached, crashes, bookVars>>

Promote(c) ==
  /\ at[c] = "promote"
  /\ Swap({"GOAL_REACHED"}, "CASHOUT_AVAILABLE")
  /\ Answer(c)
  /\ UNCHANGED <<platforms, payout, crashes, bookVars>>
-----------------------------------------------------------------------------
\* resolve: a loss, a forfeit, or a cash-out that the progress it arrives at
\* entitles to.
Lose(c) ==
  /\ <<status, "LOST">> \in Transitions
  /\ \E n \in platforms..MaxPlatforms : Read(c, "lose", n)

Forfeit(c) ==
  /\ status \in Active
  /\ \E n \in platforms..MaxPlatforms : Read(c, "forfeit", n)

\* Mutant of CashOut: neither the status nor the multiplier is checked again.
CashOutUnchecked(c) ==
  /\ status \in Playing
  /\ \E n \in platforms..MaxPlatforms : Read(c, "cash out", n)

CashOut(c) ==
  /\ status = "CASHOUT_AVAILABLE"
  /\ \E n \in platforms..MaxPlatforms : n >= Goal /\ Read(c, "cash out", n)

\* Anti-cheat flags a report or a resolve.
Flag(c) ==
  /\ <<status, "INVALIDATED">> \in Transitions
  /\ Read(c, "invalidate", platforms)

\* The money moves first ...
Refund(c) ==
  /\ at[c] \in {"forfeit", "invalidate"}
  /\ Book!PostOnce(RefundBet)
  /\ at' = [at EXCEPT ![c] = IF @ = "forfeit" THEN "cancel" ELSE "void"]
  /\ UNCHANGED <<matchVars, seen, reached, crashes>>

Pay(c) ==
  /\ at[c] = "cash out"
  /\ Book!PostOnce(PayOut(reached[c]))
  /\ at' = [at EXCEPT ![c] = "close"]
  /\ UNCHANGED <<matchVars, seen, reached, crashes>>

\* ... and the row is closed afterwards, from any active status.
OutcomeOf == [lose |-> "LOST", cancel |-> "CANCELLED", void |-> "INVALIDATED",
              close |-> "CASHED_OUT"]

Close(c) ==
  /\ at[c] \in DOMAIN OutcomeOf
  /\ Swap(Active, OutcomeOf[at[c]])
  /\ platforms' = IF at[c] = "void" THEN platforms
                  ELSE KeptUnlessSwapped(Active, platforms, reached[c])
  /\ payout' = KeptUnlessSwapped(Active, payout,
                 IF at[c] = "close" THEN PayoutAt[reached[c]] ELSE 0)
  /\ Answer(c)
  /\ UNCHANGED <<crashes, bookVars>>

\* A call dies between two of its statements.
Crash(c) ==
  /\ at[c] \notin {"idle", "answered", "crashed"}
  /\ crashes < MaxCrashes
  /\ crashes' = crashes + 1
  /\ at' = [at EXCEPT ![c] = "crashed"]
  /\ UNCHANGED <<matchVars, seen, reached, bookVars>>

Work(c) == Start(c) \/ Progress(c) \/ Promote(c) \/ Refund(c) \/ Pay(c) \/ Close(c)

Quiet == \A c \in Calls : at[c] \in {"idle", "answered", "crashed"}

\* The match is over, or every call has been made.
Done ==
  /\ Quiet
  /\ status \in Terminal \/ \A c \in Calls : at[c] # "idle"
  /\ UNCHANGED vars

Next ==
  \/ Debit \/ Insert \/ Open
  \/ \E c \in Calls : \/ Begin(c) \/ Report(c) \/ Lose(c) \/ Forfeit(c)
                      \/ CashOut(c) \/ Flag(c) \/ Work(c) \/ Crash(c)
  \/ Done

Spec == Init /\ [][Next]_vars

\* Calls that were read from run to their answer.
FairSpec == Spec /\ \A c \in Calls : WF_vars(Work(c))
-----------------------------------------------------------------------------
TypeOK ==
  /\ status \in {"NONE", "DEBITED"} \union MatchStatus
  /\ platforms \in 0..MaxPlatforms
  /\ payout \in Nat
  /\ at \in [Calls -> {"idle", "start", "progress", "promote", "forfeit", "cash out",
                       "invalidate", "answered", "crashed"} \union DOMAIN OutcomeOf]
  /\ seen \in [Calls -> {"NONE"} \union MatchStatus]
  /\ reached \in [Calls -> 0..MaxPlatforms]
  /\ crashes \in 0..MaxCrashes

\* The row and the wallet agree on how the match ended: it is closed only
\* after its money moved, and before that no money moves that is not some
\* call's to account for.
OutcomeIsFunded ==
  /\ status \in MatchStatus => Book!Done(TakeBet)
  /\ status = "CASHED_OUT" => PaidOut
  /\ status \in {"CANCELLED", "INVALIDATED"} => Refunded
  /\ PaidOut => \E c \in Calls : at[c] \in {"close", "answered", "crashed"}
                                 /\ seen[c] = "CASHOUT_AVAILABLE" /\ reached[c] >= Goal

\* Although every call tests the status it read and writes later, each write
\* is one of the transitions the state machine allows, and none leaves a
\* terminal status.
WritesAreTransitions ==
  [][status' # status /\ status \in MatchStatus => <<status, status'>> \in Transitions]_vars

\* While a call reports on a match at its goal, the match leaves that state, for
\* the cash-out or for its end, unless the call dies: whoever finds the match
\* there, after another call died, repairs it.
Promoting(c) ==
  at[c] = "promote" \/ (at[c] = "progress" /\ seen[c] = "GOAL_REACHED")

GoalIsPromoted ==
  \A c \in Calls :
    status = "GOAL_REACHED" /\ Promoting(c)
      ~> status # "GOAL_REACHED" \/ at[c] = "crashed"

\* The player's money is what the outcome in the row says: the bet is kept,
\* given back, or paid out at the recorded payout.  Comments of the service
\* count on it however calls race.
MoneyMatchesOutcome ==
  Quiet /\ status \in Terminal =>
    balance[Player].main =
      Funds - Bet + (IF status \in {"CANCELLED", "INVALIDATED"} THEN Bet ELSE payout)
=============================================================================
