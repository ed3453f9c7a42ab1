---------------------------- MODULE DepositEvents ----------------------------
(***************************************************************************)
(* The in-process event bus, as far as confirmed deposits use it.  A       *)
(* settlement credits the deposit, updates its row and publishes           *)
(* depositConfirmed; every subscriber gets the event once for each time it *)
(* was published, in an order of its own.  Nothing stores events: what a   *)
(* process has not handled when it dies is gone, and a settlement in the   *)
(* worker process, where nobody subscribed, is never heard.                *)
(* The subscribers and the services beside them move money in one book.    *)
(***************************************************************************)
EXTENDS Integers, Sequences, FiniteSets, Functions

CONSTANTS
  Users,        \* wallet owners
  Deposit,      \* deposit ids
  Player,       \* [Deposit -> Users]
  Paid,         \* [Deposit -> cents]
  Opening,      \* balances brought forward
  MaxInt,       \* the largest value of a Postgres Int column
  Subscribers,  \* services that subscribed to depositConfirmed
  Publications, \* how often settlements that race may publish one deposit
  MaxFaults,    \* bound: crashes
  None

Buckets == {"main", "locked", "bonus"}

ASSUME PlayerAssumption == Player \in [Deposit -> Users]
ASSUME PaidAssumption == Paid \in [Deposit -> Nat \ {0}]
ASSUME PublicationsAssumption == Publications \in Nat \ {0}
ASSUME FaultsAssumption == MaxFaults \in Nat
ASSUME OpeningAssumption ==
  MaxInt \in Nat /\ Opening \in [Users -> [Buckets -> 0..MaxInt]]

VARIABLES
  balance, posted,  \* the wallet's book
  published,        \* times each deposit's confirmation was published
  inbox,            \* events a subscriber has not begun to handle
  faults

busVars == <<published, inbox, faults>>
moneyVars == <<balance, posted>>

Book == INSTANCE MoneyBook WITH Calls <- {}, Request <- {}

Movement(kind, account, user, amount, key) ==
  [kind |-> kind, type |-> "MOVE", user |-> user, to |-> user,
   account |-> account, amount |-> amount, key |-> key]

DepositCredit(d) ==
  Movement("credit", "main", Player[d], Paid[d], <<"deposit-confirm", d>>)

Confirmed(d) == Book!Done(DepositCredit(d))

EventsInit ==
  /\ Book!Init
  /\ published = [d \in Deposit |-> 0]
  /\ inbox = [s \in Subscribers |-> [d \in Deposit |-> 0]]
  /\ faults = 0
-----------------------------------------------------------------------------
CreditDeposit(d) ==
  /\ ~ Confirmed(d)
  /\ Book!PostOnce(DepositCredit(d))
  /\ UNCHANGED busVars

\* Every listener's handler is started; whether it succeeds is not awaited.
Publish(d) ==
  /\ Confirmed(d)
  /\ published[d] < Publications
  /\ published' = [published EXCEPT ![d] = @ + 1]
  /\ inbox' = [s \in Subscribers |-> [inbox[s] EXCEPT ![d] = @ + 1]]
  /\ UNCHANGED <<moneyVars, faults>>

\* A subscriber begins to handle an event.
Take(s, d) ==
  /\ inbox[s][d] > 0
  /\ inbox' = [inbox EXCEPT ![s][d] = @ - 1]
  /\ UNCHANGED published

Fault == faults < MaxFaults /\ faults' = faults + 1

LoseEvent(s, d) ==
  /\ Fault
  /\ Take(s, d)
  /\ UNCHANGED moneyVars

EventsNext ==
  \E d \in Deposit : \/ CreditDeposit(d) \/ Publish(d)
                     \/ \E s \in Subscribers : LoseEvent(s, d)

EventsTypeOK ==
  /\ balance \in [Users -> [Buckets -> 0..MaxInt]]
  /\ published \in [Deposit -> 0..Publications]
  /\ inbox \in [Subscribers -> [Deposit -> 0..Publications]]
  /\ faults \in 0..MaxFaults
=============================================================================
