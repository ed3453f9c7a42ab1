------------------------ MODULE CommercialWithdrawals ------------------------
(***************************************************************************)
(* CommercialWithdrawService, and PixKeyService's deletion.  An affiliate  *)
(* or a manager asks for a payout to a PIX key: under an expiring lock the *)
(* key is read, the amount is locked in the wallet, and the row is created *)
(* with a copy of the key.  An administrator's decision swaps the status   *)
(* first and moves the money afterwards.  A key is deleted after a check   *)
(* that no pending row names it; a row cannot name a key that is gone.     *)
(***************************************************************************)
EXTENDS DepositEvents

CONSTANTS
  Payment,   \* commercial withdrawal ids, one per call of request
  Payee,     \* [Payment -> Users]
  Asked,     \* [Payment -> cents]
  PixKeys,   \* the keys registered at first
  PixKeyOf      \* [Payment -> PixKeys]

ASSUME PaymentAssumption ==
  /\ Payee \in [Payment -> Users] /\ PixKeyOf \in [Payment -> PixKeys]
  /\ Asked \in [Payment -> Nat \ {0}]

VARIABLES
  request,   \* where each request stands
  holder,    \* [Users -> the request that holds the user's lock, or None]
  row,       \* CommercialWithdrawStatus, "none" before there is a row
  deciding,  \* the decision whose movement is to come; how it went
  keys,      \* PIX keys that exist
  removing   \* keys a deletion has checked

paymentVars == <<request, holder, row, deciding, keys, removing>>

PaymentStatuses == {"APPROVED", "REJECTED"}

Lock(w) == Movement("lock", "main", Payee[w], Asked[w], <<"commercial-lock", w>>)
PayOut(w) == Movement("debit", "locked", Payee[w], Asked[w], <<"commercial-approve", w>>)
Return(w) == Movement("unlock", "main", Payee[w], Asked[w], <<"commercial-unlock", w>>)

Settlement(w, v) == IF v = "APPROVED" THEN PayOut(w) ELSE Return(w)

PaymentsInit ==
  /\ request = [w \in Payment |-> "new"]
  /\ holder = [u \in Users |-> None]
  /\ row = [w \in Payment |-> "none"]
  /\ deciding = [w \in Payment |-> "none"]
  /\ keys = PixKeys
  /\ removing = {}
-----------------------------------------------------------------------------
Advance(w, s) == request' = [request EXCEPT ![w] = s]

\* A second request while the lock is held is refused at once.
AskPayment(w) ==
  /\ request[w] = "new"
  /\ IF holder[Payee[w]] # None THEN Advance(w, "ended") /\ UNCHANGED holder
     ELSE /\ holder' = [holder EXCEPT ![Payee[w]] = w]
          /\ Advance(w, IF PixKeyOf[w] \in keys THEN "lock" ELSE "release")
  /\ UNCHANGED <<row, deciding, keys, removing, moneyVars, busVars>>

LockAmount(w) ==
  /\ request[w] = "lock"
  /\ \/ Book!PostOnce(Lock(w)) /\ Advance(w, "file")
     \/ Book!Refused(Lock(w)) /\ Advance(w, "release") /\ UNCHANGED moneyVars
  /\ UNCHANGED <<holder, row, deciding, keys, removing, busVars>>

\* The foreign key refuses a row whose PIX key was deleted meanwhile.
FileRow(w) ==
  /\ request[w] = "file"
  /\ row' = [row EXCEPT ![w] = IF PixKeyOf[w] \in keys THEN "PENDING" ELSE @]
  /\ Advance(w, "release")
  /\ UNCHANGED <<holder, deciding, keys, removing, moneyVars, busVars>>

\* Any other failure of the create: the lock is released on the way out, and
\* the amount stays locked in the wallet.
CreateThrows(w) ==
  /\ request[w] = "file"
  /\ Fault
  /\ Advance(w, "throw")
  /\ UNCHANGED <<holder, row, deciding, keys, removing, moneyVars, published, inbox>>

ReleaseLock(w) ==
  /\ request[w] \in {"release", "throw"}
  /\ holder' = [holder EXCEPT ![Payee[w]] = IF @ = w THEN None ELSE @]
  /\ Advance(w, IF request[w] = "throw" THEN "threw" ELSE "ended")
  /\ UNCHANGED <<row, deciding, keys, removing, moneyVars, busVars>>

RequestDies(w) ==
  /\ request[w] \in {"lock", "file", "release", "throw"}
  /\ Fault
  /\ Advance(w, "dead")
  /\ UNCHANGED <<holder, row, deciding, keys, removing, moneyVars, published, inbox>>

\* The lock outlives a dead request, and a live one may outlive it.
LockLapses(u) ==
  /\ holder[u] # None
  /\ IF request[holder[u]] = "dead" THEN UNCHANGED faults ELSE Fault
  /\ holder' = [holder EXCEPT ![u] = None]
  /\ UNCHANGED <<request, row, deciding, keys, removing, moneyVars, published, inbox>>

\* Mutant: the row is updated by its id alone.
DecideById(w, v) ==
  /\ row[w] # "none"
  /\ row' = [row EXCEPT ![w] = v]
  /\ deciding' = [deciding EXCEPT ![w] = v]
  /\ UNCHANGED <<request, holder, keys, removing, moneyVars, busVars>>

\* updateMany where status is PENDING: whoever wins moves the money.
DecidePayment(w, v) ==
  /\ row[w] = "PENDING"
  /\ row' = [row EXCEPT ![w] = v]
  /\ deciding' = [deciding EXCEPT ![w] = v]
  /\ UNCHANGED <<request, holder, keys, removing, moneyVars, busVars>>

\* The movement; attaching its transaction to the row changes nothing else.
MovePayment(w) ==
  /\ deciding[w] \in PaymentStatuses
  /\ \/ /\ Book!PostOnce(Settlement(w, deciding[w]))
        /\ deciding' = [deciding EXCEPT ![w] = "moved"]
     \/ /\ Book!Refused(Settlement(w, deciding[w]))
        /\ deciding' = [deciding EXCEPT ![w] = "refused"]
        /\ UNCHANGED moneyVars
  /\ UNCHANGED <<request, holder, row, keys, removing, busVars>>

DecisionDies(w) ==
  /\ deciding[w] \in PaymentStatuses
  /\ Fault
  /\ deciding' = [deciding EXCEPT ![w] = "dead"]
  /\ UNCHANGED <<request, holder, row, keys, removing, moneyVars, published, inbox>>

\* hasPendingForPixKey, then the delete.
CheckKeyUnused(x) ==
  /\ x \in keys \ removing
  /\ \A w \in Payment : PixKeyOf[w] = x => row[w] # "PENDING"
  /\ removing' = removing \union {x}
  /\ UNCHANGED <<request, holder, row, deciding, keys, moneyVars, busVars>>

DeleteKey(x) ==
  /\ x \in removing
  /\ removing' = removing \ {x}
  /\ keys' = keys \ {x}
  /\ UNCHANGED <<request, holder, row, deciding, moneyVars, busVars>>

PaymentStep(w) ==
  LockAmount(w) \/ FileRow(w) \/ ReleaseLock(w) \/ MovePayment(w)

PaymentsNext ==
  \/ \E w \in Payment :
       \/ AskPayment(w) \/ PaymentStep(w) \/ CreateThrows(w) \/ RequestDies(w)
       \/ DecisionDies(w)
       \/ \E v \in PaymentStatuses : DecidePayment(w, v)
  \/ \E u \in Users : LockLapses(u)
  \/ \E x \in PixKeys : CheckKeyUnused(x) \/ DeleteKey(x)
-----------------------------------------------------------------------------
PaymentsTypeOK ==
  /\ request \in
       [Payment -> {"new", "lock", "file", "release", "throw", "ended", "threw", "dead"}]
  /\ \A u \in Users : holder[u] \in {w \in Payment : Payee[w] = u} \union {None}
  /\ row \in [Payment -> {"none", "PENDING"} \union PaymentStatuses]
  /\ deciding \in
       [Payment -> PaymentStatuses \union {"none", "moved", "refused", "dead"}]
  /\ removing \subseteq keys /\ keys \subseteq PixKeys

Reserved(w) == Book!Done(Lock(w))
Settled(w) == Book!Done(PayOut(w)) \/ Book!Done(Return(w))

\* Of an approval and a rejection only one moves the amount, however many
\* administrators decide at once, and only of a withdrawal that has a row.
SettledOneWay ==
  \A w \in Payment :
    /\ ~ (Book!Done(PayOut(w)) /\ Book!Done(Return(w)))
    /\ Settled(w) => Reserved(w) /\ row[w] \in PaymentStatuses
                     /\ Book!Done(Settlement(w, row[w]))

\* The persisted status always matches the movement that occurred, but for a
\* decision still at work or cut short by a crash.
StatusMatchesMovement ==
  \A w \in Payment :
    row[w] \in PaymentStatuses =>
      Book!Done(Settlement(w, row[w])) \/ deciding[w] \in {row[w], "dead"}

\* Money locked for a withdrawal has a row to be decided by once the request
\* has ended, unless the key it read was deleted before the row was written. A
\* request that died, or that the database threw out of the create, has not.
ReservedIsFiled ==
  \A w \in Payment :
    Reserved(w) /\ request[w] = "ended" => row[w] # "none" \/ PixKeyOf[w] \notin keys
=============================================================================
