----------------------------- MODULE WalletOps -----------------------------
(***************************************************************************)
(* What one wallet movement does, independently of how it is scheduled:    *)
(* the money it moves, the bucket that must fund it, the idempotency keys  *)
(* of the rows it writes and the pair of ledger accounts it books.  Both   *)
(* the promise (MoneyBook) and the locked transactions that implement it   *)
(* (Wallet) are built from these operators.                                *)
(*                                                                         *)
(* A movement is a record                                                  *)
(*   kind     credit | debit | lock | unlock | transfer | intent           *)
(*            (refund is a credit; adjust is a credit or a debit according *)
(*            to its sign; intent is initiateDeposit)                      *)
(*   type     "REVERSAL" for reverse(), "MOVE" for everything else         *)
(*   user     the wallet moved; to: the receiving wallet of a transfer     *)
(*   account  the bucket a credit or a debit moves                         *)
(*   amount   cents, positive                                              *)
(*   key      the caller's idempotency key                                 *)
(***************************************************************************)
EXTENDS Integers

CONSTANTS
  Users,    \* wallet owners
  Calls,    \* calls of WalletService methods; a call names the rows it writes
  Request,  \* the movements callers ask for
  MaxInt    \* the largest value of a Postgres Int column

Buckets == {"main", "locked", "bonus"}
Balances == [Buckets -> Int]
Sides == {"only", "debit", "credit"}

\* A wallet_transactions row is named by the call that wrote it and its side.
RowId == Calls \X Sides

ReversalKey(id) == <<"reverse", id>>

\* Every movement reverse() can derive from a committed row.
Reversals ==
  { [kind |-> k, type |-> "REVERSAL", user |-> u, to |-> u, account |-> b,
     amount |-> n, key |-> ReversalKey(id)] :
       k \in {"credit", "debit"}, u \in Users, b \in Buckets,
       n \in 1..MaxInt, id \in RowId }

MovementOK(q) ==
  /\ q.kind \in {"credit", "debit", "lock", "unlock", "transfer", "intent"}
  /\ q.type \in {"MOVE", "REVERSAL"}
  /\ q.user \in Users
  /\ q.to \in Users
  /\ q.account \in Buckets
  /\ q.amount \in 1..MaxInt

ASSUME MaxIntAssumption == MaxInt \in Nat \ {0}
ASSUME RequestAssumption ==
  \A q \in Request : MovementOK(q) /\ q.type = "MOVE"

Movements == Request \union Reversals
-----------------------------------------------------------------------------
\* The rows a movement writes: a transfer writes one per wallet.
LegsOf(q) == IF q.kind = "transfer" THEN {"debit", "credit"} ELSE {"only"}

KeyOf(q, side) == <<q.key, side>>
KeysOf(q) == {KeyOf(q, s) : s \in LegsOf(q)}

\* The wallet rows the database transaction locks.
WalletsOf(q) == IF q.kind = "transfer" THEN {q.user, q.to} ELSE {q.user}

\* The bucket a row reports, which is not the only one a lock or unlock moves.
AccountOf(q) ==
  IF q.kind \in {"credit", "debit"} THEN q.account
  ELSE IF q.kind = "lock" THEN "locked" ELSE "main"

LegUser(q, side) == IF side = "credit" THEN q.to ELSE q.user

\* The bucket a movement takes the amount from, and the one it adds it to.
Pays(q, u, b) ==
  /\ u = q.user
  /\ \/ q.kind = "debit" /\ b = q.account
     \/ q.kind \in {"lock", "transfer"} /\ b = "main"
     \/ q.kind = "unlock" /\ b = "locked"

Gets(q, u, b) ==
  \/ q.kind = "credit" /\ u = q.user /\ b = q.account
  \/ q.kind = "lock" /\ u = q.user /\ b = "locked"
  \/ q.kind = "unlock" /\ u = q.user /\ b = "main"
  \/ q.kind = "transfer" /\ u = q.to /\ b = "main"

\* The bucket that pays must already hold the amount.
Affordable(q, w) ==
  \A u \in Users, b \in Buckets : Pays(q, u, b) => w[u][b] >= q.amount

\* The balances after applyDelta.
Applied(q, w) ==
  [u \in Users |-> [b \in Buckets |->
     w[u][b] + (IF Gets(q, u, b) THEN q.amount ELSE 0)
             - (IF Pays(q, u, b) THEN q.amount ELSE 0)]]

\* The database refuses a value outside its Int columns.
Fits(w) == \A u \in Users, b \in Buckets : w[u][b] <= MaxInt
-----------------------------------------------------------------------------
\* The double-entry pair.  Money leaves the debited account.
SystemAccount == <<"system">>
WalletAccount(u, b) == <<"wallet", u, b>>

\* Mutant: an unlock books the pair of a lock's debit side.
DebitAccountOfAnyHold(q) ==
  CASE q.kind = "credit" -> SystemAccount
    [] q.kind = "debit" -> WalletAccount(q.user, q.account)
    [] OTHER -> WalletAccount(q.user, "main")

DebitAccount(q) ==
  CASE q.kind = "credit" -> SystemAccount
    [] q.kind = "debit" -> WalletAccount(q.user, q.account)
    [] q.kind = "unlock" -> WalletAccount(q.user, "locked")
    [] OTHER -> WalletAccount(q.user, "main")

CreditAccount(q) ==
  CASE q.kind = "credit" -> WalletAccount(q.user, q.account)
    [] q.kind = "debit" -> SystemAccount
    [] q.kind = "lock" -> WalletAccount(q.user, "locked")
    [] q.kind = "unlock" -> WalletAccount(q.user, "main")
    [] OTHER -> WalletAccount(q.to, "main")
=============================================================================
