----------------------------- MODULE MoneyBook -----------------------------
(***************************************************************************)
(* What WalletService promises its callers: a book of balances in which    *)
(* every movement is posted whole or not at all, at most once for each     *)
(* idempotency key, and only if the bucket that pays for it can.  Wallet   *)
(* implements this book; the services that call WalletService are modelled *)
(* on top of it.                                                           *)
(***************************************************************************)
EXTENDS WalletOps

CONSTANT Opening  \* balances brought forward into the book

VARIABLES
  balance,  \* [Users -> [Buckets -> Int]]
  posted    \* the idempotency keys already spent

bookVars == <<balance, posted>>

Init ==
  /\ balance = Opening
  /\ posted = {}

Post(q) ==
  /\ posted' = posted \union KeysOf(q)
  /\ KeysOf(q) \intersect posted = {}
  /\ Affordable(q, balance)
  /\ balance' = Applied(q, balance)
  /\ Fits(balance')

Next == \E q \in Movements : Post(q)

Spec == Init /\ [][Next]_bookVars
-----------------------------------------------------------------------------
\* What a caller sees of one call: a movement already posted is replayed, one
\* that is not is posted, and one the book cannot carry out is refused.
Done(q) == KeysOf(q) \subseteq posted

PostOnce(q) == IF Done(q) THEN UNCHANGED bookVars ELSE Post(q)

Refused(q) ==
  /\ ~ Done(q)
  /\ ~ (Affordable(q, balance) /\ Fits(Applied(q, balance)))
=============================================================================
