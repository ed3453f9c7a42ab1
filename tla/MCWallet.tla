------------------------------ MODULE MCWallet ------------------------------
(***************************************************************************)
(* A small bank: two wallets, and a menu of movements in which two differ  *)
(* only in their key, two share one key, and two transfers go in opposite  *)
(* directions.                                                             *)
(***************************************************************************)
EXTENDS Wallet, TLC

CONSTANTS u1, u2, k1, k2, k3, k4, c1, c2, c3

Mv(kind, user, to, account, amount, key) ==
  [kind |-> kind, type |-> "MOVE", user |-> user, to |-> to,
   account |-> account, amount |-> amount, key |-> key]

MCRank == u1 :> 1 @@ u2 :> 2
MCOpening ==
  u1 :> [b \in Buckets |-> IF b = "main" THEN 1 ELSE 0] @@
  u2 :> [b \in Buckets |-> IF b = "main" THEN 1 ELSE 0]

\* Debits, locks and transfers that compete for one cent, two movements that
\* share a key, transfers that cross, and credits that can fill the column.
MCRequest ==
  { Mv("debit", u1, u1, "main", 1, k1),
    Mv("lock", u1, u1, "main", 1, k2),
    Mv("unlock", u1, u1, "main", 1, k3),
    Mv("credit", u1, u1, "bonus", 2, k1),
    Mv("intent", u1, u1, "main", 1, k4),
    Mv("transfer", u1, u2, "main", 1, k1),
    Mv("transfer", u2, u1, "main", 1, k2) }

CallSymmetry == Permutations(Calls)
=============================================================================
