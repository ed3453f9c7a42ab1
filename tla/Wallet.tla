------------------------------- MODULE Wallet -------------------------------
(***************************************************************************)
(* WalletService over PrismaWalletRepository: concurrent calls, each one   *)
(* database transaction that looks its idempotency key up before taking    *)
(* any lock, locks the wallet rows it needs in a fixed order, checks the   *)
(* funds against the balances it read under the lock, inserts its rows     *)
(* against the unique index on the key, and commits.  A call that loses    *)
(* the race for its key rolls back and answers with the winner's rows.     *)
(* A process may die at any step before the commit; its database session   *)
(* rolls back and its locks are released.                                  *)
(***************************************************************************)
EXTENDS WalletOps, Cents

CONSTANTS
  Opening,  \* balances of the wallets when the observation starts
  Rank,     \* lexicographic rank of each user id
  NoCall    \* "no transaction holds this row"

ASSUME OpeningAssumption == Opening \in [Users -> [Buckets -> 0..MaxInt]]
ASSUME RankAssumption ==
  /\ Rank \in [Users -> Nat]
  /\ \A u, v \in Users : Rank[u] = Rank[v] => u = v
ASSUME NoCallAssumption == NoCall \notin Calls
ASSUME RequestKeyAssumption ==
  \A q \in Request, id \in RowId : q.key # ReversalKey(id)

VARIABLES
  wallet,    \* committed balances
  rows,      \* committed wallet_transactions
  ledger,    \* committed ledger entries
  pc,        \* where each call stands
  req,       \* the movement each call carries out
  owner,     \* the call whose open transaction holds a wallet row
  snapshot,  \* balances read by SELECT ... FOR UPDATE
  inserted   \* sides of its rows a call inserted and did not commit

vars == <<wallet, rows, ledger, pc, req, owner, snapshot, inserted>>

Answered == {"moved", "replayed", "failed", "crashed"}
InTransaction == {"acquire", "move", "insert", "commit"}
Working == {"find", "recover"} \union InTransaction

NoMovement == [kind |-> "none"]

CommittedKeys == {r.key : r \in rows}
Holding(c) == {u \in Users : owner[u] = c}
RowsBy(c) == {r \in rows : r.id[1] = c}
EntriesBy(c) == {e \in ledger : e.id = c}
PendingKeys(c) == {KeyOf(req[c], s) : s \in inserted[c]}

Init ==
  /\ wallet = Opening
  /\ rows = {}
  /\ ledger = {}
  /\ pc = [c \in Calls |-> "idle"]
  /\ req = [c \in Calls |-> NoMovement]
  /\ owner = [u \in Users |-> NoCall]
  /\ snapshot = [c \in Calls |-> Opening]
  /\ inserted = [c \in Calls |-> {}]
-----------------------------------------------------------------------------
\* A caller invokes credit, debit, refund, adjust, lock, unlock, transfer or
\* initiateDeposit.
Begin(c, q) ==
  /\ pc[c] = "idle"
  /\ pc' = [pc EXCEPT ![c] = "find"]
  /\ req' = [req EXCEPT ![c] = q]
  /\ UNCHANGED <<wallet, rows, ledger, owner, snapshot, inserted>>

\* reverse(): the opposite of a committed row on that row's own bucket.  A row
\* without balances (an intent) counts as a debit.
ReversalOf(r) ==
  [kind |-> IF r.after > r.before THEN "debit" ELSE "credit",
   type |-> "REVERSAL", user |-> r.user, to |-> r.user,
   account |-> r.account, amount |-> r.amount, key |-> ReversalKey(r.id)]

BeginReverse(c, r) ==
  /\ r.type # "REVERSAL"
  /\ Begin(c, ReversalOf(r))

\* The look-up before any lock.
Find(c) ==
  /\ pc[c] = "find"
  /\ pc' = [pc EXCEPT ![c] =
              IF KeysOf(req[c]) \subseteq CommittedKeys
              THEN "replayed" ELSE "acquire"]
  /\ UNCHANGED <<wallet, rows, ledger, req, owner, snapshot, inserted>>

\* Mutants: the rows are read without FOR UPDATE; they are locked in any order.
MayReadUnlocked(c, u) ==
  /\ u \in WalletsOf(req[c]) \ Holding(c)
  /\ \A v \in WalletsOf(req[c]) \ Holding(c) : Rank[u] <= Rank[v]

MayLockInAnyOrder(c, u) ==
  /\ u \in WalletsOf(req[c]) \ Holding(c)
  /\ owner[u] = NoCall

\* Rows are locked lowest user id first, whatever the order of the arguments.
MayLock(c, u) ==
  /\ u \in WalletsOf(req[c]) \ Holding(c)
  /\ owner[u] = NoCall
  /\ \A v \in WalletsOf(req[c]) \ Holding(c) : Rank[u] <= Rank[v]

\* Mutant: only the first wallet of a transfer is locked.
AcquireFirstOnly(c, u) ==
  /\ pc[c] = "acquire"
  /\ MayLock(c, u)
  /\ owner' = [owner EXCEPT ![u] = c]
  /\ snapshot' = [snapshot EXCEPT ![c] = wallet]
  /\ pc' = [pc EXCEPT ![c] = "move"]
  /\ UNCHANGED <<wallet, rows, ledger, req, inserted>>

Acquire(c, u) ==
  /\ pc[c] = "acquire"
  /\ MayLock(c, u)
  /\ owner' = [owner EXCEPT ![u] = c]
  /\ snapshot' = [snapshot EXCEPT ![c][u] = wallet[u]]
  /\ pc' = [pc EXCEPT ![c] =
              IF WalletsOf(req[c]) \subseteq Holding(c) \union {u}
              THEN "move" ELSE "acquire"]
  /\ UNCHANGED <<wallet, rows, ledger, req, inserted>>

\* The transaction ends: its locks and its uncommitted keys go with it.
EndTransaction(c) ==
  /\ owner' = [u \in Users |-> IF owner[u] = c THEN NoCall ELSE owner[u]]
  /\ snapshot' = [snapshot EXCEPT ![c] = Opening]
  /\ inserted' = [inserted EXCEPT ![c] = {}]

Rollback(c, outcome) ==
  /\ EndTransaction(c)
  /\ pc' = [pc EXCEPT ![c] = outcome]
  /\ UNCHANGED <<wallet, rows, ledger, req>>

\* Funds are checked against the snapshot; the update itself increments the row.
Move(c) ==
  /\ pc[c] = "move"
  /\ Affordable(req[c], snapshot[c])
  /\ Fits(Applied(req[c], wallet))
  /\ pc' = [pc EXCEPT ![c] = "insert"]
  /\ UNCHANGED <<wallet, rows, ledger, req, owner, snapshot, inserted>>

Refuse(c) ==
  /\ pc[c] = "move"
  /\ ~ (Affordable(req[c], snapshot[c]) /\ Fits(Applied(req[c], wallet)))
  /\ Rollback(c, "failed")
-----------------------------------------------------------------------------
\* The next row to insert: a transfer's debit row goes first.
NextSide(c, s) ==
  /\ s \in LegsOf(req[c]) \ inserted[c]
  /\ s = "credit" => "debit" \in inserted[c]

\* Mutant: idempotencyKey without its unique index.
InsertUnindexed(c, s) ==
  /\ pc[c] = "insert"
  /\ NextSide(c, s)
  /\ inserted' = [inserted EXCEPT ![c] = @ \union {s}]
  /\ pc' = [pc EXCEPT ![c] =
              IF LegsOf(req[c]) \subseteq inserted[c] \union {s}
              THEN "commit" ELSE "insert"]
  /\ UNCHANGED <<wallet, rows, ledger, req, owner, snapshot>>

\* An insert waits while another transaction holds the same key uncommitted.
Insert(c, s) ==
  /\ pc[c] = "insert"
  /\ NextSide(c, s)
  /\ KeyOf(req[c], s) \notin CommittedKeys
  /\ \A d \in Calls \ {c} : KeyOf(req[c], s) \notin PendingKeys(d)
  /\ inserted' = [inserted EXCEPT ![c] = @ \union {s}]
  /\ pc' = [pc EXCEPT ![c] =
              IF LegsOf(req[c]) \subseteq inserted[c] \union {s}
              THEN "commit" ELSE "insert"]
  /\ UNCHANGED <<wallet, rows, ledger, req, owner, snapshot>>

\* Mutant: a call that lost the race reports a movement of its own.
LoseRaceUnnoticed(c, s) ==
  /\ pc[c] = "insert"
  /\ NextSide(c, s)
  /\ KeyOf(req[c], s) \in CommittedKeys
  /\ Rollback(c, "moved")

\* P2002 on idempotencyKey: the whole transaction rolls back.
LoseRace(c, s) ==
  /\ pc[c] = "insert"
  /\ NextSide(c, s)
  /\ KeyOf(req[c], s) \in CommittedKeys
  /\ Rollback(c, "recover")

Recover(c) ==
  /\ pc[c] = "recover"
  /\ pc' = [pc EXCEPT ![c] =
              IF KeysOf(req[c]) \subseteq CommittedKeys
              THEN "replayed" ELSE "failed"]
  /\ UNCHANGED <<wallet, rows, ledger, req, owner, snapshot, inserted>>

\* balanceBefore and balanceAfter of a row come from the snapshots; the debit
\* row of a transfer is written from the balances before the credit.
Before(c, s) == snapshot[c][LegUser(req[c], s)][AccountOf(req[c])]
After(c, s) ==
  IF s = "debit" THEN Before(c, s) - req[c].amount
  ELSE Applied(req[c], snapshot[c])[LegUser(req[c], s)][AccountOf(req[c])]

RowOf(c, s) ==
  [id |-> <<c, s>>, key |-> KeyOf(req[c], s), type |-> req[c].type,
   user |-> LegUser(req[c], s), account |-> AccountOf(req[c]),
   amount |-> req[c].amount,
   before |-> IF req[c].kind = "intent" THEN 0 ELSE Before(c, s),
   after |-> IF req[c].kind = "intent" THEN 0 ELSE After(c, s)]

EntryOf(c) ==
  [id |-> c, debit |-> DebitAccount(req[c]), credit |-> CreditAccount(req[c]),
   amount |-> req[c].amount]

Commit(c) ==
  /\ pc[c] = "commit"
  /\ wallet' = Applied(req[c], wallet)
  /\ rows' = rows \union {RowOf(c, s) : s \in LegsOf(req[c])}
  /\ ledger' = IF req[c].kind = "intent" THEN ledger
               ELSE ledger \union {EntryOf(c)}
  /\ EndTransaction(c)
  /\ pc' = [pc EXCEPT ![c] = "moved"]
  /\ UNCHANGED req

Crash(c) ==
  /\ pc[c] \in Working
  /\ Rollback(c, "crashed")

\* Every call was answered: nothing is left to do.
AllAnswered ==
  /\ \A c \in Calls : pc[c] \in Answered
  /\ UNCHANGED vars

Step(c) ==
  \/ Find(c) \/ Move(c) \/ Refuse(c) \/ Recover(c) \/ Commit(c)
  \/ \E u \in Users : Acquire(c, u)
  \/ \E s \in Sides : Insert(c, s) \/ LoseRace(c, s)

Next ==
  \/ \E c \in Calls : \/ \E q \in Request : Begin(c, q)
                      \/ \E r \in rows : BeginReverse(c, r)
                      \/ Step(c)
                      \/ Crash(c)
  \/ AllAnswered

Spec == Init /\ [][Next]_vars

\* A running process takes its next step; nothing forces a caller or a crash.
FairSpec == Spec /\ \A c \in Calls : WF_vars(Step(c))
-----------------------------------------------------------------------------
TypeOK ==
  /\ wallet \in [Users -> Balances]
  /\ \A r \in rows :
       /\ r.id \in RowId /\ r.type \in {"MOVE", "REVERSAL"}
       /\ r.user \in Users /\ r.account \in Buckets
       /\ r.amount \in 1..MaxInt /\ r.before \in Int /\ r.after \in Int
  /\ \A e \in ledger : e.id \in Calls /\ e.amount \in 1..MaxInt
  /\ pc \in [Calls -> {"idle"} \union Working \union Answered]
  /\ DOMAIN req = Calls
  /\ \A c \in Calls : IF pc[c] = "idle" THEN req[c] = NoMovement
                      ELSE req[c] \in Movements
  /\ owner \in [Users -> Calls \union {NoCall}]
  /\ snapshot \in [Calls -> [Users -> Balances]]
  /\ inserted \in [Calls -> SUBSET Sides]

\* No bucket is ever overdrawn and none outgrows its column, although the
\* funds check and the increment are separate statements.
NeverOverdrawn ==
  \A u \in Users, b \in Buckets : wallet[u][b] \in 0..MaxInt

\* An idempotency key moves money once, whatever calls race on it.
EachKeyOnce == \A r, t \in rows : r.key = t.key => r = t

\* A call that reported a movement left all its rows and, unless it was an
\* intent, its ledger entry; a call that did not left nothing; a replay
\* answers with rows that exist.
AnswersAreTrue ==
  \A c \in Calls :
    /\ pc[c] = "moved" =>
         /\ {r.key : r \in RowsBy(c)} = KeysOf(req[c])
         /\ EntriesBy(c) = {} <=> req[c].kind = "intent"
    /\ pc[c] # "moved" => RowsBy(c) = {} /\ EntriesBy(c) = {}
    /\ pc[c] = "replayed" => KeysOf(req[c]) \subseteq CommittedKeys

Cents == [e \in ledger |-> e.amount]
Credits(a) == {e \in ledger : e.credit = a}
Debits(a) == {e \in ledger : e.debit = a}

\* Double entry: every bucket is its opening balance plus what the ledger
\* credits to it minus what the ledger debits from it.
LedgerReconciles ==
  \A u \in Users, b \in Buckets :
    LET a == WalletAccount(u, b)
    IN  wallet[u][b] + Total(Debits(a), Cents) = Opening[u][b] + Total(Credits(a), Cents)

\* Row locks.  A wallet row is held only by an open transaction that needs
\* it, and every one a transaction needs is held before it looks at the funds.
LockDiscipline ==
  \A c \in Calls :
    /\ \A u \in Holding(c) : pc[c] \in InTransaction /\ u \in WalletsOf(req[c])
    /\ pc[c] \in {"move", "insert", "commit"} => WalletsOf(req[c]) \subseteq Holding(c)

\* A locked balance does not change under the transaction that read it.
SnapshotCurrent ==
  \A c \in Calls : \A u \in Holding(c) : snapshot[c][u] = wallet[u]

\* What was affordable when checked is still affordable when committed.
StillFunded ==
  \A c \in Calls :
    pc[c] \in {"insert", "commit"} =>
      /\ Affordable(req[c], snapshot[c])
      /\ Fits(Applied(req[c], wallet))

\* Uncommitted keys belong to one open transaction and to no committed row.
KeysExclusive ==
  \A c \in Calls :
    /\ inserted[c] # {} => /\ pc[c] \in {"insert", "commit"}
                           /\ inserted[c] \subseteq LegsOf(req[c])
    /\ pc[c] = "commit" => inserted[c] = LegsOf(req[c])
    /\ PendingKeys(c) \intersect CommittedKeys = {}
    /\ \A d \in Calls \ {c} : PendingKeys(c) \intersect PendingKeys(d) = {}

\* The inductive invariant: what makes the look-up before the lock, the row
\* locks and the unique index together enough.
Inv ==
  /\ TypeOK
  /\ NeverOverdrawn
  /\ EachKeyOnce
  /\ LockDiscipline
  /\ SnapshotCurrent
  /\ StillFunded
  /\ KeysExclusive

\* Every call is answered: ordered locking leaves nobody waiting for ever.
EveryCallAnswered ==
  \A c \in Calls : pc[c] = "find" ~> pc[c] \in Answered

\* The service keeps its promise.
Book == INSTANCE MoneyBook WITH balance <- wallet, posted <- CommittedKeys
KeepsTheBook == Book!Spec
=============================================================================
