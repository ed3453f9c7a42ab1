---------------------------- MODULE WalletProofs ----------------------------
(***************************************************************************)
(* Wallet, proved for every set of users, calls and requests.              *)
(***************************************************************************)
EXTENDS Wallet, CentsTheorems

-----------------------------------------------------------------------------
(* What a movement does to the balances.                                   *)

\* A movement is well formed, whether a caller asked for it or reverse() did.
LEMMA MovementsWellFormed ==
  ASSUME NEW q \in Movements
  PROVE  MovementOK(q)
BY RequestAssumption DEF Movements, Reversals, MovementOK

\* applyDelta keeps balances integers.
LEMMA AppliedType ==
  ASSUME NEW q, MovementOK(q), NEW w \in [Users -> Balances]
  PROVE  Applied(q, w) \in [Users -> Balances]
BY MaxIntAssumption DEF Applied, MovementOK, Balances

\* Wallets whose rows are not locked by a movement are not touched by it.
LEMMA AppliedElsewhere ==
  ASSUME NEW q, MovementOK(q), NEW w \in [Users -> Balances],
         NEW u \in Users \ WalletsOf(q)
  PROVE  Applied(q, w)[u] = w[u]
BY DEF Applied, Gets, Pays, MovementOK, WalletsOf, Balances

\* What a movement does to the wallets it locks depends on them alone.
LEMMA AppliedLocal ==
  ASSUME NEW q, MovementOK(q),
         NEW w \in [Users -> Balances], NEW x \in [Users -> Balances],
         \A u \in WalletsOf(q) : w[u] = x[u],
         NEW u \in WalletsOf(q)
  PROVE  Applied(q, w)[u] = Applied(q, x)[u]
BY DEF Applied, MovementOK, WalletsOf

\* So does whether it can be paid for.
LEMMA AffordableLocal ==
  ASSUME NEW q, MovementOK(q), NEW w, NEW x,
         \A u \in WalletsOf(q) : w[u] = x[u],
         Affordable(q, w)
  PROVE  Affordable(q, x)
BY DEF Affordable, Pays, MovementOK, WalletsOf

\* A movement that can be paid for overdraws nothing.
LEMMA AppliedNonNegative ==
  ASSUME NEW q, MovementOK(q), NEW w \in [Users -> Balances],
         Affordable(q, w),
         \A u \in Users, b \in Buckets : w[u][b] >= 0
  PROVE  \A u \in Users, b \in Buckets : Applied(q, w)[u][b] >= 0
BY MaxIntAssumption DEF Applied, Affordable, MovementOK, Balances
-----------------------------------------------------------------------------
(* The inductive invariant.                                                *)

\* Nothing has been called: the invariant holds.
LEMMA InitInv == Init => Inv
<1> SUFFICES ASSUME Init PROVE Inv
  OBVIOUS
<1>1. TypeOK
  BY OpeningAssumption, MaxIntAssumption
  DEF Init, TypeOK, Balances, Working, Answered, InTransaction, NoMovement
<1>2. NeverOverdrawn
  BY OpeningAssumption DEF Init, NeverOverdrawn
<1>3. EachKeyOnce
  BY DEF Init, EachKeyOnce
<1>4. LockDiscipline /\ SnapshotCurrent /\ StillFunded
  BY NoCallAssumption
  DEF Init, LockDiscipline, SnapshotCurrent, StillFunded, Holding
<1>5. KeysExclusive
  BY DEF Init, KeysExclusive, PendingKeys, CommittedKeys
<1> QED
  BY <1>1, <1>2, <1>3, <1>4, <1>5 DEF Inv

\* A call that starts touches nothing but itself.
LEMMA BeginInv ==
  ASSUME Inv, NEW c \in Calls, NEW q \in Movements, Begin(c, q)
  PROVE  Inv'
<1> USE DEF Inv, Begin
<1>1. TypeOK'
  BY DEF TypeOK, Working
<1>2. NeverOverdrawn' /\ EachKeyOnce'
  BY DEF NeverOverdrawn, EachKeyOnce
<1>3. Holding(c) = {}
  BY DEF LockDiscipline, InTransaction
<1>4. \A d \in Calls : Holding(d)' = Holding(d)
  BY DEF Holding
<1>5. LockDiscipline'
  BY <1>3, <1>4 DEF LockDiscipline, TypeOK, InTransaction
<1>6. SnapshotCurrent'
  BY <1>4 DEF SnapshotCurrent
<1>7. StillFunded'
  BY DEF StillFunded, TypeOK
<1>8. \A d \in Calls : PendingKeys(d)' = PendingKeys(d)
  <2>1. inserted[c] = {}
    BY DEF KeysExclusive
  <2> QED
    BY <2>1 DEF PendingKeys, TypeOK
<1>9. KeysExclusive'
  BY <1>8 DEF KeysExclusive, TypeOK, CommittedKeys
<1> QED
  BY <1>1, <1>2, <1>5, <1>6, <1>7, <1>9

\* Neither does a step that only moves the call's program counter, if what
\* the new place demands of locks, funds and keys holds.
LEMMA GotoInv ==
  ASSUME Inv, NEW c \in Calls, pc[c] \in Working,
         NEW next \in {"acquire", "insert", "replayed", "failed"},
         pc' = [pc EXCEPT ![c] = next],
         UNCHANGED <<wallet, rows, ledger, req, owner, snapshot, inserted>>,
         next \notin InTransaction => Holding(c) = {},
         next = "insert" => /\ pc[c] = "move"
                            /\ Affordable(req[c], snapshot[c])
                            /\ Fits(Applied(req[c], wallet)),
         inserted[c] = {}
  PROVE  Inv'
<1> USE DEF Inv
<1>1. TypeOK'
  BY DEF TypeOK, Working, Answered, InTransaction
<1>2. NeverOverdrawn' /\ EachKeyOnce'
  BY DEF NeverOverdrawn, EachKeyOnce
<1>3. \A d \in Calls : Holding(d)' = Holding(d)
  BY DEF Holding
<1>4. LockDiscipline'
  BY <1>3 DEF LockDiscipline, TypeOK, InTransaction
<1>5. SnapshotCurrent'
  BY <1>3 DEF SnapshotCurrent
<1>6. StillFunded'
  BY DEF StillFunded, TypeOK
<1>7. (\A d \in Calls : PendingKeys(d)' = PendingKeys(d)) /\ CommittedKeys' = CommittedKeys
  BY DEF PendingKeys, CommittedKeys
<1>8. KeysExclusive'
  BY <1>7 DEF KeysExclusive, TypeOK
<1> QED
  BY <1>1, <1>2, <1>4, <1>5, <1>6, <1>8

\* A transaction that ends without committing gives back its locks and keys.
LEMMA RollbackInv ==
  ASSUME Inv, NEW c \in Calls, pc[c] \in Working,
         NEW outcome \in {"recover", "failed", "crashed"},
         Rollback(c, outcome)
  PROVE  Inv'
<1> USE DEF Inv, Rollback, EndTransaction
<1>1. TypeOK'
  <2>1. Opening \in [Users -> Balances]
    BY OpeningAssumption, MaxIntAssumption DEF Balances
  <2> QED
    BY <2>1 DEF TypeOK, Working, InTransaction, Answered
<1>2. NeverOverdrawn' /\ EachKeyOnce'
  BY DEF NeverOverdrawn, EachKeyOnce
<1>3. /\ Holding(c)' = {}
      /\ \A d \in Calls \ {c} : Holding(d)' = Holding(d)
  BY NoCallAssumption DEF Holding
<1>4. LockDiscipline'
  BY <1>3 DEF LockDiscipline, TypeOK, InTransaction
<1>5. SnapshotCurrent'
  BY <1>3 DEF SnapshotCurrent, TypeOK
<1>6. StillFunded'
  BY DEF StillFunded, TypeOK
<1>7. /\ PendingKeys(c)' = {}
      /\ \A d \in Calls \ {c} : PendingKeys(d)' = PendingKeys(d)
  BY DEF PendingKeys, TypeOK
<1>8. KeysExclusive'
  BY <1>7 DEF KeysExclusive, TypeOK, CommittedKeys
<1> QED
  BY <1>1, <1>2, <1>4, <1>5, <1>6, <1>8

\* Locking a row reads a balance nobody else may change.
LEMMA AcquireInv ==
  ASSUME Inv, NEW c \in Calls, NEW u \in Users, Acquire(c, u)
  PROVE  Inv'
<1> USE DEF Inv, Acquire, MayLock
<1>1. TypeOK'
  BY DEF TypeOK, Working, InTransaction
<1>2. NeverOverdrawn' /\ EachKeyOnce'
  BY DEF NeverOverdrawn, EachKeyOnce
<1>3. /\ Holding(c)' = Holding(c) \union {u}
      /\ \A d \in Calls \ {c} : Holding(d)' = Holding(d) /\ u \notin Holding(d)
  BY NoCallAssumption DEF Holding, TypeOK
<1>4. LockDiscipline'
  BY <1>3 DEF LockDiscipline, TypeOK, InTransaction
<1>5. SnapshotCurrent'
  BY <1>3 DEF SnapshotCurrent, TypeOK
<1>6. StillFunded'
  BY DEF StillFunded, TypeOK
<1>7. (\A d \in Calls : PendingKeys(d)' = PendingKeys(d)) /\ CommittedKeys' = CommittedKeys
  BY DEF PendingKeys, CommittedKeys
<1>8. KeysExclusive'
  BY <1>7 DEF KeysExclusive, TypeOK
<1> QED
  BY <1>1, <1>2, <1>4, <1>5, <1>6, <1>8

\* The unique index admits a key only if no transaction, open or committed,
\* has it.
LEMMA InsertInv ==
  ASSUME Inv, NEW c \in Calls, NEW s \in Sides, Insert(c, s)
  PROVE  Inv'
<1> USE DEF Inv, Insert, NextSide
<1>1. TypeOK'
  BY DEF TypeOK, Working, InTransaction
<1>2. NeverOverdrawn' /\ EachKeyOnce'
  BY DEF NeverOverdrawn, EachKeyOnce
<1>3. \A d \in Calls : Holding(d)' = Holding(d)
  BY DEF Holding
<1>4. LockDiscipline'
  BY <1>3 DEF LockDiscipline, TypeOK, InTransaction
<1>5. SnapshotCurrent'
  BY <1>3 DEF SnapshotCurrent
<1>6. StillFunded'
  BY DEF StillFunded, TypeOK
<1>7. /\ PendingKeys(c)' = PendingKeys(c) \union {KeyOf(req[c], s)}
      /\ \A d \in Calls \ {c} : PendingKeys(d)' = PendingKeys(d)
  BY DEF PendingKeys, TypeOK
<1>8. CommittedKeys' = CommittedKeys
  BY DEF CommittedKeys
<1>9. KeysExclusive'
  <2> SUFFICES ASSUME NEW d \in Calls PROVE KeysExclusive!(d)'
    BY DEF KeysExclusive
  <2>1. inserted'[d] # {} => /\ pc'[d] \in {"insert", "commit"}
                             /\ inserted'[d] \subseteq LegsOf(req'[d])
    BY DEF KeysExclusive, TypeOK
  <2>2. pc'[d] = "commit" => inserted'[d] = LegsOf(req'[d])
    BY DEF KeysExclusive, TypeOK
  <2>3. PendingKeys(d)' \intersect CommittedKeys' = {}
    BY <1>7, <1>8 DEF KeysExclusive
  <2>4. \A e \in Calls \ {d} : PendingKeys(d)' \intersect PendingKeys(e)' = {}
    BY <1>7 DEF KeysExclusive
  <2> QED
    BY <2>1, <2>2, <2>3, <2>4
<1> QED
  BY <1>1, <1>2, <1>4, <1>5, <1>6, <1>9

\* Under the row locks the balances checked are the balances moved.
LEMMA CommitFunded ==
  ASSUME Inv, NEW c \in Calls, pc[c] = "commit"
  PROVE  Affordable(req[c], wallet)
<1>1. \A u \in WalletsOf(req[c]) : snapshot[c][u] = wallet[u]
  BY DEF Inv, LockDiscipline, SnapshotCurrent
<1>2. MovementOK(req[c])
  BY MovementsWellFormed DEF Inv, TypeOK
<1>3. Affordable(req[c], snapshot[c])
  BY DEF Inv, StillFunded
<1> QED
  BY <1>1, <1>2, <1>3, AffordableLocal

\* The keys a commit publishes are new.
LEMMA CommitKeys ==
  ASSUME Inv, NEW c \in Calls, Commit(c)
  PROVE  /\ CommittedKeys' = CommittedKeys \union KeysOf(req[c])
         /\ KeysOf(req[c]) \intersect CommittedKeys = {}
<1>1. PendingKeys(c) = KeysOf(req[c])
  BY DEF Inv, KeysExclusive, Commit, PendingKeys, KeysOf
<1>2. \A s \in LegsOf(req[c]) : RowOf(c, s).key = KeyOf(req[c], s)
  BY DEF RowOf
<1>3. CommittedKeys' = CommittedKeys \union KeysOf(req[c])
  BY <1>2 DEF Commit, CommittedKeys, KeysOf
<1> QED
  BY <1>1, <1>3 DEF Inv, KeysExclusive

\* The rows a commit writes are well typed.
LEMMA RowType ==
  ASSUME Inv, NEW c \in Calls, pc[c] = "commit", NEW s \in LegsOf(req[c])
  PROVE  LET r == RowOf(c, s)
         IN  /\ r.id \in RowId /\ r.type \in {"MOVE", "REVERSAL"}
             /\ r.user \in Users /\ r.account \in Buckets
             /\ r.amount \in 1..MaxInt /\ r.before \in Int /\ r.after \in Int
<1> DEFINE q == req[c]
<1>1. MovementOK(q) /\ snapshot[c] \in [Users -> Balances]
  BY MovementsWellFormed DEF Inv, TypeOK
<1>2. Applied(q, snapshot[c]) \in [Users -> Balances]
  BY <1>1, AppliedType
<1>3. LegUser(q, s) \in Users /\ AccountOf(q) \in Buckets
  BY <1>1 DEF LegUser, AccountOf, MovementOK, Buckets
<1>4. q.amount \in Int
  BY <1>1, MaxIntAssumption DEF MovementOK
<1>5. Before(c, s) \in Int
  BY <1>1, <1>3 DEF Before, Balances
<1>6. After(c, s) \in Int
  BY <1>2, <1>3, <1>4, <1>5 DEF After, Balances
<1>7. s \in Sides
  BY DEF LegsOf, Sides
<1> QED
  BY <1>1, <1>3, <1>5, <1>6, <1>7 DEF RowOf, RowId, MovementOK

\* A commit keeps it: the only step that writes balances, rows and the ledger.
LEMMA CommitInv ==
  ASSUME Inv, NEW c \in Calls, Commit(c)
  PROVE  Inv'
<1> DEFINE q == req[c]
<1>1. MovementOK(q)
  BY MovementsWellFormed DEF Inv, TypeOK, Commit
<1>2. wallet \in [Users -> Balances]
  BY DEF Inv, TypeOK
<1>3. wallet' \in [Users -> Balances]
  BY <1>1, <1>2, AppliedType DEF Commit
<1>4. WalletsOf(q) \subseteq Holding(c)
  BY DEF Inv, LockDiscipline, Commit
<1>5. \A u \in Users \ WalletsOf(q) : wallet'[u] = wallet[u]
  BY <1>1, <1>2, AppliedElsewhere DEF Commit
<1>6. TypeOK'
  <2>1. \A r \in rows' :
          /\ r.id \in RowId /\ r.type \in {"MOVE", "REVERSAL"}
          /\ r.user \in Users /\ r.account \in Buckets
          /\ r.amount \in 1..MaxInt /\ r.before \in Int /\ r.after \in Int
    BY RowType DEF Inv, TypeOK, Commit
  <2>2. \A e \in ledger' : e.id \in Calls /\ e.amount \in 1..MaxInt
    BY <1>1 DEF Inv, TypeOK, Commit, EntryOf, MovementOK
  <2>3. Opening \in [Users -> Balances]
    BY OpeningAssumption, MaxIntAssumption DEF Balances
  <2>4. /\ owner' \in [Users -> Calls \union {NoCall}]
        /\ snapshot' \in [Calls -> [Users -> Balances]]
        /\ inserted' \in [Calls -> SUBSET Sides]
    BY <2>3 DEF Inv, TypeOK, Commit, EndTransaction
  <2>5. pc' \in [Calls -> {"idle"} \union Working \union Answered]
    BY DEF Inv, TypeOK, Commit, Answered
  <2>6. /\ DOMAIN req' = Calls
        /\ \A d \in Calls : IF pc'[d] = "idle" THEN req'[d] = NoMovement
                            ELSE req'[d] \in Movements
    BY DEF Inv, TypeOK, Commit
  <2> QED
    BY <1>3, <2>1, <2>2, <2>4, <2>5, <2>6 DEF TypeOK
<1>7. NeverOverdrawn'
  <2>1. \A u \in Users, b \in Buckets : wallet'[u][b] <= MaxInt
    BY DEF Inv, StillFunded, Commit, Fits
  <2>2. \A u \in Users, b \in Buckets : wallet[u][b] >= 0
    BY <1>2 DEF Inv, NeverOverdrawn, Balances
  <2>3. Affordable(q, wallet)
    BY CommitFunded DEF Commit
  <2>4. \A u \in Users, b \in Buckets : wallet'[u][b] >= 0
    BY <1>1, <1>2, <2>2, <2>3, AppliedNonNegative DEF Commit
  <2> QED
    BY <1>3, <2>1, <2>4, MaxIntAssumption DEF NeverOverdrawn, Balances
<1>8. EachKeyOnce'
  <2> SUFFICES ASSUME NEW r \in rows', NEW t \in rows', r.key = t.key
               PROVE  r = t
    BY DEF EachKeyOnce
  <2>1. \A s \in LegsOf(q) : RowOf(c, s).key = <<q.key, s>>
    BY DEF RowOf, KeyOf
  <2>2. \A s \in LegsOf(q) : RowOf(c, s).key \notin CommittedKeys
    BY CommitKeys DEF KeysOf, RowOf
  <2>3. CASE r \in rows /\ t \in rows
    BY <2>3 DEF Inv, EachKeyOnce
  <2>4. CASE r \notin rows /\ t \notin rows
    BY <2>1, <2>4 DEF Commit
  <2>5. CASE r \in rows <=> t \notin rows
    BY <2>2, <2>5 DEF Commit, CommittedKeys
  <2> QED
    BY <2>3, <2>4, <2>5
<1>9. /\ Holding(c)' = {}
      /\ \A d \in Calls \ {c} : Holding(d)' = Holding(d) /\ Holding(d) \cap Holding(c) = {}
  BY NoCallAssumption DEF Holding, Commit, EndTransaction
<1>10. LockDiscipline'
  BY <1>9 DEF Inv, LockDiscipline, TypeOK, InTransaction, Commit, EndTransaction
<1>11. SnapshotCurrent'
  <2> SUFFICES ASSUME NEW d \in Calls, NEW u \in Holding(d)'
               PROVE  snapshot'[d][u] = wallet'[u]
    BY DEF SnapshotCurrent
  <2>1. d # c /\ u \in Holding(d) /\ u \in Users \ WalletsOf(q)
    BY <1>4, <1>9 DEF Holding
  <2>2. snapshot'[d] = snapshot[d]
    BY <2>1 DEF Commit, EndTransaction, Inv, TypeOK
  <2> QED
    BY <1>5, <2>1, <2>2 DEF Inv, SnapshotCurrent
<1>12. StillFunded'
  <2> SUFFICES ASSUME NEW d \in Calls, pc'[d] \in {"insert", "commit"}
               PROVE  Affordable(req'[d], snapshot'[d]) /\ Fits(Applied(req'[d], wallet'))
    BY DEF StillFunded
  <2>1. d # c /\ pc[d] = pc'[d] /\ req'[d] = req[d] /\ snapshot'[d] = snapshot[d]
    BY DEF Commit, EndTransaction, Inv, TypeOK
  <2>2. Affordable(req[d], snapshot[d]) /\ Fits(Applied(req[d], wallet))
    BY <2>1 DEF Inv, StillFunded
  <2>3. MovementOK(req[d])
    BY <2>1, MovementsWellFormed DEF Inv, TypeOK
  <2>4. \A u \in WalletsOf(req[d]) : u \in Users \ WalletsOf(q)
    BY <1>4, <1>9, <2>1 DEF Inv, LockDiscipline, Holding
  <2>5. \A u \in WalletsOf(req[d]) :
          Applied(req[d], wallet')[u] = Applied(req[d], wallet)[u]
    BY <1>2, <1>3, <1>5, <2>3, <2>4, AppliedLocal
  <2>6. \A u \in Users \ WalletsOf(req[d]) : Applied(req[d], wallet')[u] = wallet'[u]
    BY <1>3, <2>3, AppliedElsewhere
  <2>7. \A u \in Users, b \in Buckets : wallet'[u][b] <= MaxInt
    BY <1>3, <1>7, MaxIntAssumption DEF NeverOverdrawn, Balances
  <2>8. Fits(Applied(req[d], wallet'))
    BY <2>2, <2>5, <2>6, <2>7 DEF Fits
  <2> QED
    BY <2>1, <2>2, <2>8
<1>13. KeysExclusive'
  <2>1. PendingKeys(c) = KeysOf(q)
    BY DEF Inv, KeysExclusive, Commit, PendingKeys, KeysOf
  <2>2. /\ PendingKeys(c)' = {}
        /\ \A d \in Calls \ {c} : PendingKeys(d)' = PendingKeys(d)
    BY DEF Commit, EndTransaction, PendingKeys, Inv, TypeOK
  <2>3. CommittedKeys' = CommittedKeys \union KeysOf(q)
    BY CommitKeys
  <2>4. \A d \in Calls : /\ PendingKeys(d)' \intersect CommittedKeys' = {}
                         /\ \A e \in Calls \ {d} :
                              PendingKeys(d)' \intersect PendingKeys(e)' = {}
    BY <2>1, <2>2, <2>3 DEF Inv, KeysExclusive
  <2>5. \A d \in Calls :
          /\ inserted'[d] # {} => /\ pc'[d] \in {"insert", "commit"}
                                  /\ inserted'[d] \subseteq LegsOf(req'[d])
          /\ pc'[d] = "commit" => inserted'[d] = LegsOf(req'[d])
    BY DEF Inv, TypeOK, KeysExclusive, Commit, EndTransaction
  <2> QED
    BY <2>4, <2>5 DEF KeysExclusive
<1> QED
  BY <1>6, <1>7, <1>8, <1>10, <1>11, <1>12, <1>13 DEF Inv

\* What reverse() derives from a committed row is a movement.
LEMMA ReversalWellFormed ==
  ASSUME TypeOK, NEW r \in rows
  PROVE  ReversalOf(r) \in Movements
BY DEF TypeOK, ReversalOf, Movements, Reversals

\* Every step of every call keeps it.
LEMMA StepInv ==
  ASSUME Inv, [Next]_vars
  PROVE  Inv'
<1>1. CASE UNCHANGED vars
  <2>1. /\ CommittedKeys' = CommittedKeys
        /\ \A c \in Calls : PendingKeys(c)' = PendingKeys(c)
        /\ \A c \in Calls : Holding(c)' = Holding(c)
    BY <1>1 DEF vars, CommittedKeys, PendingKeys, Holding
  <2>2. TypeOK' /\ NeverOverdrawn' /\ EachKeyOnce'
    BY <1>1 DEF Inv, TypeOK, NeverOverdrawn, EachKeyOnce, vars
  <2>3. LockDiscipline' /\ SnapshotCurrent' /\ StillFunded' /\ KeysExclusive'
    BY <1>1, <2>1 DEF Inv, LockDiscipline, SnapshotCurrent, StillFunded,
                      KeysExclusive, vars
  <2> QED
    BY <2>2, <2>3 DEF Inv
<1>2. ASSUME NEW c \in Calls, NEW q \in Request, Begin(c, q) PROVE Inv'
  BY <1>2, BeginInv DEF Movements
<1>3. ASSUME NEW c \in Calls, NEW r \in rows, BeginReverse(c, r) PROVE Inv'
  BY <1>3, BeginInv, ReversalWellFormed DEF BeginReverse, Inv
<1>4. ASSUME NEW c \in Calls, Find(c) PROVE Inv'
  <2>1. Holding(c) = {} /\ inserted[c] = {}
    BY <1>4 DEF Find, Inv, LockDiscipline, KeysExclusive, InTransaction
  <2> QED
    BY <1>4, <2>1, GotoInv DEF Find, Working
<1>5. ASSUME NEW c \in Calls, Move(c) PROVE Inv'
  <2>1. inserted[c] = {}
    BY <1>5 DEF Move, Inv, KeysExclusive
  <2> QED
    BY <1>5, <2>1, GotoInv DEF Move, Working, InTransaction
<1>6. ASSUME NEW c \in Calls, Refuse(c) PROVE Inv'
  BY <1>6, RollbackInv DEF Refuse, Working, InTransaction
<1>7. ASSUME NEW c \in Calls, Recover(c) PROVE Inv'
  <2>1. Holding(c) = {} /\ inserted[c] = {}
    BY <1>7 DEF Recover, Inv, LockDiscipline, KeysExclusive, InTransaction
  <2> QED
    BY <1>7, <2>1, GotoInv DEF Recover, Working
<1>8. ASSUME NEW c \in Calls, Commit(c) PROVE Inv'
  BY <1>8, CommitInv
<1>9. ASSUME NEW c \in Calls, NEW u \in Users, Acquire(c, u) PROVE Inv'
  BY <1>9, AcquireInv
<1>10. ASSUME NEW c \in Calls, NEW s \in Sides, Insert(c, s) PROVE Inv'
  BY <1>10, InsertInv
<1>11. ASSUME NEW c \in Calls, NEW s \in Sides, LoseRace(c, s) PROVE Inv'
  BY <1>11, RollbackInv DEF LoseRace, Working, InTransaction
<1>12. ASSUME NEW c \in Calls, Crash(c) PROVE Inv'
  BY <1>12, RollbackInv DEF Crash
<1> QED
  BY <1>1, <1>2, <1>3, <1>4, <1>5, <1>6, <1>7, <1>8, <1>9, <1>10, <1>11, <1>12
  DEF Next, Step, AllAnswered

\* The row locks, the snapshots and the unique index work together: the
\* inductive invariant holds of every behaviour of the wallet service.
THEOREM Invariance == Spec => []Inv
<1> QED
  BY InitInv, StepInv, PTL DEF Spec

\* No interleaving of debits, locks, transfers and reversals overdraws a
\* bucket or overflows its column.
THEOREM BucketsNeverOverdrawn == Spec => []NeverOverdrawn
<1>1. Inv => NeverOverdrawn
  BY DEF Inv
<1> QED
  BY <1>1, Invariance, PTL

\* No idempotency key is ever written twice: a replayed request moves money
\* at most once.
THEOREM KeysWrittenOnce == Spec => []EachKeyOnce
<1>1. Inv => EachKeyOnce
  BY DEF Inv
<1> QED
  BY <1>1, Invariance, PTL

-----------------------------------------------------------------------------
(* What callers are told.                                                  *)

\* A step other than a commit writes nothing; the call that moves was not, and
\* is not now, reported as moved, and a replay is answered from rows that exist.
LEMMA QuietStep ==
  ASSUME Inv, [Next]_vars, ~ \E c \in Calls : Commit(c)
  PROVE  /\ UNCHANGED <<wallet, rows, ledger>>
         /\ \A d \in Calls :
              \/ pc'[d] = pc[d] /\ req'[d] = req[d]
              \/ /\ pc[d] # "moved" /\ pc'[d] # "moved"
                 /\ pc'[d] = "replayed" => KeysOf(req'[d]) \subseteq CommittedKeys
<1> USE DEF Inv, TypeOK
<1>1. CASE UNCHANGED vars
  BY <1>1 DEF vars
<1>2. CASE \E c \in Calls : (\E q \in Request : Begin(c, q)) \/ \E r \in rows : BeginReverse(c, r)
  BY <1>2 DEF Begin, BeginReverse
<1>3. CASE \E c \in Calls : Find(c) \/ Move(c) \/ Recover(c)
  BY <1>3 DEF Find, Move, Recover
<1>4. CASE \E c \in Calls : \/ \E u \in Users : Acquire(c, u)
                           \/ \E s \in Sides : Insert(c, s)
  BY <1>4 DEF Acquire, Insert
<1>5. CASE \E c \in Calls : \/ Refuse(c) \/ Crash(c)
                           \/ \E s \in Sides : LoseRace(c, s)
  BY <1>5 DEF Refuse, Crash, LoseRace, Rollback, Working, InTransaction
<1> QED
  BY <1>1, <1>2, <1>3, <1>4, <1>5 DEF Next, Step, AllAnswered

\* What a call was answered stays true.
LEMMA AnswersStep ==
  ASSUME Inv, AnswersAreTrue, [Next]_vars
  PROVE  AnswersAreTrue'
<1>1. CASE \E c \in Calls : Commit(c)
  <2>1. PICK c \in Calls : Commit(c)
    BY <1>1
  <2>2. CommittedKeys \subseteq CommittedKeys'
    BY <2>1, CommitKeys
  <2>3. RowsBy(c) = {} /\ EntriesBy(c) = {}
    BY <2>1 DEF AnswersAreTrue, Commit
  <2>4. \A s \in LegsOf(req[c]) : RowOf(c, s).id[1] = c /\ RowOf(c, s).key = KeyOf(req[c], s)
    BY DEF RowOf
  <2>5. RowsBy(c)' = {RowOf(c, s) : s \in LegsOf(req[c])}
    BY <2>1, <2>3, <2>4 DEF Commit, RowsBy
  <2>6. {r.key : r \in RowsBy(c)'} = KeysOf(req[c])
    BY <2>4, <2>5 DEF KeysOf
  <2>7. EntriesBy(c)' = {} <=> req[c].kind = "intent"
    <3>1. CASE req[c].kind = "intent"
      BY <2>1, <2>3, <3>1 DEF Commit, EntriesBy
    <3>2. CASE req[c].kind # "intent"
      <4>1. EntryOf(c) \in ledger' /\ EntryOf(c).id = c
        BY <2>1, <3>2 DEF Commit, EntryOf
      <4> QED
        BY <3>2, <4>1 DEF EntriesBy
    <3> QED
      BY <3>1, <3>2
  <2>8. \A d \in Calls \ {c} : /\ RowsBy(d)' = RowsBy(d) /\ EntriesBy(d)' = EntriesBy(d)
                             /\ pc'[d] = pc[d] /\ req'[d] = req[d]
    BY <2>1, <2>4 DEF Commit, EntryOf, Inv, TypeOK, RowsBy, EntriesBy
  <2>9. pc'[c] = "moved" /\ req'[c] = req[c]
    BY <2>1 DEF Commit, Inv, TypeOK
  <2> QED
    BY <2>2, <2>6, <2>7, <2>8, <2>9 DEF AnswersAreTrue
<1>2. CASE ~ \E c \in Calls : Commit(c)
  <2>1. /\ UNCHANGED <<rows, ledger>>
        /\ \A d \in Calls :
              \/ pc'[d] = pc[d] /\ req'[d] = req[d]
              \/ /\ pc[d] # "moved" /\ pc'[d] # "moved"
                 /\ pc'[d] = "replayed" => KeysOf(req'[d]) \subseteq CommittedKeys
    BY <1>2, QuietStep
  <2>2. /\ CommittedKeys' = CommittedKeys
        /\ \A d \in Calls : /\ RowsBy(d)' = RowsBy(d)
                            /\ EntriesBy(d)' = EntriesBy(d)
    BY <2>1 DEF CommittedKeys, RowsBy, EntriesBy
  <2> QED
    BY <2>1, <2>2 DEF AnswersAreTrue
<1> QED
  BY <1>1, <1>2

\* Whatever a call answers is so: a reported movement is there with all its
\* rows, a failed, crashed or replayed call left none of its own.
THEOREM CallersAreToldTheTruth == Spec => []AnswersAreTrue
<1>1. Init => AnswersAreTrue
  BY DEF Init, AnswersAreTrue, RowsBy, EntriesBy
<1> QED
  BY <1>1, AnswersStep, Invariance, PTL DEF Spec

-----------------------------------------------------------------------------
(* What the ledger adds up to.                                             *)

\* The ledger can be added up, and reconciles.
LedgerInv ==
  /\ \A a : Summable(Debits(a), Cents) /\ Summable(Credits(a), Cents)
  /\ LedgerReconciles

\* The pair of accounts a movement books is the pair of buckets it moves.
LEMMA BookedAsMoved ==
  ASSUME NEW q, MovementOK(q), NEW u \in Users, NEW b \in Buckets
  PROVE  /\ q.kind # "intent" =>
              /\ CreditAccount(q) = WalletAccount(u, b) <=> Gets(q, u, b)
              /\ DebitAccount(q) = WalletAccount(u, b) <=> Pays(q, u, b)
         /\ q.kind = "intent" => ~ Gets(q, u, b) /\ ~ Pays(q, u, b)
<1>1. q.kind \in {"credit", "debit", "lock", "unlock", "transfer", "intent"}
  BY DEF MovementOK
<1>2. /\ \A v, a : WalletAccount(v, a) = WalletAccount(u, b) <=> v = u /\ a = b
      /\ SystemAccount # WalletAccount(u, b)
  BY DEF WalletAccount, SystemAccount
<1>3. q.kind # "intent" =>
        /\ CreditAccount(q) = WalletAccount(u, b) <=> Gets(q, u, b)
        /\ DebitAccount(q) = WalletAccount(u, b) <=> Pays(q, u, b)
  BY <1>1, <1>2 DEF CreditAccount, DebitAccount, Gets, Pays
<1>4. q.kind = "intent" => ~ Gets(q, u, b) /\ ~ Pays(q, u, b)
  BY DEF Gets, Pays
<1> QED
  BY <1>3, <1>4

\* A step that leaves the ledger and the balances leaves them reconciled.
LEMMA LedgerUntouched ==
  ASSUME LedgerInv, ledger' = ledger,
         \A u \in Users, b \in Buckets : wallet'[u][b] = wallet[u][b]
  PROVE  LedgerInv'
<1>1. Cents' = Cents /\ \A a : Debits(a)' = Debits(a) /\ Credits(a)' = Credits(a)
  BY DEF Cents, Debits, Credits
<1>2. ASSUME NEW a PROVE Summable(Debits(a)', Cents') /\ Summable(Credits(a)', Cents')
  BY <1>1 DEF LedgerInv
<1>3. ASSUME NEW u \in Users, NEW b \in Buckets
      PROVE  LET a == WalletAccount(u, b)
             IN  wallet'[u][b] + Total(Debits(a)', Cents') =
                   Opening[u][b] + Total(Credits(a)', Cents')
  BY <1>1 DEF LedgerInv, LedgerReconciles
<1> QED
  BY <1>2, <1>3 DEF LedgerInv, LedgerReconciles

\* An entry is added to the side of the ledger that it names.
LEMMA EntryAddsUp ==
  ASSUME LedgerInv, NEW e, e \notin ledger, e.amount \in Nat,
         ledger' = ledger \union {e}, NEW a
  PROVE  /\ Summable(Debits(a)', Cents')
         /\ Total(Debits(a)', Cents') =
              Total(Debits(a), Cents) + IF e.debit = a THEN e.amount ELSE 0
         /\ Total(Debits(a), Cents) \in Nat
         /\ Summable(Credits(a)', Cents')
         /\ Total(Credits(a)', Cents') =
              Total(Credits(a), Cents) + IF e.credit = a THEN e.amount ELSE 0
         /\ Total(Credits(a), Cents) \in Nat
<1>1. ASSUME NEW S \in SUBSET ledger, Summable(S, Cents)
      PROVE  /\ Summable(S, Cents') /\ Total(S, Cents') = Total(S, Cents)
             /\ Summable(S \union {e}, Cents')
             /\ Total(S \union {e}, Cents') = Total(S, Cents) + e.amount
             /\ Total(S, Cents) \in Nat
  <2>1. \A x \in S : Cents'[x] = Cents[x]
    BY DEF Cents
  <2>2. Summable(S, Cents') /\ Total(S, Cents') = Total(S, Cents)
    BY <1>1, <2>1, TotalOfEqual
  <2>3. e \notin S /\ Cents'[e] = e.amount
    BY DEF Cents
  <2>4. /\ Summable(S \union {e}, Cents')
        /\ Total(S \union {e}, Cents') = Total(S, Cents') + Cents'[e]
    BY <2>2, <2>3, TotalGrows
  <2> QED
    BY <1>1, <2>2, <2>3, <2>4, TotalIsNat
<1>2. Summable(Debits(a), Cents) /\ Summable(Credits(a), Cents)
  BY DEF LedgerInv
<1>3. Debits(a) \in SUBSET ledger /\ Credits(a) \in SUBSET ledger
  BY DEF Debits, Credits
<1>4. /\ Summable(Debits(a)', Cents')
      /\ Total(Debits(a)', Cents') =
           Total(Debits(a), Cents) + IF e.debit = a THEN e.amount ELSE 0
      /\ Total(Debits(a), Cents) \in Nat
  <2>1. CASE e.debit = a
    <3>1. Debits(a)' = Debits(a) \union {e}
      BY <2>1 DEF Debits
    <3> QED
      BY <1>1, <1>2, <1>3, <2>1, <3>1
  <2>2. CASE e.debit # a
    <3>1. Debits(a)' = Debits(a)
      BY <2>2 DEF Debits
    <3>2. /\ Summable(Debits(a), Cents') /\ Total(Debits(a), Cents') = Total(Debits(a), Cents)
          /\ Total(Debits(a), Cents) \in Nat
      BY <1>1, <1>2, <1>3
    <3> QED
      BY <2>2, <3>1, <3>2
  <2> QED
    BY <2>1, <2>2
<1>5. /\ Summable(Credits(a)', Cents')
      /\ Total(Credits(a)', Cents') =
           Total(Credits(a), Cents) + IF e.credit = a THEN e.amount ELSE 0
      /\ Total(Credits(a), Cents) \in Nat
  <2>1. CASE e.credit = a
    <3>1. Credits(a)' = Credits(a) \union {e}
      BY <2>1 DEF Credits
    <3> QED
      BY <1>1, <1>2, <1>3, <2>1, <3>1
  <2>2. CASE e.credit # a
    <3>1. Credits(a)' = Credits(a)
      BY <2>2 DEF Credits
    <3>2. /\ Summable(Credits(a), Cents') /\ Total(Credits(a), Cents') = Total(Credits(a), Cents)
          /\ Total(Credits(a), Cents) \in Nat
      BY <1>1, <1>2, <1>3
    <3> QED
      BY <2>2, <3>1, <3>2
  <2> QED
    BY <2>1, <2>2
<1> QED
  BY <1>4, <1>5

\* A commit books what it moves.
LEMMA CommitReconciles ==
  ASSUME Inv, AnswersAreTrue, LedgerInv, NEW c \in Calls, Commit(c)
  PROVE  LedgerInv'
<1> DEFINE q == req[c]
<1>1. MovementOK(q)
  BY MovementsWellFormed DEF Inv, TypeOK, Commit
<1>2. q.amount \in Nat
  BY <1>1, MaxIntAssumption DEF MovementOK
<1>3. \A u \in Users, b \in Buckets : wallet[u][b] \in Int /\ Opening[u][b] \in Int
  BY OpeningAssumption, MaxIntAssumption DEF Inv, TypeOK, Balances
<1>4. \A u \in Users, b \in Buckets :
        wallet'[u][b] = wallet[u][b] + (IF Gets(q, u, b) THEN q.amount ELSE 0)
                                     - (IF Pays(q, u, b) THEN q.amount ELSE 0)
  BY DEF Commit, Applied
<1>5. CASE q.kind = "intent"
  <2>1. ledger' = ledger
    BY <1>5 DEF Commit
  <2>2. \A u \in Users, b \in Buckets : wallet'[u][b] = wallet[u][b]
    BY <1>1, <1>2, <1>3, <1>4, <1>5, BookedAsMoved
  <2> QED
    BY <2>1, <2>2, LedgerUntouched
<1>6. CASE q.kind # "intent"
  <2> DEFINE e == EntryOf(c)
  <2>1. /\ e.id = c /\ e.amount = q.amount
        /\ e.debit = DebitAccount(q) /\ e.credit = CreditAccount(q)
        /\ ledger' = ledger \union {e}
    BY <1>6 DEF Commit, EntryOf
  <2> HIDE DEF e
  <2>2. e \notin ledger
    BY <2>1 DEF AnswersAreTrue, EntriesBy, Commit
  <2>3. ASSUME NEW a
        PROVE  Summable(Debits(a)', Cents') /\ Summable(Credits(a)', Cents')
    BY <1>2, <2>1, <2>2, EntryAddsUp
  <2>4. ASSUME NEW u \in Users, NEW b \in Buckets
        PROVE  LET a == WalletAccount(u, b)
               IN  wallet'[u][b] + Total(Debits(a)', Cents') =
                     Opening[u][b] + Total(Credits(a)', Cents')
    <3> DEFINE a == WalletAccount(u, b)
    <3>1. /\ Total(Debits(a)', Cents') =
               Total(Debits(a), Cents) + IF e.debit = a THEN e.amount ELSE 0
          /\ Total(Debits(a), Cents) \in Nat
          /\ Total(Credits(a)', Cents') =
               Total(Credits(a), Cents) + IF e.credit = a THEN e.amount ELSE 0
          /\ Total(Credits(a), Cents) \in Nat
      BY <1>2, <2>1, <2>2, EntryAddsUp
    <3>2. (e.credit = a <=> Gets(q, u, b)) /\ (e.debit = a <=> Pays(q, u, b))
      BY <1>1, <1>6, <2>1, BookedAsMoved
    <3>3. wallet[u][b] + Total(Debits(a), Cents) = Opening[u][b] + Total(Credits(a), Cents)
      BY DEF LedgerInv, LedgerReconciles
    <3> HIDE DEF a, q
    <3> QED
      BY <1>2, <1>3, <1>4, <2>1, <3>1, <3>2, <3>3 DEF a
  <2> QED
    BY <2>3, <2>4 DEF LedgerInv, LedgerReconciles
<1> QED
  BY <1>5, <1>6

\* Double entry, to the cent: every bucket is its opening balance plus what the
\* ledger credits to it minus what the ledger debits from it.
THEOREM LedgerAlwaysReconciles == Spec => []LedgerReconciles
<1>1. Init => LedgerInv
  <2> SUFFICES ASSUME Init PROVE LedgerInv
    OBVIOUS
  <2>1. \A a : Debits(a) = {} /\ Credits(a) = {}
    BY DEF Init, Debits, Credits
  <2>2. \A u \in Users, b \in Buckets : wallet[u][b] = Opening[u][b] /\ Opening[u][b] \in Int
    BY OpeningAssumption, MaxIntAssumption DEF Init
  <2> QED
    BY <2>1, <2>2, TotalOfNone DEF LedgerInv, LedgerReconciles
<1>2. Inv /\ AnswersAreTrue /\ LedgerInv /\ [Next]_vars => LedgerInv'
  <2> SUFFICES ASSUME Inv, AnswersAreTrue, LedgerInv, [Next]_vars PROVE LedgerInv'
    OBVIOUS
  <2>1. CASE \E c \in Calls : Commit(c)
    BY <2>1, CommitReconciles
  <2>2. CASE ~ \E c \in Calls : Commit(c)
    <3>1. UNCHANGED <<wallet, ledger>>
      BY <2>2, QuietStep
    <3> QED
      BY <3>1, LedgerUntouched
  <2> QED
    BY <2>1, <2>2
<1>3. LedgerInv => LedgerReconciles
  BY DEF LedgerInv
<1> QED
  BY <1>1, <1>2, <1>3, Invariance, CallersAreToldTheTruth, PTL DEF Spec

-----------------------------------------------------------------------------
(* The service implements the book.                                        *)

\* The book's movements are the service's.
LEMMA SameOperators ==
  /\ Book!Movements = Movements
  /\ \A q : Book!KeysOf(q) = KeysOf(q)
  /\ \A q, w : /\ Book!Affordable(q, w) <=> Affordable(q, w)
              /\ Book!Applied(q, w) = Applied(q, w)
  /\ \A w : Book!Fits(w) <=> Fits(w)
<1>1. Book!Movements = Movements
  BY DEF Book!Movements, Movements, Book!Reversals, Reversals, Book!Buckets,
         Buckets, Book!RowId, RowId, Book!ReversalKey, ReversalKey,
         Book!Sides, Sides
<1>2. ASSUME NEW q PROVE Book!KeysOf(q) = KeysOf(q)
  BY DEF Book!KeysOf, KeysOf, Book!KeyOf, KeyOf, Book!LegsOf, LegsOf
<1>3. ASSUME NEW q, NEW w
      PROVE  /\ Book!Affordable(q, w) <=> Affordable(q, w)
             /\ Book!Applied(q, w) = Applied(q, w)
  BY DEF Book!Affordable, Affordable, Book!Applied, Applied, Book!Pays, Pays,
         Book!Gets, Gets, Book!Buckets, Buckets
<1>4. ASSUME NEW w PROVE Book!Fits(w) <=> Fits(w)
  BY DEF Book!Fits, Fits, Book!Buckets, Buckets
<1> QED
  BY <1>1, <1>2, <1>3, <1>4

\* Only a commit writes: every other step is invisible to the book.
LEMMA CommitPosts ==
  ASSUME Inv, NEW c \in Calls, Commit(c)
  PROVE  Book!Post(req[c])
<1>1. Affordable(req[c], wallet)
  BY CommitFunded DEF Commit
<1>2. Fits(wallet')
  BY DEF Inv, StillFunded, Commit
<1> QED
  BY <1>1, <1>2, CommitKeys, SameOperators DEF Book!Post, Commit

\* Every behaviour of the locked transactions is a behaviour of the book: each
\* movement is posted whole, once, and only if it can be paid for.
THEOREM ServiceKeepsTheBook == Spec => KeepsTheBook
<1>1. Init => Book!Init
  BY DEF Init, Book!Init, CommittedKeys
<1>2. Inv /\ [Next]_vars => [Book!Next]_(Book!bookVars)
  <2> SUFFICES ASSUME Inv, [Next]_vars
               PROVE  Book!Next \/ UNCHANGED <<wallet, CommittedKeys>>
    BY DEF Book!bookVars
  <2>1. CASE \E c \in Calls : Commit(c)
    <3>1. PICK c \in Calls : Commit(c)
      BY <2>1
    <3>2. req[c] \in Movements
      BY <3>1 DEF Inv, TypeOK, Commit
    <3> QED
      BY <3>1, <3>2, CommitPosts, SameOperators DEF Book!Next
  <2>2. CASE ~ \E c \in Calls : Commit(c)
    <3>1. UNCHANGED <<wallet, rows>>
      BY <2>2, QuietStep
    <3> QED
      BY <3>1 DEF CommittedKeys
  <2> QED
    BY <2>1, <2>2
<1> QED
  BY <1>1, <1>2, Invariance, PTL DEF Spec, KeepsTheBook, Book!Spec
=============================================================================
