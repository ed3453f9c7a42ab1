# Helixcoin: specifications of the money paths and the services around them

Helixcoin is a Next.js application in which players hold a balance, bet it on
matches of a browser game, deposit and withdraw it through PIX gateways, and in
which affiliates and managers earn commissions.  Everything that matters is a
row in Postgres, a key in Redis, or a promise of a gateway; everything that is
hard happens because a request is a *sequence* of statements against them, many
requests run at once, and any of them can die between two statements.

This directory specifies that behaviour in TLA+, model-checks it with TLC on
small instances, and proves with TLAPS, for every instance, every invariant
those runs check: of the wallet, deposits, withdrawals, a match, commissions and
payouts, sessions, sign-in, configuration versions, invitations, the first-deposit
bonus, the gateway router, push notices and accounts.  What only the model checker
shows is liveness.  Paths below are relative to the repository (`src/modules/...`).

## 1. The system

| Component | State | Operations | Talks to |
|---|---|---|---|
| **Wallet** `src/modules/wallet` | `wallets` (three Int buckets: main, locked, bonus), `wallet_transactions` (unique `idempotencyKey`), ledger entries | credit, debit, refund, adjust, lock, unlock, transfer, reverse, initiateDeposit | called by every component that moves money; writes the ledger in the same transaction |
| **Ledger** `src/modules/ledger` | `ledger_entries`, append only | createEntry, reports | only the wallet writes it |
| **Webhook dispatch** `payments/services/webhook-dispatcher.service.ts` | `payment_webhooks` (unique nullable `providerEventId`, non-unique `payloadHash`) | dispatch, reprocess | gateways call it; it calls `PaymentService.settle` |
| **Deposits** `payments/services/payment.service.ts` | `deposits.status` | createDeposit, settle(deposit.\*), reconcileDeposit | gateway, wallet credit, `depositConfirmed` event |
| **Withdrawals** (same file) | `withdraws.status`, a Redis lock per player | requestWithdraw, settle(withdraw.\*), reconcileWithdraw, decideSimulatedWithdraw (demo accounts) | Redis lock, wallet lock/unlock/debit, gateways with fail-over |
| **Reconciliation** `payment-reconciliation.service.ts` | none | every five minutes, polls stuck VEOPAG rows from the worker process | dispatcher |
| **Match engine** `src/modules/match-engine` | `matches.status`, progress, payout | create, begin, reportProgress, resolve, invalidate | wallet debit and credits; telemetry, anti-cheat and audit |
| **Gateway router, providers** `payments/services/gateway-router.service.ts` | `payment_gateways` order, an in-memory round-robin counter, `gateway_health` rows | resolveCandidates, filterHealthy, withFailover, recordHealthCheck | providers over HTTP; health alarms on the event bus |
| **Cache, cache lock, rate limit** `src/server/cache` | Redis keys with a TTL | withLock, get/set, INCR then EXPIRE | Redis |
| **Event bus** `src/server/events` | subscribers in memory | publish, subscribe | in-process only |
| **Affiliate commissions** `src/modules/affiliate` | `commissions.status`, the payee's *locked* bucket | handleDepositConfirmed, generate, approve, reject | `depositConfirmed`, wallet |
| **Commercial withdrawals** `src/modules/commercial-withdrawals` | own rows, PIX keys, a Redis lock per payee, the same *locked* bucket | request, approve, reject, delete a key | wallet, Redis lock |
| **Promotions** `src/modules/promotions` | none of its own: what it decides by is the list of DEPOSIT transactions | award on `depositConfirmed` | event bus, wallet bonus |
| **Managers** `src/modules/manager` | invites, manager profiles | invite, accept, approve, reject, regenerate, revoke | identity |
| **Auth tokens** `src/server/auth` | Redis: a key per session, a set per token family; `sessions` rows | issue, rotate, revoke one, all, a family | Redis, database |
| **Identity** `src/modules/identity` | users: status, login attempts, unique columns, `deletedIdentitySnapshot` | login, register, update, block, softDelete, restore | rate limiter, auth tokens |
| **Game configuration** `src/modules/game-config` | versions: DRAFT, ACTIVE, ARCHIVED | upsertDraft, activate, restore | the match engine reads the active version |
| **Notifications and queues** `src/modules/notifications` | push subscriptions, delivery log, BullMQ jobs | dispatch, worker job, beacons | push service, browser |
| Anti-cheat, demo accounts, game client, HTTP layer, admin UI | see `PROJECT.json` | | |

What makes each of them correct, and what makes that hard:

* **Wallet.**  No bucket is ever overdrawn or leaves its Int column; one
  idempotency key moves money once; a caller told "moved" or "replayed" can rely
  on the movement being in the book, one told "failed" on its being absent; the
  ledger reconciles with every bucket.  Hard because the key is looked up
  *before* any lock is taken, the funds check and the increment are separate
  statements, transfers lock two rows, and a process may die anywhere.
* **Webhook dispatch.**  Gateways duplicate, delay, reorder and stop sending.
  Most payloads have no event id, so nothing unique stops two deliveries from
  creating a row each.  A 200 must mean "settled".
* **Deposits, withdrawals.**  A settlement is a read, a wallet movement and an
  unconditional update, three statements; two of them may run at once, for
  opposite verdicts.  The status must tell the truth about the money, the
  locked bucket must equal what is reserved, a reservation must end once, and
  what a gateway decided must be settled in the end.
* **Match engine.**  The wallet is moved *before* the compare-and-swap that
  decides the match.  An outcome must be backed by its movement, and written
  only as the state machine allows.
* **Commissions, commercial withdrawals.**  Two services draw on one locked
  bucket.  A commission is credited before its row exists and ruled on by a
  read and an unconditional update; a payout's status is swapped before its
  money moves.  The bucket must hold what is owed from it, rows must follow
  money, and an in-process event may be lost.
* **Promotions.**  "The first deposit" is decided by counting when the event is
  handled: two first deposits at once must not both earn the bonus.
* **Auth tokens.**  Rotation checks a key and deletes it in two commands.  A
  token used twice must end its family, a revocation must leave nothing of it in
  Redis to refresh with, and a family that ended must stay dead.
* **Sign-in.**  Two counters are made effective one statement after they are
  counted; both must still bound the guesses.
* **Game configuration, managers, accounts.**  Check, then write by id, without a
  transaction: there must be a sound active version, a manager must have a
  profile and an account, and nobody's identity may be lost or blocked.
* **Gateway router.**  Turns must be fair though the list of gateways is awaited before
  the counter is used, and the last alarm must agree with the last health row though
  the two are written one after the other.
* **Push notices.**  One row is updated by id from a dispatcher, a worker and two
  beacons; it must not stay QUEUED for nobody, not even when the job has used up its
  attempts, nor go back from CLICKED.

`PROJECT.json` lists every hazard at its line, with the properties that cover
it; two have none, with the reason.

## 2. The modules

    WalletOps        what one movement does (operators)
      MoneyBook      abstract: a book of balances and spent keys
      Wallet         detailed: WalletService's concurrent transactions
        WalletProofs   theorems about Wallet, and Wallet => MoneyBook
        MCWallet
    Cents            sums of amounts, as numbers of cents
      CentsTheorems    of Wallet, Deposits, Withdrawals and Earnings, which use it
    Webhooks         dispatcher, without the settlement
      Deposits       EXTENDS Webhooks, INSTANCE MoneyBook   -- MCDeposits
        DepositsProofs
      Withdrawals    EXTENDS Webhooks, INSTANCE MoneyBook   -- MCWithdrawals
        WithdrawalsProofs
    MatchEngine      INSTANCE MoneyBook                     -- MCMatchEngine
      MatchEngineProofs
    DepositEvents    depositConfirmed on the bus, INSTANCE MoneyBook
      Commissions             EXTENDS DepositEvents
      CommercialWithdrawals   EXTENDS DepositEvents
        Earnings     both, over one locked bucket           -- MCEarnings
          EarningsProofs
      Promotions              EXTENDS DepositEvents
    Sessions, SignIn, ManagerInvites, Accounts
      PeopleProofs   theorems about these four
    GameConfig, GatewayRouter, PushNotifications
      Office         these seven and Promotions             -- MCOffice
        OfficeProofs   about the other four and Office, EXTENDS PeopleProofs

The composition is by refinement.  `Wallet` is the only module in which a wallet
movement is many steps; it implements `MoneyBook` (checked by `wallet_calls`,
proved by `ServiceKeepsTheBook`), in which a movement is one atomic `Post`.  The
services are therefore modelled on `MoneyBook`: a call of `walletService` is one
step, `PostOnce` (moved now, or replayed because its key is spent) or `Refused`
(not affordable, or out of the column).  Their own steps stay apart, exactly
where the code awaits: reading a row, calling the wallet, updating the row.

Services that share state are composed so that their steps interleave: deposits
and withdrawals with the dispatcher, commissions with commercial withdrawals.
The eight services of `Office` share none, so a behaviour of `Office` follows one
of them, chosen at the start, while the others stay as they began: interleaving
them would multiply the states and add no behaviour of any of them.

### WalletOps, MoneyBook, Wallet

`Wallet` has one transaction per call.  `Begin` is the call with its request;
`Find` is `findByIdempotencyKey`, before the transaction; `Acquire` is
`SELECT ... FOR UPDATE`, one wallet at a time in the order of the user ids
(`Rank`); `Move` is the funds check and `applyDelta`; `Insert` is the transaction
rows, which wait for or fail on the unique index; `Commit` makes balance, rows
and ledger pair visible and frees the locks; `Recover` is the look-up after a
P2002.  `Crash` may strike any working call and rolls it back.  It also stands
for Prisma's transaction timeout and for a lost connection: either way the
transaction leaves nothing.  `BeginReverse` derives its movement from a committed row
the way `reverse()` does, from the row's own balances.

`rows` is the set of committed rows, `ledger` the booked pairs.  `snapshot` is
what a transaction read under its lock; `inserted` the keys it holds
uncommitted in the unique index.

### Webhooks

`hooks[p]` is the sequence of rows of payload `p`, oldest first.  `Deliver`,
`Find`, `Resolve`, `CreateRow`, `Adopt` and `Record...` follow `dispatch`; the
module leaves "settle" to the module that extends it.  `PROCESSED` stands for
`REPROCESSED` and the initial status for `PENDING`, `RECEIVED` and
`PROCESSING`: no condition of the code tells those apart.  MOCK numbers every
event afresh, so its poll and its webhook of one outcome are two bodies; VEOPAG's
polls of one outcome hash the same each time.  The `from` field of a payload
says which of the two bodies it is.  `acked` remembers which payloads were
answered with a 200; only properties and the gateways' fairness read it.

### Deposits

`Charge` calls the gateway, `Persist` creates the row, `LoseCharge` is the process
dying in between.  `GatewayDecides` picks an outcome within `Histories`, the sets
of outcomes one charge can have.  `SettleRead`, `SettleCredit` and `SettleUpdate`
are the three statements of every deposit branch of `settle`.

### Withdrawals

`TakeLock` is `SET NX PX`, `ReserveFunds` the wallet lock, `GatewayAccepts` and
`GatewayFails` one candidate of `withFailover` with all its retries (`heard`: it timed out but
took the request), `GiveFundsBack` the catch, `Persist` the row, `Release` and
`DeleteKey` the two statements of the lock's release.  `RequestThrows` is the lock, the
unlock or the creation of the row failing while the process lives: the lock's
`finally` runs, and what was reserved stays locked without a row.  `LockExpires`
needs a dead holder or a holder that waited `LockTTL` timed-out gateways: time is counted in
timed-out gateways, because 45 s of them against a 90 s lock is the only
race with the clock the code has.  90 s are sure to outlive one of them and not two,
so that `LockTTL` is 1 where there are two candidates.  `SettleRead`, `SettleMove` and
`SettleUpdate` are the withdraw branches of `settle`; `Decide` and `MoveDecided` are
`decideSimulatedWithdraw`, which swaps the status first and moves the money
after.

### MatchEngine

One match.  `Debit`, `Insert` and `Open` are the statements of `create`; every other
call reads the row (`seen`), computes the progress it arrives at (`reached`),
moves money if its branch does, and writes by compare-and-swap on the status it
read.  Multiplier arithmetic, telemetry and anti-cheat are reduced to what the
control needs: a number of platforms, `PayoutAt` of it, and a free verdict.

### DepositEvents, Commissions, CommercialWithdrawals, Earnings

`DepositEvents` keeps what `settle` leaves for subscribers.  `CreditDeposit` is the
credit, `Publish` the event after the update (up to `Publications` times, because
settlements of one deposit race), `Take` a listener's handler starting and
`LoseEvent` the death of the process, or the worker process where nobody
subscribed.  `inbox` counts the events each subscriber has still to start on.

In `Commissions` a *desk* is one running call.  `HandleDeposit` reads the
settings and begins a deposit's commissions in the order in which
`handleDepositConfirmed` generates them (`Payouts`: the referral chain, the
affiliates' percentages and overrides, the managers' spread).
`FindExisting`, `CreditLocked` and `CreateRow` are `generate`; its unique
`walletTransactionId` makes an overtaken handler throw, which drops the
commissions it still had to do.  `Rule` begins `approve` or `reject`, whose
statements are `ReadLocked`, `MoveRuled` and `UpdateRow`; automatic approval takes
the same three.

In `CommercialWithdrawals`, `AskPayment` takes the lock and reads the key,
`LockAmount` reserves, `FileRow` creates the row under the key's foreign key,
`CreateThrows` is that creation failing for any other reason,
`ReleaseLock` ends the request; `LockLapses` frees the lock of a dead request, or, as
a fault, of a slow one.  `DecidePayment` is the `updateMany` on PENDING,
`MovePayment` the wallet call after it.  `CheckKeyUnused` and `DeleteKey` are the two
statements of a key's deletion.

`Earnings` is both: its `Next` lets either move while the book is shared.
`Owed` adds up what each user's commissions (`Pending`) and payouts
(`Awaiting`) have in the locked bucket.  It is a sum over a set that grows
and shrinks, and `Cents` writes it as the number of pairs of an item and one of
its cents, which needs no recursion.

`early` records the deposits of which an administrator ruled on a commission
before all of them had rows (`Recorded`): the handler's own approval then throws, and the
commissions after it are lost, which is how the code is written.  The same
happens, to *another* deposit's handler, once some commission was both approved
and rejected: the second movement takes what belongs to others, so an automatic
approval is refused and drops the commissions behind it.  It takes two deposits
of one payee to show, and it is why `EarningsArrive` supposes `NobodyRulesTwice`.

### Promotions

`BeginBonus` takes the event and tests eligibility, `CountDeposits` counts the
player's DEPOSIT transactions *now*, `CreditBonus` credits the bonus bucket.

### Sessions, SignIn, Accounts

`Sessions` takes one Redis command or SQL statement per step.  `StoreFirst` or
`StoreNext`, `AddMember` and `Answer` are `issueTokenPair` and the session row;
`Refresh` and `FindSession` begin the rotation, and a session that is gone turns it into
`revokeFamily` (`ReadMembers`, `DeleteKeys`, `DeleteSet`, `CloseRow`).  `GetSession`,
`UnsetSession` and `UnlistSession` are the three commands of `revokeSession`, which a
rotation and a logout go through.  `Login`, `Block`, `RevokeAll`, `RevokeOne` and
`Logout` begin the calls that lead there; `ListActive` is the list of sessions a mass
revocation works off.  `live` and `members` are Redis, `sessionRow` the database, `held` the tokens
somebody has.

`SignIn` counts one address and one user: `Hit` and `SetExpiry` are INCR and
EXPIRE, `FindUser` the look at `lockedUntil`, `IncrementLoginAttempts` and
`SetLockedUntil` the two updates after a wrong password, `Reset` the one after a
right one.

`Accounts` follows one person's unique columns through the accounts that bear
them: `Register` and `CreateUser`, `Update` and `EditRow`, `SoftDelete` with
`CopyIdentity` and `Tombstone`, `RestoreAccount` with `ReadSnapshot` and `WriteBack`
are each a check and the statements that follow it.

### GameConfig, ManagerInvites

`GameConfig` keeps the versions in the order of their numbers.  `UpsertDraft` and
`Restore` find the draft; `FindLatest` and `CreateDraft`, or `UpdateDraft`, write it.
`Activate` validates, and `Archive` and `Mark` are the two statements after that.

`ManagerInvites` has `Accept`, `CreateAccount`, `MarkAccepted`; `Approve`, `Promote`,
`CreateProfile`, `MarkApproved`; `Reject`, `Regenerate` and `Revoke` with the update of
each.  All update by id what they read before.

### GatewayRouter, PushNotifications

`GatewayRouter` is ROUND_ROBIN: `ListCandidates` awaits the active gateways, `TakeTurn`
rotates that list by the counter and advances it, `FilterHealthy` drops the gateways found
offline.  `Exhausted` is a candidate that failed and is checked: the check reads the
last health row, `AskGateway` has the provider's answer and writes the next, `Announce`
publishes the alarm if one is due; `CheckThrows` is a read or write of it that fails.
`SetActive` changes the set of gateways under the counter and under lists already
read; `Restart` is the process dying between any two of these statements, with a
counter that begins at 0 again.

`PushNotifications` has one device.  `Dispatch`, `CreateLog` and `Enqueue` are the
dispatcher, `TakeJob`, `Send`, `Record` and `MarkExpired` the worker's job.  `RunThrows` uses
up one of its `Attempts`: BullMQ runs it again (`AfterFailure`), or `HandToDeadLetters` is
the worker's "failed" handler.  `WorkerDies` is a stalled job, which BullMQ takes again or
gives up, and the death or failure of the hand-off.  `ReadDelivered`, `MarkDelivered` and
`MarkClicked` are the beacons, `EndpointLost`, `Subscribe` and `Unsubscribe` the device.

## 3. The runs

| Run | Shows | Instance |
|---|---|---|
| `wallet_calls` | `NeverOverdrawn`, `AnswersAreTrue`, `LedgerReconciles`; `Inv`, the inductive invariant of the proofs; `EveryCallAnswered`, so ordered row locks do not deadlock; `KeepsTheBook`, the refinement of MoneyBook | 3 calls, 2 wallets: debit, lock, unlock, credit, intent, reversals, crossing transfers, a shared key, a credit that fills the column |
| `deposit_settle` | `PaidMeansCredited`, and `PaidIsCredited` in the end | 1 deposit whose payloads have event ids, every mix of outcomes (paid and refunded, expired and paid), 2 workers, 1 fault |
| `deposit_two` | `WalletHoldsPaidDeposits`, `AckedMeansCredited` with duplicate rows, and a second credit that does not fit | 2 deposits of one player, one without event ids, 2 workers, 1 fault |
| `withdraw_settle` | in the end `VerdictIsSettled` and `NoStrandedFunds` | 1 withdrawal, 1 gateway that approves or rejects and whose answer may be lost, 2 workers, 1 fault: a death, or any statement that throws; or a demo account's |
| `withdraw_lock` | `LockedIsReserved`, `StatusTellsTheMoney`, `AckedMeansSettled`, `GivenBackOnlyIfUnheld`, `OneRequestAtATime`, if no answer is lost | 2 requests, 2 gateways that may give both verdicts on one request, a lock that outlives one timeout and not two, 1 worker, 1 fault; or 2 withdrawals of a demo account and its administrators |
| `match_calls` | `OutcomeIsFunded`, `WritesAreTransitions`, `GoalIsPromoted` | 4 calls, 1 crash, 2 platforms |
| `earnings` | `LockedIsOwed`, `RowsFollowMoney`, `PayoutsTellTheMoney`, `EarningsArrive` | 1 deposit published twice, two commissions of two payees, 2 desks, 1 payout, 1 PIX key, 1 fault |
| `office` | `DeadFamiliesStayDead`, `RevocationsFinish`, `SignInIsBounded`, `VersionsAreSound`, `ManagersAreSound`, `OneBonusPerPlayer`, `RoundRobinIsFair`, `AlarmsAreCurrent`, `NoticesAreAccountedFor`, `IdentitiesAreSafe` | two calls of each service at once, and one that may die (two of a notice); see the bounds |
| `deposit_late`, `withdraw_timeout`, `match_money`, `earnings_rulings` | where the code does not do what its comments say | below |

The run of each service also checks its type invariant (of the wallet, within
`Inv`).  Some properties are conjunctions of named parts, each of which is stated
with its own comment: `StatusTellsTheMoney` includes that a reservation ends
once, but for contradictory verdicts; `PayoutsTellTheMoney` is `SettledOneWay`,
`ReservedIsFiled` and, unless a commission was ruled on both ways, `StatusMatchesMovement`; `SignInIsBounded` is `CounterExpires`
and `GuessesAreBounded`; `VersionsAreSound` is `SomeVersionIsActive` and
`SerialEditsAreSound`; `ManagersAreSound` is `ApprovedHasProfile`, `ManagersHaveProfiles`
and `SerialVerdictsStand`; `NoticesAreAccountedFor` is `QueuedIsPending`,
`FirmClicksStand` and `ExpiredIsGone`; `IdentitiesAreSafe` is `IdentityIsKept` and
`DeletedIsOutOfTheWay`.

Where the code makes no promise for calls that overlap, the property says so by
a history variable rather than by a smaller model: `overlapped`, `crossed`,
`contended`, `overlapping`, `contested`, `renewed`, `edited`, `early` record that it
happened, the model goes on, and the parts that hold regardless (`SomeVersionIsActive`,
`ApprovedHasProfile`, `ManagersHaveProfiles`, `QueuedIsPending`) are stated without them.
The same is done where the code breaks a promise under a fault or a contradiction: the property
says how far it goes.  `RoundRobinIsFair` allows a gateway one turn more for each of
the `jumps`, the turns taken on an outdated list and the restarts, and `served` counts the
turns.  `AlarmsAreCurrent` leaves out the `doubtful` gateways, whose checks overlapped or
whose alarm a death prevented, until a check alone finds the next change.  `RevocationsFinish`
allows a session in Redis only in a family of which one was being issued when it was revoked
(`contested`).  `NoStrandedFunds` leaves out the requests in which a statement threw
(`failed`) or whose process died.  `LockedIsReserved` subtracts what was settled both ways,
and `OneRequestAtATime` counts the requests that outlived their lock.

Every property has a mutant in `PROJECT.json`: a plausible bug of a mapped
definition under which TLC finds that property violated in the same run.  The
mutated operators stand just before the definitions they alter, marked
`Mutant:`; no specification uses them.

**Bounds.**  `MaxFaults`, `MaxCrashes`, `MaxSignInDeaths`, `MaxConfigDeaths`,
`MaxInviteDeaths`, `MaxPushDeaths` and `MaxAccountDeaths` bound deaths of a process and
statements that throw; `MaxPlatforms` the length of a match, `MaxInt` the
balance column (1 or 2 cents where it is to be reached), `LockTTL` the lock's life
in timeouts, `Publications` how often one deposit's event is published,
`AttemptsBound` the lock-outs of a user, `MaxVersions` the versions of the configuration, `MaxEndpoints` the endpoints a browser gets.
`SessionBounds` and `RouterBounds` are sets of combined bounds of which a
behaviour has one: deaths and the tokens whose life may end; changes of the
active set, health checks and restarts.  `Attempts` is the queue's 3, `LoginMax` and
`MAX_LOGIN_ATTEMPTS` are the code's constants, made small enough to be passed.
The sets of calls, workers, gateways, deposits, withdrawals, tokens and so on
are finite.  Two workers are enough for
the races of one settlement with another because a settlement has three
statements and keeps nothing else; a worker is reused any number of times, so
a third only repeats what one of the two does.  The same holds of the desks,
clerks, administrators, requests and operators: each is a call, reused any
number of times, and each race named among the hazards is between two.  Two
families with two tokens are enough for a token to be used twice while another
family lives on; three gateways for the rotation to differ from a swap; three
versions for a draft to be made beside an active and an archived one; two accounts for
an identity to pass from one to the other.  (`hooks` grows by a row only for
a delivery that has seen no earlier one, which bounds it by the number of workers:
deliveries need no bound.)  Three wallet calls are
needed for a call that queues behind a holder while another recovers from its
key.  Amounts are a few cents: the code compares and adds amounts, so what matters
is whether a sum fits a balance, which the chosen openings make go both ways.
`ConcurrentSessions`, the values the operators give that setting, has both.
The theorems of section 4 lift these bounds from every invariant; liveness keeps them.

**Symmetry** is used only in runs that check invariants, over workers
(`deposit_two`), requests and gateways (`withdraw_lock`), calls (`match_money`) and desks
(`earnings`, `earnings_rulings`), which the specifications never tell apart.

**Deadlock** is checked in every run of the wallet, the deposits and the match.
`CHECK_DEADLOCK FALSE` is set in the withdrawals' runs: when every
request has ended without a row and every gateway has decided, no more work
exists, and the system rightly stops.  It is set in the runs of `Earnings` and
`Office`, where tokens, publications, versions, attempts and invitations run out by
the bounds above.

**Fairness.**  `WF` of a worker's, a call's or a request's next step says only
that a process which is not dead keeps running its own statements; no action
of the environment (a payment, a click, a crash) is fair.  `OfficeSpec` assumes it
of the requests of `Sessions`, whose liveness it checks.  A gateway repeats a
payload until it gets a 200, which is why the dispatcher answers 404 and 500 as
it does; or it does not, and the reconciliation job that `scripts/worker.ts`
starts every five minutes polls VEOPAG's deposits instead.  `FairSpec` of the
deposits assumes the weaker of the two, that one or the other keeps happening,
so that `PaidIsCredited` holds for either; `SF`, because the two workers may both
be busy in between.  AMPLOPAY is not polled: for it only the repeated webhook
counts, which withdrawals assume throughout.  Faults are bounded: a system that
fails at every attempt promises nothing.

**Disagreements.**  Four runs, with `expect: violation`, show a place where the
code does something else than its own comment says; each is a finding with the
quotation.

* *A row is updated after a guard that is no longer true.*
  In `deposit_late` two payloads of one deposit both read PENDING, and the later
  of two plain updates wins over a settled status.  (`SettledOnce` fails without any
  race too: the guard of `deposit.paid` trips on PAID alone, so a paid
  webhook reprocessed after the refund writes PAID over REFUNDED.)
* *One commission is ruled on twice.*  In `earnings_rulings` an approval and a
  rejection both read LOCKED; their movements have different keys, so the locked
  bucket pays for both.  What the second one takes belongs to a payout, whose own
  movement is then refused while its status stays decided.  A withdrawal
  settled for both verdicts has the same shape: alone its second movement is
  refused, since the locked bucket is empty by then; beside another reservation it
  is paid for by that one.  `withdraw_lock` has gateways that do it, and
  `LockedIsReserved` states the damage: exactly the amounts that were settled both ways.
* *Money moves before the statement that decides.*  In `match_money` a forfeit
  refunds the bet and a concurrent loss then wins the row.  The same order of
  statements lets an invalidation refund a match that ends CASHED_OUT, and two
  cash-outs at different progress credit one payout and record the other.
* *A timeout is not a refusal.*  In `withdraw_timeout` a gateway took the request
  and answered too late: the amount is unlocked although the gateway holds it.
  Two such gateways (45 s each against a 90 s lock) also let `LockExpires` free the
  lock under its holder, and the holder, which compared its token before, delete the
  key of the next request.  `withdraw_lock` does so with `LockTTL = 1`;
  `OneRequestAtATime` states how far it goes: at most one request without the lock for
  each that outlived it.

## 4. The proofs

Each theorem holds for every value of the constants that satisfies the
assumptions below; those whose name ends in *Invariance* are the inductive
invariants, which carry the others of their module.

| Module | Theorem | States |
|---|---|---|
| `WalletProofs` | `Invariance` | `Spec => []Inv` |
| | `BucketsNeverOverdrawn` | no bucket is negative or beyond its column |
| | `KeysWrittenOnce` | one committed row per idempotency key |
| | `CallersAreToldTheTruth` | what a call answered agrees with the book |
| | `LedgerAlwaysReconciles` | `LedgerReconciles`: every bucket is what was brought forward and the sum of its entries |
| | `ServiceKeepsTheBook` | every step of `Wallet` is a step of `MoneyBook` or stutters |
| `DepositsProofs` | `DepositsInvariance` | `DepositsInv` is an invariant |
| | `DepositsAreTyped` | the type invariant |
| | `PaidDepositsAreCredited` | a deposit shown as paid has its credit |
| | `AnsweredPaymentsAreCredited` | a payment answered with a 200 has its credit |
| | `WalletsHoldPaidDeposits` | the balance is the sum of the credited deposits |
| `WithdrawalsProofs` | `WithdrawalsInvariance` | `WithdrawalsInv` is an invariant |
| | `WithdrawalsTypeCorrect` | the type invariant |
| | `AckedMeansSettledAlways` | a verdict answered with a 200 has ended its reservation |
| | `GivenBackOnlyIfUnheldAlways` | no gateway holds what was given back, if no answer is lost |
| | `LockedIsReservedAlways` | the locked bucket is the sum of the open reservations less what was settled both ways, whatever gateways say |
| | `StatusTellsTheMoneyAlways` | `StatusTellsTheMoney`: one ending, or one each way where the gateway gave both verdicts |
| | `OneRequestAtATimeAlways` | no more requests run without the lock than have outlived it |
| `MatchEngineProofs` | `MatchInvariance` | `MatchInv` is an invariant |
| | `MatchIsTyped` | the type invariant |
| | `OutcomesAreFunded` | a match closes only after its money moved |
| | `StatusFollowsTransitions` | every write is a transition of the state machine |
| `EarningsProofs` | `EarningsInvariance` | `EarningsInv` is an invariant |
| | `EarningsTypeCorrect` | the type invariant |
| | `RowsAlwaysFollowMoney` | `RowsFollowMoney` |
| | `LockedIsAlwaysOwed` | `LockedIsOwed` |
| | `PayoutsAlwaysSettleOnce` | the first two parts of `PayoutsTellTheMoney` |
| | `PayoutsAlwaysTellTheMoney` | `PayoutsTellTheMoney`, if the columns hold the money |
| | `EarningsAlwaysArrive` | `EarningsArrive`, if the columns hold the money |
| `PeopleProofs` | `RevokedFamiliesStayRevoked` | no token revives a dead family |
| | `SignInInvariance`, `InvitesInvariance`, `AccountsInvariance` | the inductive invariants |
| | `SignInAlwaysBounded` | `SignInIsBounded` |
| | `ManagersAreMadeWhole` | `ManagersAreSound` |
| | `NobodyIsLockedOut` | `IdentitiesAreSafe` |
| | `SessionsTypeCorrect` | the type invariant of `Sessions` |
| `OfficeProofs` | `ConfigInvariance`, `PushInvariance`, `RouterInvariance` | the inductive invariants |
| | `MatchesHaveARulebook` | `VersionsAreSound` |
| | `EveryNoticeIsAccountedFor` | `NoticesAreAccountedFor`, exhausted jobs included |
| | `OneBonusAtMost` | `OneBonusPerPlayer` |
| | `TurnsAreFair`, `AlarmsStayCurrent` | `RoundRobinIsFair`, `AlarmsAreCurrent` |
| | `OfficeRunsItsServices` | a behaviour of `Office` is one of each of its services |
| | `OfficeIsSound` | hence it has the properties of all eight |
| | `OfficeTypeCorrect` | the type invariant |

### What is assumed

The assumptions on the constants are those of the modules, which TLC evaluates in
the runs: `MaxInt` is positive, requests are well-formed movements that do not use
`reverse()`'s keys, `Opening` lies within the columns, `NoCall` is no call, and
user ids are totally ordered; a gateway may have decided nothing yet
(`{} \in Histories`) and the payloads are those of the deposits or withdrawals; amounts
are positive and percentages natural numbers; `"commissions"` and `"promotions"`
subscribe to the event; the goal is one of the course's platforms and a
payout is positive; the values that mean "none" (`NoPayload`, `NoToken`, `Nobody`,
`NoAccount`) are none of what they stand beside; bounds are natural numbers.
`Gateways` and the `Callers` of a sign-in are finite.  The other sets, of calls,
workers, users, deposits, payouts, tokens, accounts and so on, are arbitrary, and
need not be finite.

Two hypotheses are not assumed of the constants but stated in the theorems that need
them, because the code does not guarantee them and the runs without them differ:

* `~ LostAnswers`: a gateway that timed out does not hold the request
  (`withdraw_timeout` shows what happens otherwise).
* `ColumnsHold`: each user's opening balances, deposits and commissions add up to
  no more than an Int column holds.  Otherwise an unlock may be turned
  down, though the locked bucket has the amount, because the *main* bucket has
  no room for it.  `earnings` satisfies it: 20 cents of column for 10 of deposit and 3 of
  commissions.

### Arguments

*The wallet.*  Neither "never overdrawn" nor "each key once" is inductive: the
transaction that commits now checked its funds and its key some steps ago.
`Inv` adds what carries those checks to the commit:

* `LockDiscipline`: a call past `Acquire` owns the rows of its wallets, and
  nobody else does;
* `SnapshotCurrent`: what it read under those locks is still in the
  database, because only an owner commits a balance;
* `StillFunded`: hence the funds check it passed still holds;
* `KeysExclusive`: a key that a transaction holds uncommitted in the unique
  index is committed by nobody and held by no other.

Each action has a lemma (`BeginInv`, `AcquireInv`, `InsertInv`, `RollbackInv`,
`CommitInv`, ...) with a step per conjunct it can disturb, and `StepInv` puts
them together.  The refinement then needs only `CommitPosts`: a commit is
`Post` of its request, and every other action leaves `wallet` and the committed keys
alone.  `SameOperators` relates the operators of the instance to the module's own.
Note that the look-up *before* the locks plays no part: the invariant holds
without it.  It spares a transaction; the unique index is what
makes a key count once.

*Sums.*  A recursive sum would need induction over data.  `Total(S, f)` is instead the
cardinality of the pairs of an item of `S` and one of its `f` cents, and
`CentsTheorems` has from the library's facts on finite sets that a total grows and
shrinks by one item's amount, and that a part is no more than the
whole.  The ledger, the credited deposits, the reservations and `Owed` are such
totals, and a step adds or removes one item.  `Summable` says that the
pairs are finitely many, which is an invariant too: the sets of calls may be infinite,
but only finitely many have moved money at any time.

*Deposits.*  That a paid deposit is credited is not inductive, because the worker
that writes PAID credited some steps ago.  `SettlersKnow` says what it carries:
at `update` for a payment or a refund, and at `settled` for a payment, the credit's
key is spent, and keys are never unspent (`Lasting`).  `WorkersHoldRows` and
`FoundIsPersisted` tie the row a worker records to a payload whose deposit exists.

*Withdrawals.*  `RequestKnows` follows a request (what it reserved, which gateways
can hold it, what it gave back), `WorkerKnows` a settlement, as for deposits;
they make `WithdrawalsInv`.  `Balanced` adds that the locked bucket and what was settled
both ways (`BothWays`) together are the total of the reservations that have not ended:
a reservation opens and raises both sides, its first ending lowers both, and a second
one, the other way, takes from the bucket what it adds to the settled-both-ways.
`MovesAreDecided` has that each movement is one its own gateway decided, so that both
happen only under both verdicts; an administrator decides once, hence
`DecisionsAreCarried`, that a decision which has been carried out has moved its money.
`LockInv` counts, and needs no relation between the lock's life and the gateways'
timeouts: there are no more requests that run without the lock than requests,
other than its holder, that waited longer than it lives.  A lock that expires under a
waiting holder adds it to both counts; a request whose key it then deletes is added to
the one as the deleter leaves it.

*A match.*  `SeenStillHolds` bounds how far the row can have moved since a call read
it: a call that read a match in play finds it in play or ended.  With
`MoneyMovedFirst` a call that closes the row has moved the money its outcome
takes, and a compare-and-swap that succeeds is a transition.

*Commissions and payouts.*  A handler deals with the rest of its deposit's
commissions: `DeskKnows` says that what it has in hand (`Handles`) and what comes after are that,
and that the ones before (`Earlier`) are recorded.  From this and `OneRuling`
a row follows its money.  `PaymentKnows` says of each payout what its request, lock,
row and decision know; a payout is settled one way because the decision that moves the
money won the row's compare-and-swap.

The money rests on `Moved`, which every step satisfies: it makes at most one
movement, a deposit's credit, a commission's credit or ruling, or a payout's reservation
or end.  So the locked bucket and `Owed` change by the same amount as long as nobody
has ruled twice (`Balanced`), and a wallet never has more than was brought forward,
deposited and earned (`Funded`).  With `ColumnsHold` no ruling and no decision is
refused (the lemma `NothingRefused`), which gives `PayoutsTellTheMoney`.  `EarningsArrive` needs one
idea more.  A handler that finds its commission credited by another loses the race
at the unique index and throws, together with everything it still had to do; nothing is
lost because the other one, whose row was first, *carries* the same rest (`Carries`,
`OnItsWay`), and nobody refuses it the approval on which the rest depends
(`OneRuling`, `NothingRefused`).

*Sessions.*  A family is dead when no session of it is live and nobody is about to
issue one in place of another (`Rotating`).  The only steps that add a session are a
first login, which takes a new family, and a rotation, whose request held a live session of the family
when it passed `FindSession`.  `SessionsTypes` says that whoever uses a session has its
token and whoever revokes has a family left to revoke (`Equipped`).

*Sign-in.*  The guesses are bounded by counting callers: every wrong password was
counted, or its call is about to count it, or it died in between, of which there are
at most `MaxSignInDeaths`.  The number of calls under way is a cardinality
again, hence the finite `Callers`.

*Configuration, invitations, accounts.*  All three separate what races cannot
break from what only serial calls keep.  `OneEditor`, `OneClerk` and `OneCallEach` say that
calls which have not overlapped are one at a time; `EditsKnow`, `SerialCalls` and
`CallsAgree` that what such a call read is still so; `TargetsExist`, `CallsKnow`, `RowsAgree`
and `CallsHaveTargets` hold regardless, since rows are never deleted and a candidate
keeps the invitation that created the account.  `IdentityIsSomewhere`
is `IdentityIsKept` made inductive: it says *where* the identity is before and after a deletion.

*The bonus.*  A handler that finds one DEPOSIT transaction of its player has found its own
(`HandledAreConfirmed`: an event is published after the credit), so of two
deposits of one player only the handlers of one can get to the bonus
(`OneAwardPerPlayer`), and those share the bonus's key.

*The router.*  `TurnsFollow` has two parts.  The turns of the round, read backwards, are
the places of the list before the counter's (`Follow`), so that as many as there are
gateways are all different.  And the counts are `Even`: leave out a gateway's turn in
the round under way, and any two have had equally many but for the jumps.  A full round is as
many different gateways as are active, so it is all of them, and the next one begins
level; an upset forgets the round, which costs a gateway at most one turn.
`ChecksFollow` is what alarms rest on: two checks of one gateway are recorded as
overlapping (`OverlapsAreSeen`), a check that overlaps none knows the row that is
there (`RowsAreKnown`), and, unless in doubt, one call at most has an alarm to announce and knows
the last one (`AlarmsFollow`).

*Push notices.*  `JobsFollowNotices` orders the dispatcher before its job and the
job before anything arrives; `AttemptsFollow` that a job runs only while it has attempts
left, is given up when it has none, and is lost only by a death; `ClicksAreLast` says that
no worker or beacon is left to write over a firm click; `EndpointsAge` that endpoints only
grow older, so that one reported gone is behind the browser's.

*Office.*  Each step of `Office` is a step of the service it follows and leaves the variables of
the seven others alone.  `OfficeRunsItsServices` concludes that it implements each
of the eight specifications, and `OfficeIsSound` reads off their properties.

**Only model-checked**: the liveness properties (`EveryCallAnswered`,
`PaidIsCredited`, `VerdictIsSettled`, `NoStrandedFunds`, `GoalIsPromoted`,
`RevocationsFinish`), since the prover does not reach fairness, and what the four runs
with `expect: violation` refute.

## 5. What is not modelled

* Signatures, HTTP, validation, formatting, logs, metrics, audit rows and the
  user interface: they decide nothing the properties speak of.  Most of the
  repository's lines are of this kind (pages, components, the game's rendering
  and physics, the OpenAPI document, mock data, reports), which is why the
  modelled lines are a small part of them.
* Fail-over of a *charge* (a deposit): a lost answer there leaves a charge
  nobody was shown; the withdrawal, where a lost answer moves money, has it.
* The schedule and cut-off age of reconciliation: a poll may happen at any time.
* Fees and minimum amounts: arithmetic on one amount before the first step.
* Routing modes other than ROUND_ROBIN: they sort a list by settings; withdrawals try
  candidates in any order, which covers them.
* Access tokens and their blacklist, e-mail verification, the MFA stub,
  permissions.  Password reset tokens are marked used after the password is
  written (`identity/services/password.service.ts:92`), so one token may serve two
  calls; what a reset does to sessions is `RevokeAll`.
* Applications of affiliates and their decision, edits of percentages, manager
  profiles and PIX keys: updates of one row.  `Commissions` reads percentages as
  constants.
* The daily summary, in-app notifications and other events of the bus, which
  only feed notices; a user's preference is a free choice in `Dispatch`.
* The anti-cheat rules, which compare floating-point telemetry with thresholds:
  `MatchEngine` leaves their verdict free.
* The read-through cache: no modelled decision reads through it.
* Creating and topping up demo accounts.

## 6. What could follow

1. An abstract specification of payments (a charge is settled at most once) that
   `Deposits` implements for the histories where it does.
2. Password resets and affiliate applications as modules of `Office`.
