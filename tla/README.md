# A verification project for the Dokana backend

Dokana is the accounting backend of a shop ledger: NestJS services over PostgreSQL, one *Store* per
tenant, devices that keep working offline and push their operations later. Its correctness lives in
what PostgreSQL transactions of concurrent HTTP requests do to shared tables: which rows they lock,
what they read before and after the lock, what they commit together and what they answer when a
request comes a second time. That is what is modelled here; the source is in `src/`, the SQL authority
functions in `src/database/migrations/`, the operator's commands in `src/scripts/`.

- [Inventory](#inventory)
- [Modules](#modules) and how they correspond to the code
- [Runs](#runs), their bounds and fairness
- [Proofs](#proofs)
- [Findings](#findings) and [differences observed](#differences-observed)
- [Not modelled](#not-modelled) and the [plan](#plan)

## Inventory

| part | state | operations | what is hard | correct when |
|---|---|---|---|---|
| transactions and tenancy (`src/src/database`) | pool, `AsyncLocalStorage` scope of an offline operation | tenant, snapshot, business-write and offline-operation transactions | a nested call must join the outer transaction; the write gate is a read that must stay true until commit | no write commits under an authority that is over |
| offline push and recovery (`src/src/sync/offline-operation*`, 0024-0028) | provenance rows, recovery events, processed operations | push, recover, status | duplicates, reordering, dependencies, revocation in flight, online calls of the same operation | effect at most once, outcomes final, answers true, waiting operations settle |
| operation claims (every `*.repository.ts` that writes) | `sync.processed_operations`, conflicts | prior read, claim, comparison, completion, replay | thirty writers with code of their own share one row per identifier | one request, one outcome and one effect per identifier |
| change feed and bootstrap (`src/src/sync/change-*`, `bootstrap-*`, 0022, 0023, 0027) | committed change events, position counter | capture, pull, snapshot | a cursor must never pass a change that commits later; restores rewind the counter | a copy is a state the Store was in, nothing is passed over, devices converge |
| recovery generations (`src/src/recovery`, 0033) | one control row: generation, fenced or active, cutoff | fence, activate, assert, capture | a writer of the old generation must not commit after the fence; the fence must not starve | see the write gate; the fence goes through |
| recovery orchestration (`scripts/recovery`) | attempt records, job lock, target databases, restored objects | prepare, restore, verify, approve, activate, abort | crash between a step and its record, records whose write failed, lapsed lock | one writable database, records are evidence, restartable |
| recovery points (`scripts/recovery`, `src/src/recovery`) | verified manifests, attachment manifests, protected copies, job lock | create, protect, clean up | steps without a transaction, crashes, retention of what another step relies on | a coherent point has its copies, one always remains |
| attachments (`src/src/attachments`, 0032) | rows, objects, two clean-ups | upload, read, remove, purge | object storage and table out of step, limits, answers that are lost | an attachment can be downloaded, a parent keeps its limit |
| sessions (`src/src/auth`, 0003-0005, 0024, 0033, 0034, 0037) | users, sessions, refresh tokens | login, refresh with rotation, validate, logout, sync authentication | two refreshes of one token, reuse detection, lock order against pushes and the fence | one usable token, reuse ends the session, nobody enters with what is over, requests end |
| platform authority (`src/src/platform-authority`, 0016-0020) | Stores, subscriptions, administrators' actions | provision, activate, extend, cancel, reactivate, suspend, restore | a clock read before the locks, versions, entitlement that must stand until commit | one subscription at a time, a history in order, nothing decided twice |
| offline licenses (`src/src/offline-licenses`, 0021) | license issuances | prepare, sign, complete, revoke | an issue races cancellation, suspension and the revocation of the license before it | no license outlasts its subscription or ignores a revocation it saw |
| periods, money accounts, movements, transfers, owner ledger, corrections | accounts, periods, movements, entries | open, close, post, transfer, archive, reverse, replace | lock order, closing against posting, archiving against posting, chains of corrections | balances follow the events that stand; commands end |
| sales and customers' accounts (0012, 0014, 0015), sale returns | sales, receivables, collections, credit, returns | post, cancel, edit, collect, apply, refund, write off, return | dependents of what is cancelled, two formulas for what is open, cumulative rounding | no receivable is overpaid, credit is never negative, reads agree with writers |
| suppliers (0009-0011) | invoices, payables, payments, returns, credit | post, cancel, edit, pay, return, apply, refund | the same for payables, payments by the owner | the same |
| expenses | expenses, payments, facts | recognize, pay, correct | an expense edited between its payments | what is settled is what stands of the payments |
| inventory (0007, 0008, 0013) | quantities, moving value, cost state, movements | receive, adjust, count, sell, return, reverse | valuation at and below zero, pending costs, reversal of history | stock tells its documents |
| master data (`customers`, `suppliers`, `products`, expense categories, `settings`) | rows with versions | create, edit, archive, restore | concurrent edits, unique keys across archives, base units | versions tell contents, nothing is lost |
| lists (all reads by page, `audit`, `reports`, `search`) | a cursor in the client's hands | pages | rows renamed, archived or inserted between two pages, keys cut to milliseconds | a row that stays is listed once |
| `notifications` (repository, reconciler, scheduler) | open and ended episodes, marks, the timer's map | reconcile, list, mark | several reconciliations at once, causes read while the books change, failures that are only logged | a list tells the books, an episode lasts as long as its cause |
| dashboard, documents, configuration, contract, health, migration tool | none of their own | reads, formatting | none of concern here | not modelled |

How they meet. Every HTTP request is authenticated by a statement that reads the session and the
control row; a business request then opens a transaction, asserts the control row and the entitlement
of its Store and *keeps* the locks of both until commit; the domain service claims the operation in
`sync.processed_operations` inside that transaction; deferred triggers capture the rows it wrote into
the change feed at commit. A push does all that for a queued operation, after deciding from its
provenance row, its dependencies, its license and its Store whether it may run. The operator's
commands fence the control row (and so wait for all of it), move the platform to a restored database
and activate a new generation, which closes every session and cursor of the old one.

`PROJECT.json` lists every component with its status, and under `hazards` each of the hard behaviours
at its line.

## Modules

| module | models | role |
|---|---|---|
| `OfflineOperations` | push, recovery and online calls of offline operations | detailed specification |
| `OperationLedger` | what the idempotency protocol promises | abstract specification of the former |
| `OfflineOperationsProofs` | theorems about both | TLAPS |
| `RecoveryAuthority` | the control row, the advisory lock, fence and activate | extended by the next and by `AuthSessions` |
| `RecoveryFencing` | business writes and snapshot reads against the fence | detailed specification |
| `ChangeFeed`, `ChangeFeedProofs` | capture, pull, bootstrap, devices, restore of a backup | detailed specification, theorems |
| `RecoveryExecution` | the operator's restore commands | detailed specification |
| `RecoveryProofs` | theorems about the last two | TLAPS |
| `MCRecovery` | one behavior of any of the three | instance for TLC |
| `AuthSessions`, `AuthSessionsProofs` | sessions and rotating refresh tokens against the fence | extends `RecoveryAuthority`; theorems |
| `OperationClaims` | how each writer claims, compares, answers and replays its operations | detailed specification |
| `Postings`, `PostingsProofs` | money accounts, periods, transfers, owner commands and their corrections, lock by lock | detailed specification, theorems |
| `CustomerAccounts`, `CustomerReads` | sales, receivables, collections, credit, sale returns; what tables and reads demand of them | extension |
| `SupplierAccounts`, `SupplierReads` | invoices, payables, payments, returns, credit of suppliers; their tables and reads | extension |
| `Expenses`, `ExpenseReads` | expenses and their payments; their tables and reads | extension; theorems in `PostingsProofs` |
| `Stock` | quantity, value and cost state of goods under every command that moves them | detailed specification |
| `MasterData`, `MasterDataProofs` | customers, suppliers, products, units, categories, settings as versioned rows | detailed specification, theorems |
| `Listings` | every list by page, with its cursor, while others write | detailed specification; theorems in `RequestProofs` |
| `Notifications` | the reconciliation of a Store's notifications with the causes in its books | detailed specification |
| `Attachments`, `RecoveryPoints`, `PointsProofs` | uploads and clean-ups of objects; recovery points and protected copies of them | extension, theorems |
| `RetentionPolicy` | what attachments and points there may be and how long they are kept | constants and assumptions of the two |
| `PlatformAuthority` | one Store's provisioning, suspension and subscriptions, writes and licenses that rely on them | detailed specification |
| `RequestProofs` | theorems about claims, the platform and the lists | TLAPS |
| `MCBooks` | one desk of any of these domains | composes `MCPostings`, `MCCustomers`, `MCRequests` (claims and platform), ... |

### OfflineOperations

One action is one stretch of code between two points at which another transaction can be seen. The
transaction of a worker is the record `tx[w]`: what it has written lies there until it commits, the
operations whose advisory locks it has are in `holds`, the rows it has locked `FOR SHARE` in `shares`.

- `Push*` are `begin_offline_operation_v1/_v2` (0026, 0028) up to their verdict: changed binding,
  replay of a settled outcome, a local sequence that another operation used, or `PushEvaluated`, which
  runs eligibility, clock, creation window and dependencies (`PushVerdict`). `PushRefused` is the
  refusal in `offline-operation.service.ts` before any transaction.
- `Recover*` are `recover_offline_operation_v1` (0028); `attempts` is its event table.
- `OnlineBegun`, `Dispatch*` and `CommitOnline` are the domain operation that both channels share:
  the claim of `processed_operations`, its savepoint, a replay of a known operation, a refusal.
- `FinishApplied`, `FinishRefused` are `finish_offline_operation_v1`; `Abort` is a crash, a lost
  connection or an exception.
- `Withdraw` and `Restore` are revocation and suspension, which wait for the share locks.

`DependencyStatus` keeps SQL's three-valued logic: a dependency nobody has received contributes NULL
to `bool_and`, hence nothing. `DependencyCycle` says of the recursive query what it finds. Requests,
hashes and stored responses are the request they stand for; a reason code is kept as far as recovery
reads it.

`OperationLedger` is the abstract specification: an operation is entered once, for one request, and
clients are told of entries that are in it. `Ledger` maps `processed_operations` and the positive
answers to it.

### RecoveryAuthority and RecoveryFencing

The control row and the operator's transaction are separate: the operator waits for the advisory lock
in exclusive mode (`OperatorLock` when there are no holders), decides, and commits. PostgreSQL queues a
shared request behind an exclusive one that already waits, hence `Grantable == operator.pc = "idle"`.
Generations are consecutive numbers; a clock reading is the number of cutoffs read before it, which is
all that `issued_at < authority_not_before` can tell. `RecoveryFencing` adds the requests:
authentication in a statement of its own, then either the business write transaction, which keeps the
lock, or the `REPEATABLE READ` transaction of pull and bootstrap, whose snapshot is taken before the
lock is asked for and therefore shows the control row as it was then.

### AuthSessions

Each request is a transaction with the rows it has locked. Login inserts session and token and then
asks for the authority, rotation asks for the authority, locks session and token in the order of 0037,
decides, and either rotates or revokes the family; logout revokes under the session's lock; a push
takes the authority and then the device `FOR SHARE`, in the opposite order to a login. `Overtakes` is
PostgreSQL's rearrangement of a wait queue (`deadlock.c`): a shared request passes the operator's
waiting exclusive one when otherwise the queue would be a circle. Expiry (`lapsed`), suspension
(`eligibility`) and the cutover are the environment.

### ChangeFeed

A row is its version. Writers lock rows as they write them, and the watermark of the Store from the
first captured event to the end of the transaction; capture runs at commit, so `Capture` steps of two
writers exclude each other while their writes interleave. A device opens a snapshot, gets a page or a
dataset, and applies it with its cursor in one local transaction. An answer may be lost at any time.
The operator takes a backup, fences and activates it under a new generation; the head of the feed goes
back to the backup's. `cuts` is history: the committed states with their position, which
`CompleteIsACommit` compares copies with. The clients' side is what the API contract asks of them; no
client is part of the repository.

### RecoveryExecution

Each operator command of `scripts/recovery/recovery-execution.ts` is a sequence of steps with a crash
possible between any two. What survives is in the storage (`records`, `lock`), the databases (`source`,
`target`) and the operational attachments (`objects`). `AppendPhase` is `appendPhase`, which checks the
phase before it; `cleaning` is the handler of a failed restore. `RestoreUnconfirmed` and
`PrepareUnconfirmed` are writes whose record is kept although the writer fails, as the read-back that
ends each write may. The backup job competes for the lock (`JobAcquires`), and `LockLapses` lets
anybody take the lock over as after its 24 hours. `unconfirmed` is history.

### OperationClaims

A *writer* is described by what its code does: the aggregate types it claims under, whether the client
names the row, whether the right to write is asked of every transaction or only before a claim, and
whether a refusal is kept and replayed in stored words, in words of the replaying code, or rolled back by
the error that reports it. All 29 writers are such records, each mapped to its claim code; the
transaction is the same sequence for all of them: `PassGate` and `ReadPrior`, in the order of the
writer, `ClaimOperation` under the unique key, which waits for a claim under way, comparison (`Resolve`),
work, completion. The specification is
`ClaimSpec` over any set of `Requests`; a request names its writer's record. `first` and `heard` are history. `ClaimsSound`: an identifier has one effect (`EffectOnce`), every caller hears the same of it
(`AnswersAgree`), what is reported as reused was (`ConflictsReported`), and a completed operation is
answered after the right to write is gone as well as before, for the writers that replay first
(`ReplayOutlivesAuthority`). `Words` names the one family whose words differ (below).

### Postings

Money accounts, months, opening balances, owner commands, transfers, corrections. A client runs one
transaction per command, one action per lock: the Store's row, the operation, the month (shared;
exclusively by a close), the accounts in ascending order, the original of a correction. What a
transaction holds is read off `txn[c]`; its rows appear at `Commit`. `balance` and `liability` are the
views of the same name. Sales, invoices, expenses and stock commands appear here only as what a
close counts (`PostUncosted`). `PostingsSound`: no circle of locks among these commands (`NoCircularWait`),
an archived account is empty, a closed month has no pending cost, the balances are those of the events
that stand, one correction per original, one opening per account, what is owed the owner is not negative.
`ClosedIsFinal` is the action property: no event enters a month once it is closed.

### CustomerAccounts, SupplierAccounts, Expenses

A command is one action, because each of these writers locks the customer, supplier or expense,
then the document, before it reads what it decides from, and keeps them until commit; a second
command on the same rows waits at its first lock. What is modelled is the decision: which documents,
entries, allocations, receivables and credits there are, what each command demands of them, in the
order of the code's refusals, and what it writes. Balances are sums of entries, which are only added.
Money accounts and goods of these commands are `Postings` and `Stock`; here, `till` is what they moved.

- `CustomerBooksSound`: what is left of each receivable is in range and follows from the documents that
  stand; credit is not negative; money and claims add up to what was sold; returns stay within the
  quantity sold; a document is corrected once.
- `SupplierBooksSound`: the same for payables, credit held with a supplier and returned goods, and what
  the owner paid stands as long as the payment does.
- `ExpenseBooksSound`: what is settled is in range and is what stands of the payments; a cancelled
  expense is unpaid; a line of corrections has one end.

`CustomerReads`, `SupplierReads` and `ExpenseReads` add what the *tables* demand of their rows (the
check constraints, which would turn a command into an unclassified error) and what the *reads* compute
and assert before they answer; both are parts of the invariant, because a writer that satisfies its own
checks and violates those of a reader leaves a document nobody can open.

### Stock

A movement carries the quantity before and after, the value and what is known of its cost (`known`,
`unknown`, `pending`); the stock of a good is what its last movement left. `Inbound`, `Outbound`, `Counted`
and `HalfUp` are the arithmetic of `inventory-posting-math.ts`, on both sides of zero, under the Store's
policy on negative stock and the good's own; `Restored` and `TakenBack` undo a movement. `StockSound`: stock is what
the documents that stand add up to (`StockTellsDocuments`), a cost called known was earned
(`KnownIsEarned`), restocked returns stand on sales, an opening happens once. The triggers of 0013 are
`RowsTaken`: a command whose movement they refuse is rolled back.

### MasterData

Customers, suppliers, products with their units, categories and settings as versioned rows. A
command locks its rows and decides (`BeginMaster`), and writes in a second step, where its unique keys (phones,
SKUs, barcodes, names) must be free. `MasterDataSound`: a unit in
use has its one base unit, a version tells one content, no accepted edit is overwritten by one that had
not seen it, no two rows of a kind share a key, archived or not. `UpdateCustomer` and
`ClassifyMissedUpdate` are the customer writer's way without a lock.

### Listings

A page ends with a cursor: the sort key and identifier of its last row, cut to what the cursor's text
keeps (milliseconds), or only the identifier, in which case the row is read again (`LoseAnchor`, `ResolvePosition`).
Between two pages rows are created, renamed, archived, restored, posted, cancelled, reconciled. Each of
the 26 lists is an entry of the tables that say how it sorts, what it filters by and how it goes on.
`ListingsSound`: a row that is there throughout is shown once (`EachRowOnce`), unless two rows share a
millisecond (`GapsWithinAMillisecond`, `StoresOnlyRepeat`) or the anchor was renamed (`ReportsByName`),
and a cursor is refused for cause only.

### Notifications

What the list of notifications holds. A reconciliation reads the health of the backups (`ReadBackup`), takes
the Store's lock and the settings (`ReadSettings`), reads the causes with one statement per kind
(`ReadCauses`: the rule of every kind is an operator, `BalanceCauses` to `SubscriptionCauses`), finds the
open rows (`Match`) and commits what it opens, rewrites, ends and deletes (`Commit`), or fails and is only
logged (`Fail`). It runs before every answer (`Ask` to `List`) and once more on the process's timer
(`Tick`), while the books change between any two statements (`Change`), the reader marks rows
(`SetReadState`) and the platform may be fenced (`Close`).
`NotificationsSound` (in `MCBooks` a part of `StockAndAlertsSound`): a reconciled answer shows, of every kind of
cause, what the books held at one moment since it was asked for, whatever others commit in between
(`ListIsFresh`); no reconciliation fails on a key another one took (`NoKeyTaken`); an episode ends only if
its cause lapsed, so that a mark of the reader stays (`EpisodesAreStable`). All three rest on the lock being
taken before the first canonical statement; without it TLC finds the first one violated.

### Attachments and RecoveryPoints

`Attachments` is an upload as the code takes it: preflight, scan, put, `BeginCreate` under the parent's
lock, `CommitCreate`, each with its failures and compensations, and the two clean-ups, which list, and
delete what they have listed later. Time is a day. `RecoveryPoints` extends it with the commands of
`scripts/recovery` that make a point of the database with its inventory, protect the objects by copies,
and delete points and copies by class and age, step by step, with a crash between any two and the job
lock around them. `PointsSound`: a parent has no more attachments than its limit, an attachment has its
object (`BinaryIsKept`, with the exception `lost` below), a coherent point has all its copies, a point within the
retention of removed objects can still be protected, one coherent point always remains, and a month keeps its own.

### PlatformAuthority

One Store: provisioned (with owner, settings and Cash), suspended and restored, its subscription
begun, extended, cancelled and begun again; a business write relies on both until it commits; a license
is issued, around a signature, and revoked. A request reads the clock (`Begin`), waits for its advisory
key (`LockOperation`), for the Store and for the license before it, and decides from the rows as they are then, so a request that waited decides with an old clock. The
specification is `PlatformSpec` over any set of `PlatformCommands`, of which each may come any number of times. That
commands which provision the Store have one operation identifier is an assumption with a reason: the Store's own
identifier is derived from it, so another identifier provisions another Store. `PlatformSound`: one
subscription at a time, the history is one the rules allow, suspensions and restorations alternate,
nothing is decided twice under one identifier, what a write or a license relies on stands when it commits,
and no license outlives its subscription or ignores a revocation its issue has seen.

### MCRecovery and MCBooks

Both instantiate modules that share no variable, and let a behavior be one of them. `MCRecovery` chooses
fencing, restore or feed. `MCBooks` chooses a *desk*, a pair of a domain and a set of commands that meet on
the same rows; all other domains stay at their initial state. The product of the domains would only
interleave steps on different rows: what they share are the claim of the operation, which is
`OperationClaims`' subject for all writers together, and the accounts and months, which are
`Postings`' subject, lock by lock.

## Runs

| run | states | question |
|---|---|---|
| `offline_replay` | 392,552 | Two workers push and call online an operation, the same operation with another request, and a second one on the same local sequence, while the license may be revoked. |
| `offline_recovery` | 781,584 | Quarantine, a dependent the domain finds invalid, an unverifiable envelope, two recovery attempts, suspension and restoration. |
| `offline_liveness` | 22,618 | A dependent and its prerequisite, in an acyclic and a cyclic version: every waiting operation is settled under fair resending. |
| `auth_rotation` | 894,152 | A token, its replacement and the replacement of that, presented by two requests, with expiry and changing eligibility. |
| `auth_cutover` | 139,266 | Login, refresh, logout and push around a fence and the activation of a generation: who is let in, and does everybody end. |
| `recovery` | 135,147 | Fencing: two writers or readers and an operator who may activate twice. Restore: two attempts over every kind of recovery point, three crashes or failures, a job that may take over the lock. Feed: two writers, two rows, a device and a restore. |
| `store_books` | 396,822 | Every desk of every business domain, of the lists, the notifications, the attachments, the recovery points and the platform. |
| `claim_missing_dependency` | violation | The roadmap's sentence about missing prerequisites. |
| `claim_activation_restartable` | violation | The roadmap's sentence about restartable orchestration. |
| `claim_returns_within_value` | violation | The roadmap's sentence about the value of cumulative returns. |
| `claim_receivables_readable` | violation | The read's assertion about the amount of a receivable. |
| `claim_notifications_paged` | violation | The test's title about the pages of the notifications. |

What they show, beyond types:

- **The effect is committed once** (`EffectAtMostOnce`, `ImplementsLedger`) and the two idempotency
  tables name one request (`AppliedIsCanonical`), although a push and an online call share only a
  unique key. A positive answer is true then and ever after (`AnswerIsTruthful`), what is recorded is
  final (`OutcomeIsFinal`), and quarantine is left only with a trace (`RecoveryLeavesTrace`) and never
  for a reason recovery would refuse (`QuarantineIsRecoverable`).
- **What was read is still true at commit**: the license, the Store and the device of a push
  (`EvidenceHoldsAtCommit`), the authority of a write (`WritesUnderCurrentAuthority`).
- **A session is open through one token** (`OneUsableToken`), a replayed token closes it and all its
  tokens (`ReuseEndsSession`), and a rotation that was under way does not leave one behind
  (`RevokedIsClosed`, `AccessDiesWithRotation`). Nobody enters with a session from before the cutoff
  (`GrantsAreCurrent`), and no order of locks keeps a request waiting for ever (`RequestsEnd`).
- **The feed tells the books** (`FeedTellsBooks`); a copy said to be complete is a state the Store
  was in (`CompleteIsACommit`); between two pages nothing is passed over (`NothingPassedOver`); when
  the Store stays active the device comes to hold the books (`FeedConverges`).
- **At most one database is writable** (`OneWritableAuthority`), a record is evidence (`IInv`), what
  serves is never touched (`ServedIsKept`), and an attempt that fenced the source brings the platform
  back, unless its restore record outlived its writer (`PlatformIsServedAgain`, with `Lost` as the named
  exception); a fence gets its turn however many requests come (`FencesGoThrough`).
- **The books of each domain stay sound** under every sequence, and where it matters interleaving, of
  the desks' commands: `PostingsSound`, `CustomerBooksSound`, `SupplierBooksSound`, `ExpenseBooksSound`,
  `StockAndAlertsSound`, which is also about what the notifications tell of the books, `MasterDataSound`, and
  a closed month stays as it was closed (`ClosedIsFinal`).
- **An identifier means one thing to all writers** (`ClaimsSound`), **a list shows what it lists**
  (`ListingsSound`), **objects, points and their copies are there when somebody relies on them**
  (`PointsSound`), and **what the platform decided is one history** (`PlatformSound`).

The invariants of `MCBooks` are conjunctions of named parts; each part is stated with its comment in
its module. A violated run names one property, and its counterexample is the finding of that number.

Every property of a passing run has a mutant in `PROJECT.json`: a plausible bug in a mapped definition
that makes TLC find it violated. Where such a mutant is an operator of the module it stands right
before the definition it changes and is commented as a broken variant.

### Bounds

- *Workers, requests, writers, clients: two.* Every mutual exclusion here is between two transactions: a
  third waits for the same locks and adds no new order. `offline_liveness` has one worker: settling depends
  on the order in which transactions commit, and a transaction decides under its locks.
- *Envelopes* are chosen per run so that each verdict is reached: a changed binding, a shared local
  sequence, a creation outside the license, a suspected clock rollback, an unverifiable signature, an
  invalid request, a dependency and a cycle of two. Longer cycles are covered by the definition of
  `DependencyCycle`, which is over all sets of operations.
- *Tokens: three* in `auth_rotation`, the least for a replay of a token whose replacement was itself
  replaced; two in `auth_cutover`, where an activation lies between two logins.
- *Generations: two, restores: one* (`MaxGeneration`, `MaxCutoffs`, `MaxRestores`): an operator who means an
  earlier generation than the one before, and a cursor from before a restore. The two rows of the feed are alike until one is committed, so the first that is has the
  first name (`ByName` of `MCRecovery`).
- *Events: two per generation, pages of one* (`MaxSequence`, `MaxWrites`, `PageSize`): a torn
  transaction needs two events of one commit on two pages, a cursor ahead of a restored head needs one.
- *Failures: three* (`MaxFailures`): one to leave a half-restored target, one to interrupt its
  removal, one to lose a confirmation.
- *Desks.* A desk is the set of commands that meet on the same rows, at most about a dozen (master data that
  many commands meet on has two desks, one with and one without the cycle of its archive), each under an
  operation identifier, so that each happens once and may be repeated; every order of them is a behavior. A
  document, its dependents (a collection and an application, say), the correction of each and the replacement
  of that are five or six operations, which is what the desks have. Amounts are the smallest that tell what is
  left from what was paid, and odd where rounding matters.
- *Accounts two, months one*: a transfer and its opposite need two; the closing of a month races what is
  posted in it, and no command of `Postings` touches two months.
- *Rows of a list: three, one to come, two writes* (`MaxListWrites`), pages of one and two: a row before, at
  and after the cursor, two of them of one millisecond. `MaxShown` ends the one walk that has no end.
- *Writers of one identifier*: every writer meets itself with another device, body or row, and, on a desk of its
  own, the writer that follows it; two callers. Whether two writers agree depends on the two of them.
- *Reconciliations two, changes of the books two* (`MaxChanges`), one tick of the timer: a read that is stale
  when committed, two openings of one cause, and a cause that lapses and returns. Each desk has the facts of
  one kind of cause; facts of two kinds are in different statements and rows. `thresholds` also changes the
  settings between two statements.
- *Attachments two, limit one, points two, jobs two, days to 3*, retentions 1, 1, 2 and 3 days in the
  order of the code's (orphans, daily points and copies, removed objects, monthly points), months of two
  days: every order of two expiries, and every crash of a command that another one finds. No upload lasts as
  long as an orphan is kept (`UploadsAreShort`): the code states it nowhere, its time-outs are seconds, and an orphan
  is kept for a day.
- *Days to 2, plan of one, license of two*: a subscription ends under a request that waits, and a license
  would end after it.
- *Symmetry* permutes workers, requests or clients, in runs without liveness properties only. Actions that a
  run's constants exclude fire in another run of the same module.

### Fairness

- `OfflineOperations`: transactions end (WF); clients resend what is not settled, and a push that is
  tried again and again is not aborted every time (SF). The code has no resend of its own: a pending operation is
  decided again only when its envelope comes again.
- `RecoveryFencing`: requests and the operator's connection run (WF). Nothing makes requests arrive.
- `AuthSessions`: SF on the steps of a request, because row locks are granted in the order they were
  asked for, so a request that can go on again and again is served.
- `ChangeFeed`: the device keeps asking (WF), and not every answer is lost (SF); a transaction that has
  begun ends; an operator who has fenced goes on to activate.
- `RecoveryExecution`: a command under way goes on (WF) and the operator repeats the next command
  until it succeeds (SF); failures are bounded. One console.
- `MCRecovery` takes each of these for the behaviors of its module. `MCBooks` has none: what could wait for
  ever there is a circle of locks, and that is an invariant (`NoCircularWait`).

Deadlock is checked in every run except `claim_activation_restartable`, whose console may end with
nothing it can do; that is what the run is about. Bounded domains end in an explicit stutter.

## Proofs

The theorems hold for every value of the constants that satisfies the modules' assumptions: any number of
clients, requests, rows and identifiers, any commands, any bounds. The assumptions say that bounds are
numbers, that the value for "nothing" is none of the others, and what a command or an envelope is made of;
TLC evaluates each on the instances it checks. Where an assumption says more, it is in the paragraph below.

Eight modules hold 48 theorems and 567 lemmas, about 18,400 lines. They have one plan. A property of these
transactions is seldom inductive, because what commits was decided from rows read earlier. So each
inductive invariant says of every transaction under way, by the place it has reached, which locks it holds,
that what it read under them still stands, and which locks no two hold together. A step of one transaction then
has two sides: it brings the mover into its next place, and it leaves what the others have read alone,
because whoever would disturb it needs a lock they hold. Invariants are stated as operators of the rows and
of one transaction, so that a lemma per action says what it does to each, and the last step
is temporal logic. Each was checked by TLC before it was proved.

| module | theorems | states of the runs' properties |
|---|---|---|
| `OfflineOperationsProofs` | 12 | `IInv`, `EffectAtMostOnce`, `AppliedIsCanonical`, `AnswerIsTruthful`, `LocalSequenceUnique`, `QuarantineIsRecoverable`, `SomeDependencyFirst`, `OutcomeIsFinal`, `EvidenceHoldsAtCommit`, `RecoveryLeavesTrace`, `ImplementsLedger` |
| `RecoveryProofs` | 5 | `WritesUnderCurrentAuthority`, `IInv`, `OneWritableAuthority`, `ServedIsKept` |
| `AuthSessionsProofs` | 6 | `IInv`, `OneUsableToken`, `RevokedIsClosed`, `ReuseEndsSession`, `AccessDiesWithRotation`, `GrantsAreCurrent` |
| `ChangeFeedProofs` | 4 | `FeedTellsBooks`, `CompleteIsACommit`, `NothingPassedOver` |
| `RequestProofs` | 7 | `ClaimsSound`, `PlatformSound`, `ListingsSound` |
| `PostingsProofs` | 9 | `PostingsSound`, `ClosedIsFinal`, `ExpenseBooksSound` |
| `MasterDataProofs` | 3 | `MasterDataSound` |
| `PointsProofs` | 2 | `PointsSound` |

**Offline operations.** `IInv` has two halves. `LedgerIInv` says, besides types, what each open
transaction knows (`Transactions`): what it dispatched is what it claimed, a positive result without a
claim of its own replays a committed entry; and that no two of them share a lock or claim one operation
(`Separation`). That an effect is committed once needs `Separation`, and that an answer is true needs what the
transaction knew before it answered. From it `TypeCorrect`, `EffectOnce`, `Canonical`, `Truthful`,
`OutcomeFinal` (an action property) and `LedgerRefinement`: initial states map to initial states and every
step to an entry, a replay or a stutter. `EvidenceIInv` is about what a push or recovery read: a new
row is written only for a local sequence nobody has (`PushReads`), a recovery replaces a row of its own envelope
under an attempt of its own (`RecoveryReads`), the rows an authorized transaction relies on are shared and not
lost (`EvidenceOK`), and two open pushes are of two sequences (`Distinct`). It gives `SequencesUnique`,
`QuarantinesRecoverable`, `DependencyFirst`, and the action properties `RecoveryTraced` and
`EvidenceAtCommit`: a license revoked while a push is dispatched waits for the push.

**The write gate.** `FencingIInv`: a writer is a holder of the lock whose authority
is current (`WritersHold`), and an operator past the lock excludes holders (`ExclusionHolds`).
`WritesAreFenced` is the action property: no write commits under an authority that is over, for any
number of requests and generations.

**The restore**, for any attempts, recovery points and failures, under the
hypothesis `OneConsole`. That a record is evidence is not inductive: `StepsKnow` says of every step what
it must know for the record at the end of its command to be true, `OneFence` that a target beyond an
empty database belongs to the one attempt that fenced the source and that no other holds the lock, and
`ChainIsClosed` that phases have no gaps. Each action has a lemma that it keeps the five parts; actions
that only move the command share the lemmas that evidence and chain stand. From it `OneWritable`
and `ServedKept`. With two consoles `IInv` is false (see below), so the hypothesis is needed.

**Sessions.** `IInv` of `AuthSessions`: whoever decides about a session holds its row, so what a decision saw of
the row and its tokens is so when it commits (`DecisionsHold`); a token that a rotation is about to insert exists
nowhere else (`DrawnOnce`); and a request that was admitted holds the recovery lock under an authority that
still admits it (`AuthorityHeld`). `OneUsableToken` and `RevokedIsClosed` are conjuncts. The others are
action properties: reuse, once answered, has revoked the session (`ReuseIsFinal`); nobody is let in on
an access token whose refresh token was replaced (`RotationEndsAccess`); whoever is let in is let in while the
service is active, on a session younger than its last cutoff and not revoked (`GrantsUnderAuthority`).

**The feed.** The watermark is held from the first captured event to the end of a transaction, so a commit
appends. `FeedIInv` says that the feed numbers its events without gaps and each row's versions too (`Told`), that
a transaction's captured events number on from the head (`Capturing`), and defines what it means that a copy stands
at a position of the feed: it has exactly the events up to there (`Position`). A copy, a page that is applied
to it, a dataset and the snapshot of a request under way all stand at their cursors in the Store of their
generation, whatever commits in between (`Grows`); a restore opens a generation no cursor is of.
`FeedIsWhole`, `CopiesAreCommits` and `CursorsPassOverNothing` follow. Cardinalities of what was captured are
counted by a bijection, because no run of events may be missing.

**Claims.** Later answers are read from the row, and the property compares them with the first answer:
`FirstIsRow` says the two are one. That the row is written once is `WorksAlone`: the insert waits for a claim under
way, so one transaction works for an identifier, and finds no row. `SettledStays` covers the time between the
arrival of a request and the question for the right to write. `OneRequestOneOutcome` is `ClaimsSound`, for any
set of requests to the 29 writers, `OneWorkerPerIdentifier` the exclusion it rests on. The assumption on
`Requests` is that each is sent to one of the writers about an aggregate that writer claims.

**The platform.** Every property is about rows only a commit writes, and what it writes was decided with an old
clock from rows read since. `Committed` says what the rows are like: only the last subscription runs, the history is the one of
the versions, suspensions alternate, an identifier has one decision, a license lies within its subscription.
`Stands` says why what a request read still stands, and `Apart` which of two requests would have had to wait.
`PlatformDecidesSoundly` is `PlatformSound`, for any commands and any number of requests.

**Lists.** A walk remembers nothing but a cursor, and the rows it went by change under it. The invariant
(`WalkKnows`) compares the cursor with the rank of every row nobody wrote since the first page: those that were
shown lie up to it, and those up to it were shown (`Passed`). Three things stand in the way. A cursor may name a row
instead of a rank: read again it gives the old position as long as the row is what the cursor says of it - a version,
or an instant that no writer changes - and is refused otherwise (`AnchorFacts`, `RefusalKnows`). An instant is cut to its
millisecond: newest first the cursor is then past its row, and a row it passes over wrongly is of that millisecond
(`EndFacts`); oldest first it is before its row, which may come again. And the order of a report by name, or of a
search, follows what may be renamed: there it takes that what was shown was left alone (`Undisturbed`). That a page is
the beginning of the rest, in order, is counted: before its n-th row come n - 1 others (`PlaceInRest`), which is why
`Page` says it so. `ListsAreSound` is `ListingsSound` of `Listings`, for all 26 lists, any table, page length and writes, under
`ListingAssumption`: identifiers, names and instants are numbers in their order. TLC evaluates the assumption for the
rows of the run (`MCListings`).

**Postings.** Locks are taken one by one, so `Shape` says what a phase tells of them, `Kept` that what was
read under them stands (the original is not corrected, the month open, accounts active and locked in ascending
order), `Decided` that an outcome about to commit is still allowed, `Apart` which locks are exclusive, and
`Recorded` that what is recorded was corrected and opened once. From it `CorrectionsOnce`,
`OpeningsOnce` and the action property `ClosedStaysClosed`. Two more arguments are of their own:

- *No circle of locks* (`NoDeadlock`). A transaction that waits for an account waits for one that is done
  locking or waits for a later account (`WaitsUpwards`), and a finite set of accounts has a last one; then,
  stage by stage from the accounts back to the Store's row, nobody holds what somebody waits for
  (`SomeoneGoesOn`).
- *Balances follow events* (`BalancesFollow`). What an outcome moves is its event less the one it corrects
  (`Balanced`); the balances are sums over the events that stand (`Follows`). For that the module has a small
  theory of sums over finite sets (`TotalFacts`): the sum is the same in whatever order it is taken,
  does not see what a function is elsewhere, grows by what is added and shrinks by what is taken away. It is
  proved from least counterexamples, since an induction theorem with an operator as parameter cannot be
  used, and then identified with the fold that `BooksFollowEvents` is stated with.

`PostingsAreSound` is `PostingsSound` as a whole.

**Expenses.** A command is one action, so nothing is read early; what is hard is that the books keep three tellings
of one history - operations, rows, facts - and that a correction undoes one document and may write another. The
invariant says what the operations know of each other (`OperationsKnow`: a document is corrected by at most one, an
edit replaces a document by one of its kind) and how rows, facts and sums follow from that (`BooksKnow`: a row stands
as long as no operation corrects its own; every fact is a payment's or reverses one that was corrected; what is
settled does not exceed the expense; what the facts moved is what stands of the payments). Rows and sums do not
follow each other in the middle of an edit, so `BooksKnow` takes the operations whose document is *late*: a
correction is undone first, with its replacement late, and then written. The sums are columns of finite sets of rows
and use the theory above, identified with the library's `SumOf`. That a line of edits has one end is an argument of
its own: along edits documents never repeat, so a largest set of operations on one line ends in one that no edit follows.
`ExpenseBooksAreSound` is `ExpenseBooksSound`, tables and reads included, for any finite set of operations and any
commands that satisfy `ExpenseAssumption`: amounts are integers (the decision refuses those not positive) and an edit's
replacement carries its operation, as the command schemas have it. TLC evaluates the assumption for every desk
(`MCExpenses`).

**Master data.** A command decides when it has its locks and writes later. `DecisionsStand` says that what a command
under way decided is still so, `LocksApart` that two commands that may write hold no row in common; neither
is so without the other, and both need that a unit never changes its product (`UnitsRefer`), because the
units in use of a product are guarded by the lock of the product's row, not by their own. A creation holds nothing, so
the lemma that the decisions of the others stand (`DecisionStays`) is about what a write leaves alone: rows
that are locked, and units of locked products. `OperationsOnce` makes a row's operation its own, and
`AnswersExist` that nobody was answered with a row that is not there: they carry the induction over versions
and keys. `MasterDataIsSound` is `MasterDataSound`, for any set of commands; `RowsAreKept` is the
action property that rows stay, units stay under their product, and a version is never reused. The assumption
`MasterCommandsAssumption` says of a request that it is about a row of its kind and names columns of that
kind, which the routes and their schemas see to.

**Attachments and recovery points.** `UploadKnows` says what the step of an upload tells of the object it put, of its
row and of the lock of its parent; `SweepKnows` that what a clean-up has listed may still be deleted however long that
takes, because the upload it belongs to is over: an orphan is kept for longer than an upload lasts
(`OrphanRetention` is at least a day, and `UploadsAreShort`, see *Bounds*). `JobKnows` is the same for the commands of the
recovery scripts. One process at a time is between its start and its end, so what it has read stands but
for what it deletes itself: an inventory lists attachments active since the day of its point; a protection has a copy of
every entry it has passed; of a clean-up every point that stays is coherent, its entries are among those it will not
delete, and there is one if there ever was. For this a finite set of points has a latest (`LatestOf`, from a least
counterexample), which never expires. `PointsAreSound` is `PointsSound`, for any attachments, points, processes, limits and
retention periods, with crashes between any two steps.

**Only model-checked**, and why:

- everything under fairness (`PendingSettles`, `FencesGoThrough`, `RequestsEnd`, `FeedConverges`,
  `PlatformIsServedAgain`): liveness and `ENABLED` are out of the prover's reach;
- the larger books whose commands are single actions: `CustomerBooksSound`, `SupplierBooksSound`, `StockSound`. The
  first two would follow the plan of the expenses with the same sums; what is left is long rather than deep. The
  valuation of `Stock` runs along sequences of lines and movements: what
  such a fold computes for every input needs an induction over data and stays with TLC;
- `NotificationsSound`, which the run checks with `StockSound` as `StockAndAlertsSound`;
- a theorem speaks of a component. `MCBooks` and `MCRecovery` compose components that share no variable, so a theorem
  about `ClaimSpec`, `PlatformSpec` or `Postings` holds of their part; the composition itself is not stated.

## Findings

1. **A missing prerequisite counts as satisfied when another one is applied**
   (`claim_missing_dependency`). In `begin_offline_operation_v1`
   (`src/database/migrations/0026_durable_changed_replay_conflict.sql:340`) `bool_and` skips the NULL of
   a dependency without any row. The roadmap
   (`docs/roadmap/Dokana_Backend_Execution_Roadmap_PROPOSED.md:1335`) says that missing unresolved
   prerequisites return `DEPENDENCY_PENDING`. A *single* missing prerequisite is handled: `bool_and`
   of nothing is NULL. `SomeDependencyFirst` is the part that holds.
2. **Activation cannot be repeated** (`claim_activation_restartable`). `activate` verifies the attempt,
   which requires the target to be fenced (`scripts/recovery/recovery-execution.ts:693`), before it looks
   whether the target is active already. After a crash between the activation and its record every
   repetition fails, the branch at `:375` is never reached and the job lock stays taken. The roadmap
   (`:2066`) calls the orchestration restartable. The database does serve.
3. **A customer's receivables cannot be listed** (`claim_receivables_readable`). The list leaves the
   corrections of an opening receivable out of what is left of it (`src/sales/sale-read.repository.ts:400`);
   the writer counts them (`customer-receivable-settlement.repository.ts:323`). After such a correction the
   assertion at `sale-read.repository.ts:701`, "Customer Receivable amount is inconsistent.", fails.
4. **Returns give back more than the sale** (`claim_returns_within_value`). What was already returned is
   recomputed from the quantity still returned (`src/returns/sale-return-policy.ts:119`), not
   summed from what was given back: two units sold for 1 are returned one by one, for 0 and for 1; the first
   return is replaced, and is worth 1 now. The roadmap (`:663`) says that cumulative returns cannot exceed
   original quantity or value. For quantity it holds (`ReturnsWithinSale`).
5. **Notifications are passed over between two pages** (`claim_notifications_paged`). One reconciliation
   gives all its notifications one instant in microseconds, the cursor keeps milliseconds, and the next page
   begins after the millisecond (`src/notifications/notification.repository.ts:223`; the test's title at
   `test/notifications.integration-spec.ts:647` and the roadmap, `:1890`, name deterministic pagination).

## Differences observed

Met while modelling, and stated here because no run is about them. Where a property would be false
because of one, the property names it as its exception.

*Offline operations, recovery.*

- Quarantine is decided from the provenance row alone, although the operation's effect may be in the
  books by an online call (`0026:314`); the roadmap (`:1395`) says of a quarantined operation that no effect was accepted.
- An operation refused before its transaction leaves no row (`offline-operation.service.ts:228`), so a
  dependent keeps waiting although its prerequisite was rejected (roadmap `:1336`). `PendingSettles` is
  checked over prerequisites that are sent and verify.
- A pull or bootstrap that waits behind a fence is admitted on the control row of its earlier snapshot
  (`0033:145`, `change-pull.service.ts:77`; roadmap `:2166`). It only reads, and its cursor carries the
  old generation.
- A crash after fencing and before the record `SOURCE_FENCED` leaves an attempt that may be aborted;
  then the source is fenced, no attempt is under way, and a new `prepare` needs an active source
  (`recovery-execution.ts:418`).
- A restore record that the storage keeps although its writer fails is followed by the handler that
  drops the target (`:231`). The attempt then counts as restored, its target is absent, and no command
  restores it again (`Lost`).
- `prepare` reads the control row before it takes the lock (`:94`), and a second `restore-database` of
  one attempt drops the target of the first. With two consoles two databases can end up writable.
- A lapsed lock, or a recovery point of an older lineage or taken under a fence, leaves a fenced
  platform whose attempt no command continues.
- No code removes a bootstrap artifact that has expired, or what a crash leaves in a `.creating-` directory
  (`bootstrap-artifact.store.ts:102`): pages of either are refused, the files stay until the host clears them.

*Attachments and recovery points.*

- An upload whose database commit succeeds and whose answer is lost deletes the object of the row that
  now exists (`attachment.service.ts:93`): `lost` in `BinaryIsKept`.
- The purge of removed objects always lists the oldest 100 rows and never leaves out those it has purged
  (`attachment.repository.ts:193`), so after 100 none is purged any more. Nothing but tests calls it.
- A retained point whose protection never succeeded makes every clean-up throw, until the point expires. A
  point is deleted manifest first: a crash leaves its artifact for ever. Protecting an old point counts as
  fresh protection in the health answer.
- Daily points are kept 35 days, removed objects 30: in between a point may no longer be protectable
  (`CanBeProtected` says so).

*Platform.*

- A replay of a provisioning after the Store was suspended, extended or given a second owner is answered
  "Store provisioning foundation is incomplete." (`store-provisioning.service.ts:45`), because the check of
  the state runs on replays too.
- Commands read the clock before they wait: the history by `occurred_at` can contradict the history by
  version, and an activation that waited can begin before the end of an earlier subscription that expired.
- Subscription commands look for their identifier among subscription commands only, Store commands and
  license revocations among all, under different advisory keys: one identifier can suspend a Store and then
  extend a subscription (`DecidedOnce` states what holds).
- An issue finds the latest license in one statement; another license may be issued and revoked
  while it runs, and the issue then does not see that revocation (`LicensesSound` speaks of the one it read).
- A Store suspended from `read_only` would be restored to `active`; no code sets `read_only`.

*Money accounts, owner, corrections.*

- The canonical order of account locks (`docs/contracts/money-posting-v1.md:251`) is not kept by
  `customer-financial-correction.repository.ts:278`, which locks the accounts of the original, then those of the
  replacement: with a transfer it can close a circle. `NoCircularWait` is about the commands of `Postings`.
- Postings resolve the month and then lock the customer; corrections of customers and suppliers lock them
  the other way round, so a close can be between them.
- Correcting an owner-funded expense or supplier payment after the owner was reimbursed makes what is owed
  the owner negative; `owner-ledger-posting.repository.ts:299` and `accounting-correction-posting.repository.ts:258`
  refuse that (`money-posting-v1.md:283`).
- Reversals may post to archived accounts, deliberately; `ArchivedIsEmpty` is about the commands of `Postings`.
- `money-movement-posting.repository.ts:345` records a conflict and throws in the same transaction: the
  record is rolled back (`RolledBack` in `OperationClaims`).
- Writers in `withBusinessWriteTransaction` refuse even a completed replay when the Store may not write; the
  others replay first (`docs/product-unit-write-v1.md:168`).
- A rejected edit of a collection is replayed with another message for seven codes
  (`customer-financial-correction.repository.ts:188`): `Words`.

*Customers, suppliers, stock.*

- The credit history passes rows of returns to a resolver that throws for them
  (`customer-financial-correction-read.repository.ts:79`): `HistoryReadable` exempts them. A cancelled
  application of credit to a *sale* is shown as active.
- Invoices, opening payables and payments do not check that the supplier is active; returns,
  applications and refunds do.
- A restocked return of unknown cost, onto stock worth something, can never be cancelled
  (`sale-return-correction.repository.ts:561`), nor one that restocked two lines of one product, nor an
  oversold sale of valued stock. Stock worth 0 makes the first fail on a constraint
  (`schema/inventory.ts:177`), not with a code.
- The trigger of 0013 refuses any movement that leaves stock negative once that is disallowed, also
  one that brings it nearer to zero or undoes a sale.
- A count to 0 of stock with pending cost keeps `pending`, contrary to the comment "Empty stock carries no
  residual valuation".
- An update of a customer locks no row and counts a version even when nothing changes
  (`customer-write.repository.ts:183`); when it misses and the row meanwhile matches, it throws a bare error
  (`:546`, `ClassifyMissedUpdate`).

*Lists.*

- The same cut to milliseconds is in the audit, the search and the administrators' history
  (`GapsWithinAMillisecond`); the administrators' list of Stores, oldest first, repeats the last row at every
  page and never ends with pages of one (`StoresOnlyRepeat`).
- Reports by name read their anchor again by identifier alone: a renamed anchor moves the page
  (`ReportsByName`).

- The health of the backups is read before the lock (`notification-reconciler.service.ts:15`): of two requests
  at once the one with the older answer may commit last, end an episode whose cause never lapsed and lose
  the mark of its reader, or open one that is over (roadmap `:1922`: "stable episode deduplication").
  `EpisodesAreStable` and `ListIsFresh` are about the causes read under the lock.
- The settings are read in one statement and the balances in later ones: a threshold that falls together
  with a debt can end an episode although the debt was over the threshold throughout.

## Not modelled

- Credential hashing, token parsing and signatures are pure functions; where their result matters it
  is a member of a set (`Unverifiable`). Checksums and encryption of artifacts are taken to hold.
- The sums of reports and of the dashboard, rendered documents, configuration, contract, error mapping and
  logging keep no state. The audit log is written by triggers in the transaction it records and read by nothing
  but its list.
- Business dates (`operational-time`) are calendar arithmetic of the platform's library; `Notifications`
  takes ages and due amounts as they come out of them.
- The connection pool: a request has a connection. The bootstrap's artifact store, with its pages and
  lifetime, is one atomic dataset with a boundary.
- The table of plans: one active plan. The statuses `read_only`, `trial` and `past_due`, which no code sets.
- Limits of scans and deletions per run (25, 100) in the clean-ups.
- The health and backup-status answers, which only read; the migration tool, which runs before the program.

## Plan

Done: the idempotency protocol with its abstract ledger; generations and the write gate; sessions; the
change feed; the restore; the claims of all writers; every business domain, the lists, attachments and
recovery points, the platform and its licenses. Proved: every safety property of the first five, of the
claims, the platform, the lists, the postings, the expenses, the master data, the attachments and recovery points.

Next, in this order:

1. `SupplierAccounts` and `CustomerAccounts`, along the plan of the expenses: no receivable or payable is
   overpaid, credit is never negative, a document is corrected once.
2. `Stock`: `KnownIsEarned` and the single opening, which need no history's arithmetic.
3. `Notifications`: an answer is fresh, an episode ends only when its cause lapsed.

The proofs of related components then share a module, so that the sums and the facts about rows are stated
once.
