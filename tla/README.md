# FFDB: models, checks and proofs

FFDB gives every project a SQLite database of its own, served by a worker
process behind an HTTP API, with row-level security, an ordered change log and
offline replicas that push and pull through it. A control plane in PostgreSQL
keeps organizations, projects, accounts, usage, payments and jobs. This
directory keeps TLA+ models of the parts of that system where the order of
events decides whether it is right, the TLC runs that check them on small
instances, and proofs for every instance of the parts that carry the most.

Paths are relative to the repository (`src/` in `PROJECT.json`). `PROJECT.json`
maps every definition to the lines it models and lists components, runs,
mutants, findings, hazards and theorems.

## 1. Inventory

| Part | State | Operations | Module |
|---|---|---|---|
| Project sync tables, `crates/sqlite-runtime` | rows, change log, row versions, mutation receipts, schema version, policy catalog | statements, push, pull, snapshot, commit, rollback | `SyncServer` |
| Migration engine, `crates/migration-engine` | schema version, policy catalog | apply | `SyncServer`, `RowSecurity` |
| Row-level security, `crates/sqlite-rls` and the runtime's authorizer | policy catalog, generated views and triggers, approved sources | policy statements, data statements, migration, rollback, reopen, restore | `RowSecurity` |
| Offline client, `packages/sync-client` | replica rows, pending queue, rejections, cursor, the running synchronisation | mutate, sync, waiting pull, push, snapshot, abort | `OfflineSync` |
| Standalone sync engine, `crates/sync-engine` | rows, events, idempotency records, minimum sequence | push, pull, invalidate, compact, restore | `SyncEngine` |
| Sync worker, `apps/sync-worker` | open engine and revision, checkpoint files | create, push, invalidate, compact, checkpoint, shutdown | `SyncWorker` |
| Worker pool, `crates/database-router` | worker map, queue permits, process mutexes, pipes | execute, spawn, evict, idle expiry | `WorkerPool` |
| Database worker, `apps/database-worker` | receipt files, usage receipts, restore marker, the live database, backup files | frame loop, metered writes, backup, restore, receipt reconciliation | `RestoreOperations`, `BackupFiles`, parts in `SyncServer`, `WorkerPool`, `UsageLedger` |
| API dispatch and idempotency, `apps/api/src/lib.rs`, `idempotency.rs` | key rows with leases, project and backup lifecycle, watch channels | admit, renew, route, fence, persist, complete, abandon, replay, wake | `RestoreOperations`, `ApiDispatch` |
| Audit, `crates/audit` | a hash chain for each project | append | `ApiDispatch` |
| Project users, `apps/api/src/auth.rs`, `crates/auth` | users, sessions, refresh tokens, one-time codes, signing keys | register, verify, sign in, refresh, reset, revoke, rotate | `ProjectAuth`, `RefreshFamilies`, `Credentials` |
| Platform sessions, `crates/auth` | session rows by family | issue, rotate, revoke, disable | `Credentials` |
| Management commands, `apps/api/src/management.rs`, `host_updates.rs` | API keys, host jobs, audit events | create and revoke a key, rotate, install, roll back | `ManagementCommands` |
| Organizations and administrators, `apps/api/src/management.rs`, `instance.rs` | members, invitations, roles, disabled accounts | invite, accept, change, remove, disable | `Organizations` |
| Projects and the instance, the same files | projects and claims; deployment mode, billing account, plans | create with retry; setup, refresh, plan changes | `ProjectProvisioning`, `InstanceAdministration` |
| Platform billing, `crates/billing`, `apps/api/src/billing.rs` | the organization's subscription row, received events | webhook | `PlatformBilling`, `StripeEvents` |
| Project commerce, `crates/commerce`, `apps/api/src/commerce.rs` | orders, payments, refunds, memberships, entitlements, payment accounts | checkout, webhook, refund, fulfil, cancel, connect, disconnect | `CommerceOrders`, `CommerceMemberships`, `CommerceAccounts`, `CommerceDomain` |
| Email outbox, `crates/email` | templates, delivery jobs | publish, enqueue, claim, deliver, fail, purge | `EmailOutbox` |
| Usage, `crates/org-metrics`, `apps/api/src/metering.rs` | reservations, claims of active users, hourly totals, report outbox | reserve, settle, release, expire, seal, report, reconcile | `UsageLedger`, `UsageReporting` |
| Rate limits, `crates/rate-limits` | token buckets, entry count | check, clean up | `RateLimits` |
| Object storage, `crates/object-storage`, the worker's `storage.rs` | reservations, receipts, cleanup queue, the provider's blobs | authorize, reserve, upload, commit, release, clean up | `ObjectStorage` |
| Telemetry, `apps/api/src/observability.rs` | channel, aggregates, minute tables | record, flush, expire, summarize | `Telemetry` |
| Configuration, protocol types, client libraries, CLI, web applications | | | not modelled, section 8 |

How the parts interact:

- A device calls the sync API. The API authenticates, charges the rate limits,
  reserves usage, claims an idempotency key for writes, resolves the route and
  calls `ProcessWorkerExecutor::execute`.
- The pool finds or spawns the worker of a database generation and exchanges
  one frame over its pipes under a mutex.
- The worker runs the operation in one SQLite transaction with its usage
  receipt, or under a receipt file for backups, migrations and restores.
- SQLite triggers append to the change log in the same statement as the write;
  views and triggers compiled from the policy catalog decide what it touches.
- PostgreSQL holds the key rows, the project's lifecycle, usage, jobs, payments
  and the audit chain; the worker's files hold receipts and the database;
  Stripe and the mail provider keep their own. Nothing commits to two of them.
- A committed push notifies a watch channel that waiting pulls subscribed to.
- The sync worker is a second, self-contained implementation of the protocol
  with its own in-memory engine and checkpoint files.

What is hard here, at which line, and which properties it calls for, is the
list `hazards` of `PROJECT.json`. In short: answers that are lost, late or read
by the wrong call; retries of work that was already done; a crash between two
stores that do not commit together; cursors and pages at their limits; a lease
that runs out under its owner; a row that was read in one transaction and
changed before the next; events that arrive twice and in any order; counters at
their limits.

## 2. Modules

`SyncServer` models one project database. `db` is the committed database,
`txn` the open transaction with its private copy, `backup` an encrypted backup.
`Write` is a row write with its capture trigger. A push is `BeginPush`, one
`ApplyNextMutation` per savepoint, `CommitPush`; `Rollback` may come at any
point in between. Ordinary statements are `BeginStatements`, `Statement`,
`CommitStatements`. `Migrate`, `CreateBackup` and `RestoreBackup` complete it.
Pull and snapshot are operators (`PullPage`, `SnapshotRows`). A row is one
value and a policy says which values a user may read and write. `base_rows` and
`base_sequence` are history: what the last migration left, since its DDL runs
with capture suspended.

`OfflineSync` EXTENDS `SyncServer` with devices: a durable replica, the
running task, the outstanding call and its answer. Calls can be abandoned at
any moment and an abandoned push can arrive later (`ServeOrphan`). Tokens are
refreshed by the client library between two calls (`RefreshToken`). `SyncSpec` has no restores; `RestoreSpec` adds
them. `SyncProofs` shows
that the devices drive the database only as `SyncServer` allows
(`SyncSpec => Spec`).

`SyncEngine` is the state of the standalone engine as a record with its
operations as operators; `SyncWorker` EXTENDS it with the actor, the steps of a
checkpoint (temporary file, rename, directory sync), process death and power
failure. The caller's clock may step back.

`WorkerPool` models `execute` for a set of calls: permit, map lookup, spawn or
refusal, mutex, write, read, eviction; and a worker's loop. A frame a call gave
up on stays in the pipe, whole or torn.

`RestoreOperations` follows a restore or a write from its key row to the
database: admission and lease, routing, the `restoring` fence, the worker's
receipt and marker, persisting the result, the stored response, and the ways
each can fail. It keeps its own, smaller database: which writes and which
restore marker it holds and whether it was verified. Which failures happen is
the constant `Faults`. A call may get the answer to another request, as
`WorkerPool` shows: a restore notices and a write does not
(`MismatchedAnswer`). The worker that gave it was evicted and goes on with the
frames of the calls that waited for it, beside the next worker (`LeftBehind`,
`StrayAnswer`); `strays` remembers their keys. It is assumed that a worker stops
at its call's deadline, 15 s, before the 30 s lease of the next owner can begin
to matter.

`BackupFiles` is what happens on the disk in such an operation: the plaintext
image, the chunked encrypted file, its rename, decryption, the recovery copy,
cleanup, with two workers in one directory, deaths at every step and damaged or
misfiled files. The cipher is ideal.

`RowSecurity` has the policy catalog, its compilation into views and INSTEAD OF
triggers, the predicates in SQL's three-valued logic, the sources the
connection approves, and the authorizer. A statement changes the rows its
predicate finds, moves them to other keys, or inserts; one that says REPLACE
also puts its row where another was, as SQLite lets the outer statement's
conflict clause decide inside the generated triggers (`ReplacingStatement`).
Policy statements run inside a migration; rollback, reopening and restoring must keep memory and file in step.

`ApiDispatch` is what surrounds an operation in the API: the audit event that
admits it and the one that ends it, both appended to the project's hash chain,
and the watch channel of the waiting pulls. `UsageLedger`, `RateLimits` and
`Telemetry` are the counters every request passes; `UsageReporting` and
`EmailOutbox` the jobs that must be finished although their answers get lost.

`ProjectAuth` has the users of a project, with every handler split at its
transactions; `RefreshFamilies` is the abstract specification of its refresh
tokens, written from the in-memory store of `crates/auth`, and `ProjectAuth`
instantiates it (`Families`) with the mapping of its tables. `Credentials`
adds the signing keys and the developers' sessions, and states what holds of
all credentials; `ManagementCommands` completes the accounts.

`Organizations` (with the administrators of the instance in its second half),
`ProjectProvisioning` and `InstanceAdministration` are the control plane, where
a request reads, audits and locks in separate steps. `PlatformBilling` and the four `Commerce*` modules
take Stripe's events in any order; `StripeEvents` says what an event and its
order is. `ObjectStorage` relates a quota, the metadata and the blobs of a
provider.

The `MC*` modules hold the constants of the runs. Most run several components:
a variable `lane` is chosen once, in the initial state, and only the component
or the aspect of that lane takes steps, so the lanes' state spaces add up
instead of multiplying. The operators whose comment begins with "Mutant:" are
changed versions of a definition: for each property, `PROJECT.json` names one
under which TLC finds the property violated. Composite properties have one
mutant for each of their parts in the modules; `PROJECT.json` names one of them.

The `*Proofs` modules hold the theorems of section 5.

## 3. Runs, bounds and fairness

| Run | Lanes | Shows |
|---|---|---|
| `sync_server` | | The version ledger agrees with the log (`VersionLedger`), replaying the log gives the rows (`LogExplainsRows`), a client mutation takes effect once (`MutationsOnce`), pages skip nothing visible (`PullNeverSkips`). |
| `offline_sync` | steady, change | A replica whose cursor is current shows what its user may read wherever nothing is pending or undelivered, and deleted rows do not stay or return (`ReplicaFaithful`); queued mutations are not lost (`PendingNotLost`); under fairness they are resolved (`SteadyQueueDrains`) and the replica converges (`SteadyReplicaConverges`). |
| `sync_worker` | | Stored checkpoints are accepted by `restore` and differ from memory only after a failed directory sync (`StoreFaithful`), no history is missing above the minimum and no mutation is applied twice (`HistoryFaithful`), what was answered survives a power failure (`AnsweredIsDurable`). |
| `worker_pool` | plain, deadlines | While no deadline passes every call returns (`CallsComeBack`); with deadlines, a call gets its own answer unless another call gave up on the same worker, and no answer is returned by two calls (`AnswersSound`). |
| `pool_answers_shift` | deadlines | Violation: with deadlines a call returns another call's answer (section 4). |
| `restore` | shifted, leases, files | Each restore is carried out once and under the fence, unless its own call was answered while a worker kept its frame (`RestoreFenced`); success is answered for work that was done, unless a write was given another request's answer, and no write is in the database twice (`AnswersBacked`); what is published as a backup opens as the image it was taken from and a restore yields that image or fails (`BackupsSound`). |
| `delivery` | reports, mail, restore | Nothing is over-reported and a finalized period is exact (`ReportsExact`), delivered mail was sent and none goes out more often than it was tried (`MailAccounted`), a crashed restore is not run again (`RestoreFenced`); periods close, mail settles, the fence lifts (`ReportingCloses`, `EmailSettles`, `FenceLifts`). |
| `commerce` | orders, memberships, accounts, sales, subscription | Rows follow the newest event, refunds stay within the capture and add up unless two refund events of a payment overlapped, what ships was paid (`OrdersSound`), entitlements are those of a current subscription (`MembershipsSound`), keys follow the mode and an account is exchanged only by a transaction that found nothing made in it (`PaymentAccountsSound`). |
| `accounts` | sessions, codes, settings, keys, platform, commands | Sessions rest on the newest password, or on the one before if the change overtook their sign-in, a code works once, reuse of a token ends its family (`CredentialsSound`); a key is served while its tokens live (`KeysOutliveTokens`); commands are audited and keys used within their rights (`CommandsSound`); the tables implement the abstract families (`ImplementsFamilies`). |
| `operations` | amounts, users, limits, dispatch, samples, windows | Reservations stay within the allowances (`AllowancesHold`), buckets hand out no more than they refill (`LimitsHold`), the chain is linear and no wake-up is lost (`DispatchSound`), samples are stored once or counted as dropped (`TelemetrySound`). |
| `control` | members, invitations, staff, projects, instance, billing | Organizations and the instance keep an owner (`OwnershipHolds`), a project is admitted within the limit its transaction read and an answered one was provisioned (`ProvisioningSound`), setup is in one piece and the subscription row follows the newest event (`BillingFollows`). |
| `storage` | objects, quota, multipart, completion, policies, rows | Every blob is accounted for within the quota (`StorageAccounted`); the generated code enforces the declared policies (`PoliciesEnforced`), approved sources are those of the catalog (`ApprovedInStep`), the policies of one operation allow every row a statement changes, but for the rows a REPLACE finds under its key (`RowsFollowPolicy`). |

### Bounds

- Sync: two rows, two to three values and three mutations, among them two that
  share an id, one the policy refuses and one that hands its row over; three
  changes in the log (four against the device in the lane "steady", two in
  "change"), one migration, pages of one change against the device. A page of
  one is the smallest that can be too small, and three changes leave one in
  front of, on and behind a page's edge. `Headroom` keeps a part of the log
  free for the device, so that other writers do not use the bound up.
- One device is enough for the client's own races: the developer's writes stand
  for every other writer, and devices share nothing but the database. The
  theorems of section 5 are for any number.
- Sync worker: one row, three sequence numbers, three clock values with
  retentions of one, two idempotency records, batches of two: compaction,
  expiry and the capacity limit all occur, in any order.
- Pool: four calls over two databases and two generations, one worker place,
  two processes. Two calls on one process are what a shared pipe needs to go
  wrong, a third brings the next generation.
- Restores: two dispatches at a time, two restore keys and a write; one restore
  key where liveness is asked for. Two owners of one key and one restore that
  disturbs another are the cases that matter. The lane "shifted" has mismatched
  answers, and workers left behind with the frames of one key; "leases" has lost
  leases and torn receipts. The theorems are for any number; only the fence
  under mismatched answers rests on the bound, and a third dispatch breaks it
  (section 4). Backup files: two names, two
  workers (one at a time once the second name is in use), contents of one and of
  three chunks, one damage; `BackupsHold` is for any number.
- Accounts: one user, two sessions, three tokens, two codes, two requests at a
  time and clocks of two or three ticks, so that a second request runs between
  any two steps of the first and everything that expires does; three signing
  keys, four session rows of a developer, two commands.
- Operations: three calls against allowances of one and two; four bucket keys
  with room for two rows; two operations and two polls; two producers, a
  channel of one, one pending key, so that full channels and tables occur.
- Control: three people, two concurrent requests, two invitations; two projects
  against an allowance of at most one, with entitlements that come and go; two
  accounts; three billing events of which two share a second.
- Commerce: one order of two units with two refunds (one of all that is left,
  one of a unit), two subscriptions that grant one entitlement, two merchants
  and one connected account, three events.
- Storage: one object name, three uploads of one or two units against a quota
  of three, two tries of a cleanup. Policies: two tables, one of them built in,
  five drafts of policies chosen to differ in mode, command, role and check,
  four statements.
- Ids that carry no meaning are used in order; where a lane restricts its
  component further, the `MC` module says so beside it.
- `SYMMETRY` is used for requests, slots, keys and slugs, in runs without
  liveness only. `CHECK_DEADLOCK FALSE` is set throughout: the instances end
  when the calls are made or the bounds are reached, as the system may idle.

### Fairness

- `FairSyncSpec`: weak fairness of each device's steps; strong fairness of
  `StartSync`, since the controller starts a synchronisation again after every
  mutation and every failure; strong fairness of the server's steps and weak
  fairness of the commit of open statements, since transactions end by their
  deadline and the connection's mutex is not held for ever. Failures are
  bounded by `MaxFaults`.
- `FairPoolSpec`: weak fairness of the calls and of the worker's loop, strong
  fairness of `Lock`, because tokio's mutex is granted in queue order. Nothing
  assumes that a deadline passes or a worker dies.
- `RestoreOperations`: dispatches, workers and abandoned executions go on, a
  lease nobody renews runs out, the client of a restore retries with its key,
  and failures from outside end at some point (`<>[][~Disturbed]`).
- `UsageReporting`, `EmailOutbox`: time passes and the tasks, which run in a
  loop for as long as the process lives, take their steps; faults are bounded.

### Assumptions about constants

- `RateLimits` assumes nothing of the settings. That a key is granted no more
  than its capacity and the refill is stated for the keys whose idle rows are
  full again before they may be deleted, even if the check that finds one gone
  read its clock `Patience` earlier (`IdleRowsFull`,
  `Rate * (IdleTtl - Patience) >= Capacity`). The defaults satisfy it; neither
  `crates/config/src/lib.rs:371` nor `TokenBucketConfig::validate` demands it.
- `Credentials`: a rotation finishes within the tolerance for clocks, and a
  token lives no longer than the grace of its key (`JwtTtl <= Grace`).
- `BackupFiles`: a backup's id is not the name of a recovery copy.

## 4. Where the code and its documents disagree

Each row states a sentence of the repository's documents or comments, or what a
reader of the code would expect, as a property that the code does not have. The
first is the run `pool_answers_shift`. The others are stated in their modules
and checked by hand: the property is added to the configuration of the run
named here, with the change the row mentions. TLC finds a behaviour of the code
that contradicts it.

| Property, instance | Sentence | What happens |
|---|---|---|
| `WorkerPool!AnswersMatch`, `pool_answers_shift` | docs/architecture/runtime-scaling.md:40 | After a deadline, a call that was waiting for the same process reads the late answer of the other one. |
| `WorkerPool!OneProcess`, `ResidentBounded`, `worker_pool` | docs/architecture/runtime-scaling.md:40 and :33 | An eviction while calls still wait leads to two processes for one generation, and to more than `max_workers`. |
| `OfflineSync!PendingResolves`, `offline_sync` without lanes, so that a migration can happen | docs/sync-protocol/README.md:36 | After a migration a device with queued mutations is refused at every push and never reaches the pull that would tell it to take a snapshot. |
| `OfflineSync!BeyondLogResnapshots`, `offline_sync` under `RestoreSpec` | docs/operations/backup-restore.md:144 | A cursor beyond the restored log still verifies (`sync.rs:935`); sequence numbers are used again below it. |
| `OfflineSync!ReplicaOnlyReadable`, `offline_sync` | docs/sync-protocol/protocol.md:98 | An update that takes a row out of a user's view is not delivered and the copy stays (`sync.rs:376`). |
| `SyncServer!DuplicatesReauthorized`, `sync_server` with the policies `MCRevoking*` | docs/sync-protocol/protocol.md:57 | A resubmitted mutation is answered from its receipt without asking the current policy (`sync.rs:474`). |
| `SyncWorker!PullReturnsAll`, `sync_worker` | docs/sync-protocol/README.md:9 | `SyncEngine::pull` puts the cursor on the first event that did not fit, so the next page leaves it out. |
| `RestoreOperations!OutcomeKnown`, `restore` | crates/sqlite-runtime/src/lib.rs:656 | A second restore that fails before its commit can never be retried: the first one's marker makes its outcome unknown. |
| `RestoreOperations!FenceHolds`, `restore` with `TwoBackups`, without symmetry | docs/operations/backup-restore.md:150 | The end of one restore lifts the fence of a restore of another backup. |
| `RestoreOperations!FenceHolds`, `restore` with three slots, mismatched answers and lost leases in one lane, without writes | docs/operations/backup-restore.md:150 | A worker was left behind with the restore of a key; the retry of that key has its result, records it and lifts the fence while a third dispatch restores under another key. |
| `RestoreOperations!AnswersVerified`, `restore` | docs/operations/backup-restore.md:136-138 | A retry answers `integrity_ok` for a database that was never checked. |
| `RestoreOperations!FenceDrains`, `restore` | docs/operations/backup-restore.md:128 | A write routed before the fence reaches the database behind it, and the restore discards it after it was answered. |
| `RestoreOperations!FenceLifts`, `delivery` with the fault "torn" | docs/operations/backup-restore.md:150-153 | A receipt file a worker died writing stops every retry until it is removed after 48 hours. |
| `RestoreOperations!FenceLifts`, `delivery` with the fault "outage" | docs/operations/backup-restore.md:150 | A dispatch that lost its lease fences the project after the new owner finished; if it fails then, every retry is answered from the stored response and the fence stays until the key row expires. |

Other properties one might expect and the code does not have, each stated in
its module with the reason: `CatalogBound` (`CommerceAccounts`),
`DeadWasNotSent` and `AttemptsBounded` (`EmailOutbox`), `StartsAgain`
(`InstanceAdministration`), `ObjectsReadable` (`ObjectStorage`), `PaidIsEntitled`
(`PlatformBilling`), `SignOutEnds` (`Credentials`), `RetryFinishes`
(`UsageLedger`), `PeriodAlwaysCloses` (`UsageReporting`), `AnsweredStaysActive`
(`ProjectProvisioning`). They come from requests that read in one transaction
and write in another, and from claims that carry no token.

What the checked properties except, because the code does it:

- A write that is given another request's answer is completed with it
  (`apps/api/src/lib.rs:2055`): dispatch compares only the answers of restores.
  Its retry gets the same stored answer (`AnswersBacked`).
- A session whose sign-in checked the password before a change and inserted its
  row after it survives the change (`apps/api/src/auth.rs:918`, `954`): nothing
  is checked again (`SessionsFollowPassword`, `Overtaken`). Rows that are not
  committed yet are not seen by `revoke_user_sessions` either.
- Two refund events of one payment that are processed together each sum without
  the other (`apps/api/src/commerce.rs:4311`), and the later commit writes its
  smaller total, until the next refund event (`RefundLedger`). A refund that is
  retried while its order is fulfilled has the same window.
- The trigger that guards the account of a project looks at committed rows, and
  a statement and the commit follow: a sale in between stays with the old
  account (`NoRebinding` says what the trigger found, `CatalogBound` fails).
- A handler reads the stored bytes and records them with a later clock
  (`apps/api/src/storage.rs:885`, `metering.rs:405`), so an old size may stand
  as the newest one and a further upload is admitted beyond the limit. No
  settlement does this (`StorageWithinAllowance`, `Understated`).
- An organization can have more projects than its plan allows: subscriptions
  end, exemptions are revoked, enforcement is switched on and limits are
  lowered without a look at the projects (`AllowanceHolds` speaks of the moment
  of admission).
- A statement that says REPLACE, or an update with that conflict clause, removes
  the row it finds under its key. Only the new row is checked; the SELECT,
  UPDATE and DELETE policies of the old one are not asked (`RowsFollowPolicy`,
  `Allowed`).
- With two reporters a period can be finalized while the other one still sends
  (`FinalizedExact`); one is deployed.

## 5. Theorems

Proved by TLAPS for every value of the constants, from the named assumptions of
the modules, which TLC evaluates in every run of them. Each theorem is the
usual three steps, `Init => I`, `I /\ [Next]_vars => I'`, `I => P`, with one
lemma per action; the inductive invariant `I` was checked by TLC on the run's
instance before it was proved.

**The change log** (`SyncProofs`: `TypeCorrect`, `VersionLedgerHolds`,
`LogExplainsRowsHolds`, `MutationsOnceHolds`, `PullNeverSkipsHolds`). The
invariants are stated of every database there is: the committed one, the copy
inside an open transaction and the backup. None is inductive by itself: that a
ledger entry names the last change of its row says nothing of the versions of
earlier changes, and a migration's base must be known to lie within the log.
`LogSound` adds what is missing: `VersionsBound` (no change carries a version
above the ledger's), `BaseBound` (the base of the last migration lies in the
log), `ReceiptsUnique` and `ReceiptsComplete` (receipts and changes of client
mutations correspond one to one). The work is in one lemma about a captured
write, one about a pushed mutation, where change and receipt arrive together,
and one about a migration. `PullNeverSkips` is about the arithmetic of a page:
the first `limit` visible changes of the examined part (`Firsts`) are the
smallest ones, and the cursor stops in front of the first that is left out.
Counting needs induction, which is done through a least counterexample
(`MinOfNaturals`), since the library's induction theorems take an operator.

**Offline replicas** (`SyncProofs`). `DevicesImplementServer`: under any
interleaving of devices, cancellations and late pushes the database takes only
steps of `SyncServer`, which brings `LogSound` to it. `PendingNotLostHolds` and
`ReplicaFaithfulHolds` rest on `SyncInvariant`, which follows a page, a
snapshot and the results of a push from the moment they are read in the
database to the moment the device stores them. An answer that travels
(`PageFits`, `SnapshotFits`, `PushFits`) is compared with the database as it is
by then, which has grown since (`Grows`), or migrated, and then the schema in
the cursor no longer counts. A replica shows a row as it is unless the row
changed behind the cursor or has a queued mutation (`ReplicaFits`); so the
mutation may leave the queue only when its change is behind the cursor, or a
snapshot is due: that is what the results of a push decide (`TaskFits`,
`PushFits`). A mutation a device queued and no longer holds was rejected or has
its receipt (`QueueFits`). The invariant was first checked by TLC on the
instance of `offline_sync`.


**Accounts** (`AccountProofs`, `RefreshFamilies`). `TablesImplementFamilies`:
the tables of sessions and refresh tokens implement `RefreshFamilies`, step by
step; `OneTokenPerSession` is a theorem of the abstract specification, carried
over to the tables. `CredentialsHold`: a live session rests on the newest
password, or was overtaken by the change between its check and its insertion,
and a code has its effect once; `ChecksPrecede` says that the password a
request checked is none that came later. `AuthInvariant` adds that every
session, token and code belongs to an account that exists, that a token's
session exists and a token that was not used has no successor, and that a
request which checked something has the shape its commit relies on.
`KeysOutlive`: `KeysInvariant` says that a token, signed or about to be signed
with a key already chosen, is covered by its key's time (`TokensCovered`), that
what a request read lies in the past (`ReadBefore`) and that there is one active
key. `CommandsHold`: `CommandFits` ties the stage of a command to its audit
events and to what it acted on, `RevocationsStand` the requests to the keys.
`PaymentAccountsHold`: one transaction has the account's row from the trigger to
the commit and carries what the trigger found (`HoldersChecked`), and keys are
written and deleted with the mode.

`CredentialsAreSound` and `ReuseEnds` add the developers' sessions, whose
transactions run at READ COMMITTED: the row a transaction locked stays as it
found it (`TxFits`), one rotation of a user is at work (`OneRotation`), and a
row that is not committed is the new row of that rotation (`RowsStand`). So the
rows a reuse sees are all there are, and when they are revoked the family is
over (`ReplayedEnded`), which does not hold of a sign-out (`SignOutEnds`,
section 4).

**The worker pool** (`WorkerProofs`). `AnswersAreSound`: `PoolInvariant` orders
what is in the pipes of a process, the call that writes, the frames the worker
took and the answers it wrote, as one queue (`PipesOrdered`). While nobody gave
up on the process that queue holds only the call that has its mutex
(`CleanPipes`), so the answer that is read is the caller's own; after a deadline
it is still true that an answer is read once (`AnswersRead`, `AnsweredWith`).

**The sync worker** (`SyncWorkerProofs`). `StoreIsFaithful`,
`HistoryIsFaithful`, `AnswersAreDurable` rest on `WorkerInv`, which is stated of
every engine there is: the one in memory, the checkpoint that is being stored,
the one a failed job goes back to, the file the directory shows and the one a
power failure brings back. Each is a sound engine (`EngineOK`): its sequence
numbers are consecutive from its minimum, rows and receipts come from its
events. What was answered has its event in the durable file, or lies below its
minimum because a compaction that is in it too dropped it.

**Row-level security** (`WorkerProofs`). `PredicatesMeanPolicies`: the
generated three-valued predicate is true exactly where the declared policies
admit a row. `PoliciesHold`, `SourcesInStep`, `RowsFollow`: `SecurityInvariant`
says of the file, of what a rollback would restore and of every backup that
their generated code is that of their catalog (`Generated`), and of file and
memory that the approved sources are in step while no restore came between. For
`RowsFollow` every row that differs after a statement is one its operation
asked the policies for, or the target of a move or a replacement (`ChangedRow`),
and what the trigger checked is what is `Allowed`.
`PoliciesHold` is what `PoliciesEnforced` checks in its lanes.

**Dispatch and backups** (`ServiceProofs`). `DispatchHolds`: one append at a
time is between its lock and its insert, and all waiting polls listen to the
channel that is notified (`OneAppends`, `PollsListen`). `BackupsHold`: every
chunk in every file is one that some backup sealed for its place
(`FilesGenuine`), whatever was damaged, cut or misfiled, and a worker's partial
result is a prefix of what was backed up (`WorkFits`).

**Restores and writes under keys** (`ServiceProofs`). `AnswersBackedHolds`,
under every fault: whatever records a success, a row, a receipt, the marker or
the usage table, does so of an operation that was carried out (`AllEarned`);
only the row and the answer of a write may instead come from another request,
and then its key is among the `strays`.
`RestoredOnce` needs that no two executions of one key are at work
(`WorkersApart`): without crashes there is one worker (`OneWorks`); with them,
as long as leases are kept (`LeasesKept`), a dispatch holds its row to the end
and the row of a frame that was left behind is held by nobody and has not run
out (`Leased`). So a restore starts under a started receipt before the only
time it is committed, and the marker tells afterwards (`CarriedOutOnce`).
`RestoreFencedHolds` adds that whoever is about to restore has the fence and the
backup's row until the receipt is complete (`FenceRelied`). Its hypotheses are
the ones the code needs, and TLC has a counterexample without each of them:
every call gets its own answer, crashes do not come together with lost leases
(`CrashesApart`, section 6), and the restores are of one backup (section 4).

**The control plane** (`ControlProofs`). `OwnershipKept`: a transaction has the
organization's row, so the role it read, what it checked of its target and the
number of owners still hold when it writes (`TransactionFits`); an acceptance
has its invitation to itself (`HeldPending`), and an invitation that makes an
owner was written by one (`InvitesShaped`). That the last owner stays also needs
`MembersHaveAccounts`: whoever joins had no role before. The setup of the
instance is completed by its owner and the owner stays (`OwnerPresides`).
`BillingKept`: a commit
overtakes every request that is under way, so one that was not overtaken knows
the mode, the account and the price as they are (`RefreshFits`, `PlanFits`); a
setup has the settings row, so the account of a tenant it saw stays bound
(`SetupFits`). Stamps are a total order and no two events share one
(`StampOrder`, `EventsFit`), and a row that takes exactly the newer events shows
the newest (`NewestShown`), also when two transactions both found no row.
`MembershipsHold`: the row of a subscription carries the stamp of the last
report that was applied (`LastApplied`), nothing newer was processed, and an
active entitlement means that this report granted it; an end that a cancel
request recorded was confirmed by Stripe (`EndConfirmed`), so a report of it is
still to come. `ProvisioningHolds`: whoever is about to insert a project holds
the organization's row (`LockFits`), and what it read of limit and projects
stays true of the projects until its insert (`RoomFits`), whatever happens to
the entitlement meanwhile. A request past provisioning, and every
recorded answer, has a project that went through it, and a claim with an answer
has no owner (`AttemptFits`, `ClaimFits`); no step takes a signing key or an
opened database back (`ProjectsGrow`).

**Rate limits** (`ServiceProofs`). `LimitsAreKept`: the tokens in a row and what
its key was granted fit in the capacity and the refill up to the row's time
(`RowCharged`). A key without a row was granted nothing, or the refill has
caught up with it even at the time of the oldest request that waits
(`KeyRested`): that is where `IdleRowsFull` is needed, and the bound is stated
for the keys that have it. Requests hold disjoint locks, so the rows one has read stay as it read
them until it commits (`LocksFit`, `CheckUnderway`), and the counter of entries
is the number of rows (`EntriesCount`).

**Object storage** (`QuotaProofs`). `StorageIsAccounted`, for any finite set of
objects and of grants. A provider key is started by one grant (`StartedOnce`),
so the size that its contents have is known from then on (`Sized`), and a grant
that replaces an object reserves what the object grows by (`GrantFits`): a
commit moves the bytes of a live reservation to the object it changes and the
sum does not grow. A reservation that ran out no longer counts, and nothing is
committed under it. What a cleanup may delete was replaced, or belongs to a
grant that ended without a receipt (`ItemFits`); such contents are no object's,
unless the upload was completed under a second grant, which is the exception
`ObjectsKept` makes. An item that a cleaner works on has been tried no more
often than the queued one (`Tried`), so an acknowledgement that comes after the
lease has lapsed removes no item that was not done, and every blob stays tracked
(`BlobsTracked`). The quota is a sum over a set: `MapThenSumSet` is a recursive
function over the subsets, and that it is defined, that the order does not
matter and what it does when an element comes, goes or changes is proved first,
each by a least counterexample (`AddsUpto`, `AddsSame`, `SumTake`, `SumPut`,
`SumPart`).

**Usage allowances** (`QuotaProofs`). `AllowancesAreKept`, for any finite set of
calls, any users and any limits. The clock makes a held reservation worthless
before anyone notices, so the writes are counted with the lapsed reservations
that no call has expired yet (`WritesCounted`); the limits are only read by the
call that has just expired them. A user whom no event has settled has a claim
that counts exactly the reservations; one with an event is active and late
settlements may have taken from its count (`ClaimFits`), which is why the row
goes only when both are gone. For the bytes, the invariant says where each is
accounted for (`Balanced`): what is stored and not recorded is held by
reservations whose work ran, the room a write was sent with is at most what was
recorded plus its growth, and room, objects and the uploads still to run fit
together. It may fail only when something that was done is released, expired or
settled late, or a recorded size was overtaken, and that excuse, once there,
stays (`Excused`). A write's receipt carries size and time together; of an
upload the API takes the time and reads the size afterwards (`WorkFits`), so
the size of a settlement counts every upload done by its time and no settlement
is `Short` (`EventsGood`). The handler's own record of the objects takes its
time after the reading and may be.

**Usage reports** (`QuotaProofs`). `NothingIsOverReported`, for any number of
reporters: what the provider holds and what a cycle has claimed is known to the
outbox by its identifier, so what is sent again counts once (`Booked`), and
neither the outbox nor the totals a cycle has read exceed what was used
(`UnderTotal`); storage is excepted once a late snapshot has lowered it.
`ReportsAreExact` adds, for one reporter, that a cycle compares with the totals
of a sealed period, which no longer change, and that what it found to match
still does when the period is finalized (`CloseInv`).

**Mail** (`ServiceProofs`). `MailIsAccounted`: a claim counts its attempt before
anything is sent, so what went out and the tasks at work on a message are
together at most its attempts, also when a task's claim has passed to another
(`MailInvariant`).

Only model-checked:

- every liveness property: fairness and ENABLED are out of the prover's reach;
- what needs further sums or cardinalities over changing sets, or products of
  variables: `Telemetry`, the refund ledger of `CommerceOrders`;
- what no proof was written for yet: the payments
  and captures of `CommerceOrders`.

## 6. What the checks leave open

- `MutationsOnce` is stated per subject and token: receipts are bound to the
  token id, so a mutation whose answer was lost before a token refresh is
  written again under the new one. The code does this; nothing documents more.
- `RestoreOnce` is proved for outages or for crashes, not for both at once, and
  when every call gets its own answer. A lease is not confirmed before the
  worker starts, so an outage followed by a crash can let two workers restore.
  After a mismatched answer the row is gone while the worker goes on, beside the
  next one; the properties except the keys this happened to (`strays`), and
  TLC checks the others.
- The conflict of one key used for two different requests, and the removal of
  receipt files after 48 hours, are not in `RestoreOperations`.
- The client's queue is in the order of `mutate()`; the code sorts by the
  device's clock and then by id. The timers of the controller are left to the
  fairness of `StartSync`.
- Lanes do not interact. Where components share state in the code, the shared
  part is in one module (the restore and the write in `RestoreOperations`, the
  commands and the keys they revoke in `ManagementCommands`), with one
  exception: the tables of object storage are also surfaces of row-level
  security that an end user's SQL may write under the policies uploads need
  (`crates/sqlite-runtime/src/authorizer.rs:97`), and `ObjectStorage` has only
  the storage protocol. Deletes of objects are not in `UsageLedger`.
- In `RowSecurity` a table's primary key is its only unique key.
- Details that are coarser than the code:
  `AckCleanup` refuses a lapsed lease, the code compares id and
  token; a handler that is dropped in `execute` frees the worker's mutex without
  an eviction (`apps/api/src/lib.rs:2054`); `Compare` takes the provider's total
  over all events, the code over the period (`stripe.rs:625`); a refresh of
  `PlatformBilling` computes the catalog at its commit, the code before it asks
  Stripe (`billing.rs:757`); a revocation of an API key whose answer is lost is
  not in `ManagementCommands`.
- `MembershipsSound` also excepts an entitlement whose cancellation was
  processed without being the newest report; `BillingFollows` speaks of commits
  that no other one overtook (`raced`).

## 7. Plan

Done, in the order of the system's importance: the change log, the offline
client over it, the sync worker, the worker pool, restores and backup files,
accounts, row-level security, usage and mail, commerce, the control plane,
storage, dispatch and telemetry.

To prove next: the orders of commerce, whose refund ledger can use
the sums of `QuotaProofs`.

To model further, if it is worth it: the controller's timers and a device clock
that steps back; backup and migration receipts in `RestoreOperations`; an
abstract once-only register that `RestoreOperations` implements where
`RestoreOnce` holds.

## 8. Not modelled

- Cryptography and codecs: tokens, password hashes, cursor signatures, the
  cipher of backups. The models assume that what is signed cannot be forged and
  that a sealed chunk opens only as what it was sealed.
- The text of SQL: parsing, analysis of policy expressions, the mapping of
  names. The models begin with what a statement does.
- Catalogue, tax, pricing and reporting handlers, read-only handlers, the
  runner of the control plane's own migrations, `operations.rs`.
- Configuration and protocol types: no state that changes.
- Client wrappers, CLI, portal, documentation and landing pages.
- Templates and the SMTP dialogue, S3 requests, export formats, logging.
