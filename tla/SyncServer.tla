----------------------------- MODULE SyncServer -----------------------------
(***************************************************************************)
(* The server side of offline sync: the protected SQLite tables in which a *)
(* project database keeps its ordered change log, and the operations of a  *)
(* runtime session that read and extend it (crates/sqlite-runtime/src,     *)
(* called by apps/database-worker).                                        *)
(*                                                                         *)
(* One connection behind one mutex serves a database, so a transaction is  *)
(* a private copy (txn.work) of the committed state (db) that replaces it  *)
(* at COMMIT and is forgotten at ROLLBACK.  A push applies its mutations   *)
(* one savepoint at a time inside such a transaction.                      *)
(*                                                                         *)
(* A row is one abstract value.  Row-level security is a pair of relations *)
(* per policy: which values a user may SELECT and which it may write.      *)
(***************************************************************************)
EXTENDS Integers, Sequences, FiniteSets, FiniteSetsExt

CONSTANTS
  Users,        \* authenticated subjects
  Developer,    \* the actor of developer statements, which bypass row policies
  Tokens,       \* access-token ids: a session is a user and a token
  Keys,         \* primary keys of the synchronised tables
  Values,       \* row values
  NoRow,        \* the absence of a row
  Policies,     \* row-policy catalogs a migration may install
  FirstPolicy,  \* the catalog a fresh project database starts with
  Readable,     \* Readable[p][u]: the values u may SELECT under p
  Writable,     \* Writable[p][u]: the values u may INSERT, UPDATE or DELETE
  MutationIds,  \* client mutation ids
  NoMutation,   \* the NULL client_mutation_id of an ordinary write
  BatchLimit,   \* mutations of a push: 100 in the code
  ScanLimit,    \* changes a pull examines: min(max_rows, 10 000) in the code
  Offered,      \* the mutations and statements clients submit
  Rewrites,     \* the table contents a migration may leave behind
  MaxChanges,   \* bound on the length of the change log
  Headroom,     \* the part of MaxChanges that ordinary statements leave to pushes
  MaxSchema     \* bound on the schema version

Rows == [Keys -> Values \cup {NoRow}]
Actors == Users \cup {Developer}

ASSUME SentinelsDistinct ==
  /\ NoRow \notin Values
  /\ NoMutation \notin MutationIds
  /\ Developer \notin Users
ASSUME PolicyShape ==
  /\ FirstPolicy \in Policies
  /\ Readable \in [Policies -> [Users -> SUBSET Values]]
  /\ Writable \in [Policies -> [Users -> SUBSET Values]]
ASSUME BoundsPositive ==
  /\ BatchLimit \in Nat \ {0}
  /\ ScanLimit \in Nat \ {0}
  /\ MaxChanges \in Nat
  /\ Headroom \in 0 .. MaxChanges
  /\ MaxSchema \in Nat
Mutation == [id: MutationIds, key: Keys, op: {"upsert", "delete"}, value: Values]
Change == [sequence: Nat, key: Keys, op: {"insert", "update", "delete"},
           row_version: Nat, value: Values \cup {NoRow}, actor: Actors,
           schema: Nat, mutation: MutationIds \cup {NoMutation}]
Version == [row_version: Nat, last_sequence: Nat, deleted: BOOLEAN]
Receipt == [subject: Users, client: Tokens, mutation: Mutation,
            sequence: Nat, row_version: Nat]
PushRequest == [user: Users, token: Tokens, schema: Nat, mutations: Seq(Mutation)]
ASSUME InputShape ==
  /\ Rewrites \subseteq Rows
  /\ Offered \subseteq Mutation

Status == {"applied", "duplicate", "rejected"}

(***************************************************************************)
(* The tables of one database.  base_rows and base_sequence are history:   *)
(* the table contents and the log position the last migration left.  A     *)
(* migration's DDL rewrites tables with change capture suspended, so the   *)
(* log explains the rows only from there on.                               *)
(***************************************************************************)
Database == [rows: Rows, next_sequence: Nat \ {0}, changes: Seq(Change),
             versions: [Keys -> Version], mutations: SUBSET Receipt,
             schema: Nat, policy: Policies,
             base_rows: Rows, base_sequence: Nat]

VARIABLES
  db,       \* the committed database
  txn,      \* the open transaction, or NoTxn
  backup    \* the encrypted backup an operator may restore

serverVars == <<db, txn, backup>>

NoTxn == [kind |-> "none"]
PushTxn == [kind: {"push"}, request: PushRequest, work: Database, results: Seq(Status)]
AppTxn == [kind: {"app"}, actor: Actors, work: Database]

EmptyDatabase ==
  [rows |-> [k \in Keys |-> NoRow], next_sequence |-> 1, changes |-> <<>>,
   versions |-> [k \in Keys |-> [row_version |-> 0, last_sequence |-> 0, deleted |-> FALSE]],
   mutations |-> {}, schema |-> 0, policy |-> FirstPolicy,
   base_rows |-> [k \in Keys |-> NoRow], base_sequence |-> 0]

(***************************************************************************)
(* Change capture: the triggers of capture_one_trigger run in the same     *)
(* statement as the row write.  The row value travels in values_json, or   *)
(* in tombstone_json (the deleted row) for a delete.                       *)
(***************************************************************************)
Operation(old, new) ==
  CASE new = NoRow -> "delete"
    [] new # NoRow /\ old = NoRow -> "insert"
    [] OTHER -> "update"

CapturedChange(d, k, new, actor, mutation) ==
  [sequence |-> d.next_sequence, key |-> k, op |-> Operation(d.rows[k], new),
   row_version |-> d.versions[k].row_version + 1,
   value |-> IF new = NoRow THEN d.rows[k] ELSE new,
   actor |-> actor, schema |-> d.schema, mutation |-> mutation]

\* Mutant: the delete trigger forgets its upsert into __ffdb_sync_versions.
Write_stale_version(d, k, new, actor, mutation) ==
  LET change == CapturedChange(d, k, new, actor, mutation) IN
  [d EXCEPT
     !.rows[k] = new,
     !.next_sequence = @ + 1,
     !.changes = Append(@, change),
     !.versions[k] = IF new = NoRow THEN @
                     ELSE [row_version |-> change.row_version,
                           last_sequence |-> change.sequence, deleted |-> FALSE]]

\* Mutant: updates by ordinary statements go uncaptured.
Write_uncaptured_update(d, k, new, actor, mutation) ==
  LET change == CapturedChange(d, k, new, actor, mutation) IN
  IF change.op = "update" /\ mutation = NoMutation THEN [d EXCEPT !.rows[k] = new]
  ELSE [d EXCEPT
          !.rows[k] = new,
          !.next_sequence = @ + 1,
          !.changes = Append(@, change),
          !.versions[k] = [row_version |-> change.row_version,
                           last_sequence |-> change.sequence,
                           deleted |-> new = NoRow]]

Write(d, k, new, actor, mutation) ==
  LET change == CapturedChange(d, k, new, actor, mutation) IN
  [d EXCEPT
     !.rows[k] = new,
     !.next_sequence = @ + 1,
     !.changes = Append(@, change),
     !.versions[k] = [row_version |-> change.row_version,
                      last_sequence |-> change.sequence,
                      deleted |-> new = NoRow]]

\* Mutant: the latest sequence read one too low.
latest_sync_sequence_low(d) == d.next_sequence - 2

latest_sync_sequence(d) == d.next_sequence - 1

(***************************************************************************)
(* Row-level security of one mutation.  select_sync_row reads through the  *)
(* user's view, so a row the user cannot see counts as absent and its      *)
(* INSERT then collides on the primary key.                                *)
(***************************************************************************)
SelectSyncRow(d, u, k) ==
  IF d.rows[k] \in Readable[d.policy][u] THEN d.rows[k] ELSE NoRow

Permitted(d, u, m) ==
  LET current == SelectSyncRow(d, u, m.key)
      writable == Writable[d.policy][u]
  IN \/ m.op = "delete" /\ current # NoRow /\ current \in writable
     \/ m.op = "upsert" /\ current # NoRow /\ current \in writable /\ m.value \in writable
     \/ m.op = "upsert" /\ current = NoRow /\ d.rows[m.key] = NoRow /\ m.value \in writable

StoredMutations(d, u, t, id) ==
  {r \in d.mutations : r.subject = u /\ r.client = t /\ r.mutation.id = id}

\* Mutant: a resubmitted mutation is not looked up.
MutationStatus_no_lookup(d, u, t, m) ==
  IF Permitted(d, u, m) THEN "applied" ELSE "rejected"

\* Outcome of apply_sync_mutation: the stored receipt is consulted first.
MutationStatus(d, u, t, m) ==
  LET stored == StoredMutations(d, u, t, m.id) IN
  CASE \E r \in stored : r.mutation = m -> "duplicate"
    [] stored = {} /\ Permitted(d, u, m) -> "applied"
    [] OTHER -> "rejected"

ApplySyncMutation(d, u, t, m) ==
  LET written == Write(d, m.key, IF m.op = "delete" THEN NoRow ELSE m.value, u, m.id)
      change == written.changes[Len(written.changes)]
  IN IF MutationStatus(d, u, t, m) = "applied"
     THEN [written EXCEPT !.mutations = @ \cup
             {[subject |-> u, client |-> t, mutation |-> m,
               sequence |-> change.sequence, row_version |-> change.row_version]}]
     ELSE d

(***************************************************************************)
(* Reading the log.  sync_pull examines at most ScanLimit changes after    *)
(* the cursor, delivers the first `limit` the user may SELECT, and stops   *)
(* in front of the first visible change that no longer fits.               *)
(***************************************************************************)
Visible(d, u, change) == change.value \in Readable[d.policy][u]

\* Mutant: the change that no longer fits counts as examined.
PullPage_skips(d, u, after, limit) ==
  LET scanned == (after + 1) .. Min({after + ScanLimit, Len(d.changes)})
      visible == {i \in scanned : Visible(d, u, d.changes[i])}
      fits == {i \in visible : Cardinality({j \in visible : j < i}) < limit}
      examined == IF fits # visible THEN Min(visible \ fits)
                  ELSE IF scanned # {} THEN Max(scanned) ELSE after
  IN [changes |-> {d.changes[i] : i \in fits},
      sequence |-> examined,
      has_more |-> fits # visible \/ examined < latest_sync_sequence(d)]

PullPage(d, u, after, limit) ==
  LET scanned == (after + 1) .. Min({after + ScanLimit, Len(d.changes)})
      visible == {i \in scanned : Visible(d, u, d.changes[i])}
      fits == {i \in visible : Cardinality({j \in visible : j < i}) < limit}
      examined == IF fits # visible THEN Min(visible \ fits) - 1
                  ELSE IF scanned # {} THEN Max(scanned) ELSE after
  IN [changes |-> {d.changes[i] : i \in fits},
      sequence |-> examined,
      has_more |-> fits # visible \/ examined < latest_sync_sequence(d)]

\* The rows a snapshot hands to user u, each with its last server sequence.
SnapshotRows(d, u) ==
  [k \in {j \in Keys : d.rows[j] \in Readable[d.policy][u]} |->
     [value |-> d.rows[k],
      sequence |-> IF d.versions[k].deleted THEN 0 ELSE d.versions[k].last_sequence]]

-----------------------------------------------------------------------------
Init ==
  /\ db = EmptyDatabase
  /\ txn = NoTxn
  /\ backup = db

\* sync_apply_mutations_individually_in_current_atomic: BEGIN IMMEDIATE and
\* the schema check; a request for another schema version fails outright.
BeginPush(request) ==
  /\ txn.kind = "none"
  /\ Len(request.mutations) \in 1 .. BatchLimit
  /\ request.schema = db.schema
  /\ txn' = [kind |-> "push", request |-> request, work |-> db,
             results |-> <<>>]
  /\ UNCHANGED <<db, backup>>

\* One mutation behind its savepoint.
ApplyNextMutation ==
  /\ txn.kind = "push"
  /\ Len(txn.results) < Len(txn.request.mutations)
  /\ LET m == txn.request.mutations[Len(txn.results) + 1]
         u == txn.request.user
         t == txn.request.token
         status == MutationStatus(txn.work, u, t, m)
     IN /\ status = "applied" => latest_sync_sequence(txn.work) < MaxChanges
        /\ txn' = [txn EXCEPT !.work = ApplySyncMutation(@, u, t, m),
                              !.results = Append(@, status)]
  /\ UNCHANGED <<db, backup>>

CommitPush ==
  /\ txn.kind = "push"
  /\ Len(txn.results) = Len(txn.request.mutations)
  /\ db' = txn.work
  /\ txn' = NoTxn
  /\ UNCHANGED backup

\* Ordinary statements of a query or transaction, captured by the triggers.
\* A user writes under the row policies; developer statements bypass them.
BeginStatements(actor) ==
  /\ txn.kind = "none"
  /\ txn' = [kind |-> "app", actor |-> actor, work |-> db]
  /\ UNCHANGED <<db, backup>>

Statement(m) ==
  /\ txn.kind = "app"
  /\ latest_sync_sequence(txn.work) + Headroom < MaxChanges
  /\ IF txn.actor = Developer
     THEN m.op = "delete" => txn.work.rows[m.key] # NoRow
     ELSE Permitted(txn.work, txn.actor, m)
  /\ txn' = [txn EXCEPT !.work =
       Write(@, m.key, IF m.op = "delete" THEN NoRow ELSE m.value, txn.actor, NoMutation)]
  /\ UNCHANGED <<db, backup>>

CommitStatements ==
  /\ txn.kind = "app"
  /\ db' = txn.work
  /\ txn' = NoTxn
  /\ UNCHANGED backup

\* A failed statement, a deadline, a cancellation, the size limit or the
\* death of the worker process: SQLite drops the whole transaction.
Rollback ==
  /\ txn.kind # "none"
  /\ txn' = NoTxn
  /\ UNCHANGED <<db, backup>>

\* MigrationEngine::apply and ::rollback: DDL and policy statements, then the
\* next schema version, in one transaction.
Migrated(d, rows, policy) ==
  [d EXCEPT !.rows = rows, !.policy = policy, !.schema = @ + 1,
            !.base_rows = rows, !.base_sequence = latest_sync_sequence(d)]

Migrate(rows, policy) ==
  /\ txn.kind = "none"
  /\ db.schema < MaxSchema
  /\ db' = Migrated(db, rows, policy)
  /\ UNCHANGED <<txn, backup>>

\* create_encrypted_backup and restore_encrypted_backup copy the database
\* file, sync tables included.
CreateBackup ==
  /\ txn.kind = "none"
  /\ backup' = db
  /\ UNCHANGED <<db, txn>>

RestoreBackup ==
  /\ txn.kind = "none"
  /\ db' = backup
  /\ UNCHANGED <<txn, backup>>

PushNext ==
  \/ \E u \in Users, t \in Tokens, n \in 1 .. BatchLimit :
       \E batch \in [1 .. n -> Offered] :
         BeginPush([user |-> u, token |-> t, schema |-> db.schema, mutations |-> batch])
  \/ ApplyNextMutation
  \/ CommitPush

StatementNext ==
  \/ \E a \in Actors : BeginStatements(a)
  \/ \E m \in Offered : Statement(m)
  \/ CommitStatements

OperatorNext ==
  \/ \E rows \in Rewrites, p \in Policies : Migrate(rows, p)
  \/ CreateBackup
  \/ RestoreBackup

Next == PushNext \/ StatementNext \/ Rollback \/ OperatorNext

Spec == Init /\ [][Next]_serverVars

-----------------------------------------------------------------------------
(***************************************************************************)
(* What the log promises, as predicates on a database so that they speak   *)
(* of the committed state, of a transaction's working copy and of a backup *)
(* alike.                                                                  *)
(***************************************************************************)
Databases == {db, backup} \cup (IF txn.kind # "none" THEN {txn.work} ELSE {})

TypeOK ==
  /\ db \in Database
  /\ txn \in {NoTxn} \cup PushTxn \cup AppTxn
  /\ backup \in Database

LogDense(d) ==
  /\ d.next_sequence = Len(d.changes) + 1
  /\ \A i \in 1 .. Len(d.changes) : d.changes[i].sequence = i

IsLastOf(d, k, i) ==
  /\ i \in 1 .. Len(d.changes)
  /\ d.changes[i].key = k
  /\ \A j \in 1 .. Len(d.changes) : j > i => d.changes[j].key # k

VersionsMatchLog(d) ==
  \A k \in Keys : \A i \in 1 .. Len(d.changes) :
    IsLastOf(d, k, i) =>
      d.versions[k] = [row_version |-> d.changes[i].row_version,
                       last_sequence |-> i,
                       deleted |-> d.changes[i].op = "delete"]

VersionsIncrease(d) ==
  \A i, j \in 1 .. Len(d.changes) :
    i < j /\ d.changes[i].key = d.changes[j].key
      => d.changes[i].row_version < d.changes[j].row_version

RowAfter(change) == IF change.op = "delete" THEN NoRow ELSE change.value

RowsExplained(d) ==
  \A k \in Keys :
    /\ \A i \in 1 .. Len(d.changes) :
         i > d.base_sequence /\ IsLastOf(d, k, i) => d.rows[k] = RowAfter(d.changes[i])
    /\ (\A i \in 1 .. Len(d.changes) : i > d.base_sequence => d.changes[i].key # k)
         => d.rows[k] = d.base_rows[k]

ReceiptMatches(d, r) ==
  /\ r.sequence \in 1 .. Len(d.changes)
  /\ d.changes[r.sequence].mutation = r.mutation.id
  /\ d.changes[r.sequence].actor = r.subject
  /\ d.changes[r.sequence].key = r.mutation.key
  /\ d.changes[r.sequence].row_version = r.row_version

SameNamespace(r, s) ==
  r.subject = s.subject /\ r.client = s.client /\ r.mutation.id = s.mutation.id

\* Every captured change orders after the last one of its row: the ledger of
\* row versions that the triggers maintain agrees with the log.
VersionLedger ==
  /\ TypeOK
  /\ \A d \in Databases : LogDense(d) /\ VersionsMatchLog(d) /\ VersionsIncrease(d)

\* Replaying the log from the last migration gives exactly the live rows: no
\* committed write escapes capture and no rolled-back write leaves a change.
LogExplainsRows == \A d \in Databases : RowsExplained(d)

\* A client mutation takes effect once in its idempotency namespace (subject,
\* token, mutation id): each captured client change has one receipt, and no
\* two receipts share a namespace or a change.
MutationsOnce ==
  \A d \in Databases :
    /\ \A r \in d.mutations : ReceiptMatches(d, r)
    /\ \A r, s \in d.mutations :
         SameNamespace(r, s) \/ r.sequence = s.sequence => r = s
    /\ \A i \in 1 .. Len(d.changes) :
         d.changes[i].mutation # NoMutation => \E r \in d.mutations : r.sequence = i

\* A pull delivers every visible change up to the cursor it returns, at most
\* `limit` of them, and moves forward while the log has more: paging to the
\* end skips nothing.
PullNeverSkips ==
  \A u \in Users, after \in 0 .. latest_sync_sequence(db), limit \in 1 .. BatchLimit :
    LET page == PullPage(db, u, after, limit) IN
    /\ \A i \in (after + 1) .. page.sequence :
         Visible(db, u, db.changes[i]) => db.changes[i] \in page.changes
    /\ Cardinality(page.changes) <= limit
    /\ \A change \in page.changes :
         Visible(db, u, change) /\ change.sequence \in (after + 1) .. page.sequence
    /\ page.has_more <=> page.sequence < latest_sync_sequence(db)
    /\ after < latest_sync_sequence(db) => page.sequence > after

\* What docs/sync-protocol/protocol.md:57 says of a resubmission: it is
\* reauthorized, an old receipt cannot bypass a new policy.  The code answers
\* "duplicate" from the stored receipt before any policy is evaluated.
DuplicatesReauthorized ==
  txn.kind = "push" => \A i \in 1 .. Len(txn.results) :
    LET m == txn.request.mutations[i] IN
    txn.results[i] = "duplicate" /\ m.op = "upsert" =>
      m.value \in Writable[txn.work.policy][txn.request.user]

=============================================================================
