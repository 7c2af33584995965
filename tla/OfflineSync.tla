----------------------------- MODULE OfflineSync -----------------------------
(***************************************************************************)
(* Offline replicas against the project database: OfflineSyncClient and    *)
(* its replica adapter (packages/sync-client/src) composed with            *)
(* SyncServer through the HTTP calls of the sync API.                      *)
(*                                                                         *)
(* A device runs one synchronisation at a time (sync() is single-flight    *)
(* and cancels a waiting pull first) and awaits one call at a time.        *)
(* Between a call and its answer the application may enqueue mutations.    *)
(* A call may be abandoned at any moment: the connection drops, the        *)
(* controller aborts it or the device dies.  A push abandoned before the   *)
(* server began it may still arrive later.                                 *)
(***************************************************************************)
EXTENDS SyncServer

CONSTANTS
  Devices,     \* replicas
  UserOf,      \* UserOf[c]: the user signed in on device c
  Wishes,      \* Wishes[c]: the mutations the application enqueues on c
  PushBatch,   \* pushBatchSize
  PullBatch,   \* pullBatchSize
  MaxFaults    \* bound on abandoned calls, rollbacks and expired cursors

ASSUME DeviceShape ==
  /\ UserOf \in [Devices -> Users]
  /\ Wishes \in [Devices -> SUBSET Offered]
  /\ PushBatch \in 1 .. BatchLimit
  /\ PullBatch \in Nat \ {0}
  /\ MaxFaults \in Nat
  /\ Tokens \subseteq Nat /\ Tokens # {}
  /\ MutationIds \subseteq Nat

VARIABLES
  replica,   \* the device's durable rows, queue, rejections and position
  task,      \* the synchronisation in progress
  call,      \* its outstanding API call
  token,     \* the access token the device presents
  enqueued,  \* history: every mutation ever enqueued
  orphans,   \* abandoned pushes still on their way to the server
  faults     \* failures so far

clientVars == <<replica, task, call, token, enqueued, orphans, faults>>
allVars == <<serverVars, clientVars>>

Absent == [value |-> NoRow, sequence |-> -1]
Entry == [value: Values \cup {NoRow}, sequence: Nat \cup {-1}]
Position == [sequence: Nat, token: Tokens, schema: Nat, schemaVersion: Nat]
NoPosition == [sequence |-> 0, token |-> 0, schema |-> 0, schemaVersion |-> -1]

Replica == [rows: [Keys -> Entry], pending: Seq(Mutation),
            rejected: SUBSET Mutation, position: Position \cup {NoPosition}]
Stages == {"idle", "first", "push", "authoritative", "pull", "control"}
Idle == [stage |-> "idle", position |-> NoPosition, snapshot |-> FALSE]
NoCall == [kind |-> "none", state |-> "none"]

-----------------------------------------------------------------------------
(* The replica adapter. *)

\* Mutant: the comparison of the sequences is the wrong way round.
AppliedChange_inverted(entry, change) ==
  IF entry # Absent /\ entry.sequence < change.sequence THEN entry
  ELSE IF change.op = "delete" THEN Absent
  ELSE [value |-> change.value, sequence |-> change.sequence]

\* upsert and delete ignore a change older than the row they hold.
AppliedChange(entry, change) ==
  IF entry # Absent /\ entry.sequence > change.sequence THEN entry
  ELSE IF change.op = "delete" THEN Absent
  ELSE [value |-> change.value, sequence |-> change.sequence]

\* A page holds its changes in sequence order, so the last one of a key wins.
AppliedPage(rows, changes) ==
  [k \in Keys |->
     LET mine == {c \in changes : c.key = k} IN
     IF mine = {} THEN rows[k]
     ELSE AppliedChange(rows[k], CHOOSE c \in mine :
                                   \A other \in mine : other.sequence <= c.sequence)]

\* An optimistic write keeps the row's server sequence.
Optimistic(entry, m) ==
  IF m.op = "delete" THEN Absent ELSE [entry EXCEPT !.value = m.value]

\* Reapplying the queue in order: the last mutation of a key decides, and an
\* earlier delete of that key has dropped the server sequence.
Reapplied(rows, pending) ==
  [k \in Keys |->
     LET mine == {i \in 1 .. Len(pending) : pending[i].key = k}
         last == Max(mine)
         deleted == \E i \in mine : i < last /\ pending[i].op = "delete"
     IN IF mine = {} THEN rows[k]
        ELSE Optimistic(IF deleted THEN Absent ELSE rows[k], pending[last])]

\* sortPending orders by the millisecond of the enqueue, then by mutation id.
Queued(pending, m, sameMillisecond) ==
  IF sameMillisecond /\ pending # <<>> /\ m.id < pending[Len(pending)].id
  THEN SubSeq(pending, 1, Len(pending) - 1) \o <<m, pending[Len(pending)]>>
  ELSE Append(pending, m)

\* Mutant: processing the results of a batch empties the queue.
Without_clears(pending, ids) == <<>>

\* What is left of the queue, in its order: the j-th of the positions kept.
Without(pending, ids) ==
  LET kept == {i \in 1 .. Len(pending) : pending[i].id \notin ids}
      place(j) == CHOOSE i \in kept : Cardinality({h \in kept : h <= i}) = j
  IN [j \in 1 .. Cardinality(kept) |-> pending[place(j)]]

-----------------------------------------------------------------------------
(* API calls. *)

Call(c, kind, request) ==
  call' = [call EXCEPT ![c] = [kind |-> kind, state |-> "sent", token |-> token[c],
                               request |-> request]]

Answer(c, state, response) ==
  call' = [call EXCEPT ![c] = [kind |-> call[c].kind, state |-> state,
                               response |-> response]]

Awaiting(c, kind) == call[c].kind = kind /\ call[c].state = "sent"
Answered(c, kind) == call[c].kind = kind /\ call[c].state = "done"

CallSnapshot(c) == Call(c, "snapshot", NoPosition)
CallPull(c, position) == Call(c, "pull", position)

CursorAt(sequence, t, schema) ==
  [sequence |-> sequence, token |-> t, schema |-> schema, schemaVersion |-> schema]

\* A snapshot reads rows and cursor in one transaction.
ServeSnapshot(c) ==
  /\ txn.kind = "none"
  /\ Awaiting(c, "snapshot")
  /\ Answer(c, "done",
       [rows |-> SnapshotRows(db, UserOf[c]),
        position |-> CursorAt(latest_sync_sequence(db), call[c].token, db.schema)])
  /\ UNCHANGED <<serverVars, replica, task, token, enqueued, orphans, faults>>

\* Mutant: the schema version in the cursor is not compared.
CursorValid_any_schema(c, position) == position.token = call[c].token

\* verify_sync_cursor: the token carries the subject and the authorization
\* scope, so a refreshed token invalidates every older cursor.
CursorValid(c, position) ==
  position.token = call[c].token /\ position.schema = db.schema

ServePull(c) ==
  /\ txn.kind = "none"
  /\ Awaiting(c, "pull")
  /\ LET position == call[c].request
         page == PullPage(db, UserOf[c], position.sequence, PullBatch)
     IN \/ /\ CursorValid(c, position)
           /\ Answer(c, "done",
                [control |-> FALSE, changes |-> page.changes, has_more |-> page.has_more,
                 cursor |-> CursorAt(page.sequence, call[c].token, db.schema)])
           /\ UNCHANGED faults
        \/ \* ... or has expired
           /\ CursorValid(c, position) => faults < MaxFaults
           /\ Answer(c, "done", [control |-> TRUE])
           /\ faults' = IF CursorValid(c, position) THEN faults + 1 ELSE faults
  /\ UNCHANGED <<serverVars, replica, task, token, enqueued, orphans>>

ServePush(c) ==
  /\ Awaiting(c, "push")
  /\ BeginPush(call[c].request)
  /\ call' = [call EXCEPT ![c].state = "serving"]
  /\ UNCHANGED <<replica, task, token, enqueued, orphans, faults>>

\* SyncSchemaMismatch fails the whole request.
RefusePush(c) ==
  /\ Awaiting(c, "push")
  /\ txn.kind = "none"
  /\ call[c].request.schema # db.schema
  /\ Answer(c, "failed", <<>>)
  /\ UNCHANGED <<serverVars, replica, task, token, enqueued, orphans, faults>>

\* The commit of a push answers the device if it still waits.
AnswerPush ==
  /\ CommitPush
  /\ call' = [c \in Devices |->
                IF call[c].state = "serving"
                THEN [kind |-> "push", state |-> "done", response |-> txn.results,
                      request |-> txn.request]
                ELSE call[c]]
  /\ UNCHANGED <<replica, task, token, enqueued, orphans, faults>>

FailTransaction ==
  /\ faults < MaxFaults
  /\ Rollback
  /\ call' = [c \in Devices |->
                IF call[c].state = "serving"
                THEN [kind |-> "push", state |-> "failed", response |-> <<>>]
                ELSE call[c]]
  /\ faults' = faults + 1
  /\ UNCHANGED <<replica, task, token, enqueued, orphans>>

\* An abandoned push arrives late; nobody waits for its answer.
ServeOrphan(request) ==
  /\ request \in orphans
  /\ orphans' = orphans \ {request}
  /\ \/ BeginPush(request)
     \/ txn.kind = "none" /\ request.schema # db.schema /\ UNCHANGED serverVars
  /\ UNCHANGED <<replica, task, call, token, enqueued, faults>>

-----------------------------------------------------------------------------
(* OfflineSyncClient. *)

\* mutate: one adapter transaction queues the mutation and shows it.
Enqueue(c, m, sameMillisecond) ==
  /\ m \notin enqueued[c]
  /\ \A n \in enqueued[c] : n.id # m.id
  /\ enqueued' = [enqueued EXCEPT ![c] = @ \cup {m}]
  /\ replica' = [replica EXCEPT
       ![c].pending = Queued(@, m, sameMillisecond),
       ![c].rows[m.key] = Optimistic(@, m)]
  /\ UNCHANGED <<serverVars, task, call, token, orphans, faults>>

\* performSync: a replica without a cursor starts from a snapshot.
StartSync(c) ==
  /\ task[c].stage = "idle"
  /\ IF replica[c].position = NoPosition
     THEN /\ CallSnapshot(c)
          /\ task' = [task EXCEPT ![c].stage = "first"]
     ELSE /\ task' = [task EXCEPT ![c].stage = "push", ![c].position = replica[c].position]
          /\ UNCHANGED call
  /\ UNCHANGED <<serverVars, replica, token, enqueued, orphans, faults>>

\* performWaitingPull: a pull that pushes nothing first.
StartWatch(c) ==
  /\ task[c].stage = "idle"
  /\ replica[c].position # NoPosition
  /\ task' = [task EXCEPT ![c].stage = "pull", ![c].position = replica[c].position]
  /\ CallPull(c, replica[c].position)
  /\ UNCHANGED <<serverVars, replica, token, enqueued, orphans, faults>>

\* The push loop: the next batch, or on to the pull once the queue is empty.
PushOrPull(c) ==
  /\ task[c].stage = "push"
  /\ call[c] = NoCall
  /\ LET pending == replica[c].pending IN
     \/ /\ pending # <<>>
        /\ Call(c, "push",
             [user |-> UserOf[c], token |-> token[c],
              schema |-> task[c].position.schemaVersion,
              mutations |-> SubSeq(pending, 1, Min({PushBatch, Len(pending)}))])
        /\ UNCHANGED task
     \/ /\ pending = <<>> /\ task[c].snapshot
        /\ CallSnapshot(c)
        /\ task' = [task EXCEPT ![c].stage = "authoritative"]
     \/ /\ pending = <<>> /\ ~task[c].snapshot
        /\ CallPull(c, task[c].position)
        /\ task' = [task EXCEPT ![c].stage = "pull"]
  /\ UNCHANGED <<serverVars, replica, token, enqueued, orphans, faults>>

\* Mutant: a result other than "applied" asks for a snapshot but leaves the
\* old cursor in place.
OnPush_keeps_cursor(c) ==
  /\ task[c].stage = "push"
  /\ Answered(c, "push")
  /\ LET batch == call[c].request.mutations
         results == call[c].response
         rejects == {batch[i] : i \in {j \in 1 .. Len(batch) : results[j] = "rejected"}}
         stale == \E i \in 1 .. Len(batch) : results[i] # "applied"
     IN /\ replica' = [replica EXCEPT
             ![c].pending = Without(@, {batch[i].id : i \in 1 .. Len(batch)}),
             ![c].rejected = @ \cup rejects]
        /\ task' = [task EXCEPT ![c].snapshot = @ \/ stale]
  /\ call' = [call EXCEPT ![c] = NoCall]
  /\ UNCHANGED <<serverVars, token, enqueued, orphans, faults>>

\* Mutant: only "applied" and "rejected" results leave the queue.
OnPush_keeps_duplicates(c) ==
  /\ task[c].stage = "push"
  /\ Answered(c, "push")
  /\ LET batch == call[c].request.mutations
         results == call[c].response
         settled == {i \in 1 .. Len(batch) : results[i] # "duplicate"}
     IN /\ replica' = [replica EXCEPT
             ![c].pending = Without(@, {batch[i].id : i \in settled}),
             ![c].rejected = @ \cup {batch[i] : i \in {j \in settled : results[j] = "rejected"}}]
        /\ UNCHANGED task
  /\ call' = [call EXCEPT ![c] = NoCall]
  /\ UNCHANGED <<serverVars, token, enqueued, orphans, faults>>

\* consumePushResults, in one adapter transaction.
OnPush(c) ==
  /\ task[c].stage = "push"
  /\ Answered(c, "push")
  /\ LET batch == call[c].request.mutations
         results == call[c].response
         rejects == {batch[i] : i \in {j \in 1 .. Len(batch) : results[j] = "rejected"}}
         stale == \E i \in 1 .. Len(batch) : results[i] # "applied"
     IN /\ replica' = [replica EXCEPT
             ![c].pending = Without(@, {batch[i].id : i \in 1 .. Len(batch)}),
             ![c].rejected = @ \cup rejects,
             ![c].position = IF stale THEN NoPosition ELSE @]
        /\ task' = [task EXCEPT ![c].snapshot = @ \/ stale]
  /\ call' = [call EXCEPT ![c] = NoCall]
  /\ UNCHANGED <<serverVars, token, enqueued, orphans, faults>>

\* Mutant: the snapshot is merged into the old rows.
OnSnapshot_merges(c) ==
  /\ Answered(c, "snapshot")
  /\ LET snapshot == call[c].response
         fresh == [k \in Keys |-> IF k \in DOMAIN snapshot.rows
                                  THEN snapshot.rows[k] ELSE replica[c].rows[k]]
     IN /\ replica' = [replica EXCEPT
             ![c].rows = Reapplied(fresh, replica[c].pending),
             ![c].position = snapshot.position]
        /\ task' = [task EXCEPT ![c] = Idle]
        /\ call' = [call EXCEPT ![c] = NoCall]
  /\ UNCHANGED <<serverVars, token, enqueued, orphans, faults>>

\* resnapshot: replace the rows, show the queue again, store the cursor.
OnSnapshot(c) ==
  /\ Answered(c, "snapshot")
  /\ LET snapshot == call[c].response
         fresh == [k \in Keys |-> IF k \in DOMAIN snapshot.rows
                                  THEN snapshot.rows[k] ELSE Absent]
     IN /\ replica' = [replica EXCEPT
             ![c].rows = Reapplied(fresh, replica[c].pending),
             ![c].position = snapshot.position]
        /\ \/ /\ task[c].stage = "first"
              /\ task' = [task EXCEPT ![c].stage = "push", ![c].position = snapshot.position]
              /\ call' = [call EXCEPT ![c] = NoCall]
           \/ /\ task[c].stage = "authoritative"
              /\ task' = [task EXCEPT ![c].stage = "pull", ![c].position = snapshot.position]
              /\ CallPull(c, snapshot.position)
           \/ /\ task[c].stage = "control"
              /\ task' = [task EXCEPT ![c] = Idle]
              /\ call' = [call EXCEPT ![c] = NoCall]
  /\ UNCHANGED <<serverVars, token, enqueued, orphans, faults>>

\* pullFrom: a page and its cursor are stored in one adapter transaction; a
\* control event asks for a snapshot instead.
OnPull(c) ==
  /\ Answered(c, "pull")
  /\ LET answer == call[c].response IN
     \/ /\ answer.control
        /\ task' = [task EXCEPT ![c].stage = "control"]
        /\ CallSnapshot(c)
        /\ UNCHANGED replica
     \/ /\ ~answer.control
        /\ LET position == [answer.cursor EXCEPT
                              !.schemaVersion = task[c].position.schemaVersion]
           IN /\ replica' = [replica EXCEPT
                   ![c].rows = AppliedPage(@, answer.changes),
                   ![c].position = position]
              /\ IF answer.has_more
                 THEN /\ CallPull(c, position)
                      /\ task' = [task EXCEPT ![c].position = position]
                 ELSE /\ call' = [call EXCEPT ![c] = NoCall]
                      /\ task' = [task EXCEPT ![c] = Idle]
  /\ UNCHANGED <<serverVars, token, enqueued, orphans, faults>>

\* An error answer ends the synchronisation; the controller starts another.
OnFailure(c) ==
  /\ call[c].state = "failed"
  /\ call' = [call EXCEPT ![c] = NoCall]
  /\ task' = [task EXCEPT ![c] = Idle]
  /\ UNCHANGED <<serverVars, replica, token, enqueued, orphans, faults>>

\* Mutant: the synchronisation ends with its call still outstanding.
Abandon_leaves_call(c) ==
  /\ call[c] # NoCall
  /\ faults < MaxFaults
  /\ faults' = faults + 1
  /\ task' = [task EXCEPT ![c] = Idle]
  /\ UNCHANGED <<serverVars, replica, call, token, enqueued, orphans>>

\* The answer is lost, the controller aborts or the device dies and restarts:
\* what was in memory is gone, what was in the replica stays.
Abandon(c) ==
  /\ call[c] # NoCall
  /\ faults < MaxFaults
  /\ faults' = faults + 1
  /\ call' = [call EXCEPT ![c] = NoCall]
  /\ task' = [task EXCEPT ![c] = Idle]
  /\ orphans' = IF Awaiting(c, "push") THEN orphans \cup {call[c].request} ELSE orphans
  /\ UNCHANGED <<serverVars, replica, token, enqueued>>

\* The access token expires after minutes; the session mints the next one.
RefreshToken(c, t) ==
  /\ t > token[c]
  /\ token' = [token EXCEPT ![c] = t]
  /\ UNCHANGED <<serverVars, replica, task, call, enqueued, orphans, faults>>

-----------------------------------------------------------------------------
SyncInit ==
  /\ Init
  /\ replica = [c \in Devices |-> [rows |-> [k \in Keys |-> Absent], pending |-> <<>>,
                                   rejected |-> {}, position |-> NoPosition]]
  /\ task = [c \in Devices |-> Idle]
  /\ call = [c \in Devices |-> NoCall]
  /\ token = [c \in Devices |-> CHOOSE t \in Tokens : \A s \in Tokens : t <= s]
  /\ enqueued = [c \in Devices |-> {}]
  /\ orphans = {}
  /\ faults = 0

DeviceNext(c) ==
  \/ StartSync(c) \/ PushOrPull(c) \/ OnPush(c) \/ OnSnapshot(c) \/ OnPull(c) \/ OnFailure(c)

ServeNext ==
  \/ \E c \in Devices : ServeSnapshot(c) \/ ServePull(c) \/ ServePush(c) \/ RefusePush(c)
  \/ ApplyNextMutation /\ UNCHANGED clientVars
  \/ AnswerPush
  \/ \E request \in orphans : ServeOrphan(request)

\* Writers other than the devices, and the operator.
OtherNext ==
  /\ \/ BeginStatements(Developer)
     \/ \E m \in Offered : Statement(m)
     \/ CommitStatements
     \/ \E rows \in Rewrites, p \in Policies : Migrate(rows, p)
  /\ UNCHANGED clientVars

RestoreNext == (CreateBackup \/ RestoreBackup) /\ UNCHANGED clientVars

EnvironmentNext ==
  \/ FailTransaction
  \/ \E c \in Devices :
       \/ \E m \in Wishes[c], same \in BOOLEAN : Enqueue(c, m, same)
       \/ StartWatch(c)
       \/ Abandon(c)
       \/ \E t \in Tokens : RefreshToken(c, t)

SyncNext == (\E c \in Devices : DeviceNext(c)) \/ ServeNext \/ OtherNext \/ EnvironmentNext

\* Without restores; RestoreSpec below adds them.
SyncSpec == SyncInit /\ [][SyncNext]_allVars

\* The controller starts a full synchronisation again and again, whatever
\* waiting pulls it makes in between (mutate() wakes it for one and a failure
\* schedules one, AutoSyncControllerImpl), open transactions end by their deadline,
\* and a call that keeps finding the connection free gets its turn: other
\* writers do not hold the database's mutex for ever.
FairSyncSpec ==
  /\ SyncSpec
  /\ \A c \in Devices : WF_allVars(DeviceNext(c)) /\ SF_allVars(StartSync(c))
  /\ SF_allVars(ServeNext)
  /\ WF_allVars(CommitStatements /\ UNCHANGED clientVars)

RestoreSpec == SyncInit /\ [][SyncNext \/ RestoreNext]_allVars

-----------------------------------------------------------------------------
CallType(c) ==
  \/ call[c] = NoCall
  \/ call[c].kind \in {"snapshot", "pull"} /\ call[c].state \in {"sent", "done"}
  \/ call[c].kind = "push" /\ call[c].state \in {"sent", "serving", "done", "failed"}

SyncTypeOK ==
  /\ replica \in [Devices -> Replica]
  /\ \A c \in Devices :
       /\ task[c].stage \in Stages
       /\ task[c].position \in Position \cup {NoPosition}
       /\ CallType(c)
       /\ task[c].stage = "idle" => call[c] = NoCall
  /\ token \in [Devices -> Tokens]
  /\ orphans \subseteq PushRequest
  /\ faults \in 0 .. MaxFaults

Current(c) ==
  replica[c].position # NoPosition /\ replica[c].position.schema = db.schema

\* Keys whose server state the device claims to know: nothing of its own is
\* queued for them and the log holds no change of them after its cursor.
Settled(c) ==
  {k \in Keys :
     /\ \A i \in 1 .. Len(replica[c].pending) : replica[c].pending[i].key # k
     /\ \A i \in 1 .. Len(db.changes) :
          i > replica[c].position.sequence => db.changes[i].key # k}

CanRead(c, value) == value \in Readable[db.policy][UserOf[c]]

\* A replica that holds a cursor of the current schema shows, for every row
\* without pending or undelivered changes, exactly what the server lets its
\* user read: snapshots, pages, lost answers, retries, rejections and token
\* refreshes never leave a gap behind the cursor.
ReplicaComplete ==
  \A c \in Devices : Current(c) =>
    \A k \in Settled(c) : CanRead(c, db.rows[k]) => replica[c].rows[k].value = db.rows[k]

\* A row the server deleted, or never had, does not come back or stay: a
\* settled replica row the user cannot read now exists only if the change that
\* took it away was itself hidden from the user.
NoGhostRows ==
  \A c \in Devices : Current(c) =>
    \A k \in Settled(c) :
      replica[c].rows[k] # Absent /\ ~CanRead(c, db.rows[k]) =>
        \E i \in 1 .. Len(db.changes) :
          IsLastOf(db, k, i) /\ ~Visible(db, UserOf[c], db.changes[i])

\* A mutation handed to mutate() stays queued until the server has executed
\* it or it is recorded as rejected, whatever fails on the way.
PendingNotLost ==
  \A c \in Devices : \A m \in enqueued[c] :
    \/ \E i \in 1 .. Len(replica[c].pending) : replica[c].pending[i] = m
    \/ m \in replica[c].rejected
    \/ \E r \in db.mutations : r.mutation = m /\ r.subject = UserOf[c]

\* What docs/operations/backup-restore.md:144 asks for: a client whose cursor
\* lies beyond the restored sequence is told to take a new snapshot.
BeyondLogResnapshots ==
  [][\A c \in Devices :
       ServePull(c) /\ call[c].request.sequence > latest_sync_sequence(db)
         => call'[c].response.control]_allVars

\* What docs/sync-protocol/protocol.md:98 asks for: bytes that incremental
\* delivery cannot retract leave the replica all the same, so a settled row
\* the replica shows is one its user may read.
ReplicaOnlyReadable ==
  \A c \in Devices : Current(c) =>
    \A k \in Settled(c) : replica[c].rows[k] # Absent => CanRead(c, replica[c].rows[k].value)
                                                     /\ CanRead(c, db.rows[k])

Queue(c) == {replica[c].pending[i] : i \in 1 .. Len(replica[c].pending)}

\* Every mutation leaves the queue in the end, executed or rejected.
PendingResolves ==
  \A c \in Devices : \A m \in Wishes[c] : (m \in Queue(c)) ~> (m \notin Queue(c))

\* Once nobody writes any more, the replica ends up showing what the server
\* lets its user read, and keeps showing it.
ReplicaConverges ==
  \A c \in Devices :
    <>[](\A k \in Keys : CanRead(c, db.rows[k]) => replica[c].rows[k].value = db.rows[k])

\* Behind its cursor a replica shows every row its user may read, and none
\* the server took away in the user's sight: snapshots, pages, lost answers,
\* retries, rejections and token refreshes leave no gap (#resnapshot,
\* applyChange, consumePushResults).
ReplicaFaithful == SyncTypeOK /\ ReplicaComplete /\ NoGhostRows
=============================================================================
