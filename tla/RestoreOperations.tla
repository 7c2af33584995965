------------------------- MODULE RestoreOperations --------------------------
(***************************************************************************)
(* Restores and writes under idempotency keys, from the HTTP handler to    *)
(* the project database: the leased key rows of apps/api/src/idempotency.rs,*)
(* dispatch and the restore lifecycle of apps/api/src/lib.rs, the durable  *)
(* operation receipts of apps/database-worker/src/lib.rs and the restore   *)
(* marker of crates/sqlite-runtime/src/lib.rs.                             *)
(*                                                                         *)
(* A slot runs one dispatch after another.  The worker executes one frame  *)
(* at a time, except that a worker the API left behind, when it crashed or  *)
(* when a call of the worker ran into its deadline and others waited for    *)
(* it, finishes its frames beside the next one.  A worker stops at the deadline *)
(* of its call (transaction_timeout_ms, 15 s), which is shorter than a     *)
(* lease (LEASE_SECONDS, 30 s, renewed every 10 s).                        *)
(***************************************************************************)
EXTENDS Naturals, FiniteSets

CONSTANTS
  Slots,         \* the dispatches that may be under way together
  RestoreKeys,   \* the idempotency keys of backup.restore
  WriteKeys,     \* the idempotency keys of queries and transactions that write
  Backups,       \* the backups; all were taken before the first write
  Backup,        \* the backup each restore key asks for
  Nobody,        \* the owner of a row whose dispatch is gone
  Nothing,       \* no key
  Faults         \* the faults that happen, out of FaultKinds

Keys == RestoreKeys \cup WriteKeys

\* "crash": the API dies.  "outage": a dispatch goes on for longer than its
\* lease without reaching PostgreSQL.  "torn": a worker dies between creating
\* a receipt and writing it.  "retention": RETENTION_HOURS pass over a row.
\* "shift": a call gets the answer to another request (see WorkerPool).
FaultKinds == {"crash", "outage", "torn", "retention", "shift"}

ASSUME OperationsAssumption ==
  /\ Backup \in [RestoreKeys -> Backups]
  /\ RestoreKeys \cap WriteKeys = {}
  /\ Nobody \notin Slots /\ Nothing \notin Keys
  /\ Faults \subseteq FaultKinds

VARIABLES
  rows,       \* idempotency_keys: the row of every key
  attempts,   \* what every slot's dispatch is doing
  exec,       \* what the worker is doing for every slot
  project,    \* lifecycle_state of the project and of its database
  backups,    \* the backup rows: the key that restores each of them, or Nothing
  receipts,   \* the receipt file of every restore key
  db,         \* the live project database
  effects,    \* how often the operation of a key was carried out
  strays      \* the keys of the calls that a worker was left behind with

operationVars == <<rows, attempts, exec, project, backups, receipts, db, effects, strays>>

Row == [state: {"absent", "held", "done"}, owner: Slots \cup {Nobody}, live: BOOLEAN]
Attempt == [phase: {"idle", "owner", "routed", "fenced", "waiting", "returned",
                    "persisted", "answered"},
            key: Keys \cup {Nothing}]
Execution == [phase: {"none", "queued", "owner", "committed", "verified", "ok", "failed", "unknown"},
              key: Keys \cup {Nothing}, orphan: BOOLEAN]
\* usage is the table of usage receipts, marker the singleton restore receipt.
Database == [writes: [WriteKeys -> 0..2], usage: SUBSET WriteKeys,
             marker: RestoreKeys \cup {Nothing}, verified: BOOLEAN]

Absent == [state |-> "absent", owner |-> Nobody, live |-> FALSE]
Idle == [phase |-> "idle", key |-> Nothing]
NoExecution == [phase |-> "none", key |-> Nothing, orphan |-> FALSE]

Capped(n) == IF n > 2 THEN 2 ELSE n

Init ==
  /\ rows = [k \in Keys |-> Absent]
  /\ attempts = [a \in Slots |-> Idle]
  /\ exec = [a \in Slots |-> NoExecution]
  /\ project = "active"
  /\ backups = [b \in Backups |-> Nothing]
  /\ receipts = [k \in RestoreKeys |-> "none"]
  /\ db = [writes |-> [k \in WriteKeys |-> 0], usage |-> {}, marker |-> Nothing,
           verified |-> TRUE]
  /\ effects = [k \in Keys |-> 0]
  /\ strays = {}

Restoring(a) == exec[a].phase \in {"owner", "committed", "verified"}

\* A worker takes the next frame when it is done with the last one.
Free(a) == exec[a].orphan \/ \A other \in Slots \ {a} : Restoring(other) => exec[other].orphan

\* The frame a worker has, or will read next.
InWorker(a) == Restoring(a) \/ (exec[a].phase = "queued" /\ Free(a))

-----------------------------------------------------------------------------
(* The key rows *)

Owns(a) ==
  /\ rows[attempts[a].key].state = "held" /\ rows[attempts[a].key].owner = a

\* abandon deletes the row of its owner only.
Abandoned(a) == IF Owns(a) THEN [rows EXCEPT ![attempts[a].key] = Absent] ELSE rows

\* A dispatch that ended without its row: nobody renews the lease any more.
Disowned(ends) ==
  [k \in Keys |-> IF rows[k].owner \in ends THEN [rows[k] EXCEPT !.owner = Nobody] ELSE rows[k]]

\* abandon_then; abandon may fail as well.
Abandon(a) == rows' \in {Abandoned(a), Disowned({a})}

\* Only an absent row and one whose lease ran out can be owned: a held one
\* answers InProgress.
Admit(a, k) ==
  /\ attempts[a] = Idle /\ exec[a] = NoExecution
  /\ rows[k].state = "absent" \/ (rows[k].state = "held" /\ ~rows[k].live)
  /\ rows' = [rows EXCEPT ![k] = [state |-> "held", owner |-> a, live |-> TRUE]]
  /\ attempts' = [attempts EXCEPT ![a] = [phase |-> "owner", key |-> k]]
  /\ UNCHANGED <<exec, project, backups, receipts, db, effects, strays>>

Replay(a, k) ==
  /\ attempts[a] = Idle /\ exec[a] = NoExecution
  /\ rows[k].state = "done"
  /\ attempts' = [attempts EXCEPT ![a] = [phase |-> "answered", key |-> k]]
  /\ UNCHANGED <<rows, exec, project, backups, receipts, db, effects, strays>>

\* Mutant: a lease that is shorter than the deadline of a worker.
LeaseExpires_early(k) ==
  /\ rows[k].state = "held" /\ rows[k].live
  /\ rows[k].owner = Nobody \/ "outage" \in Faults
  /\ rows' = [rows EXCEPT ![k].live = FALSE]
  /\ UNCHANGED <<attempts, exec, project, backups, receipts, db, effects, strays>>

\* A lease runs out when its owner is gone, and then not before a worker that
\* was left behind reached its deadline, or when its owner cannot renew it.
LeaseExpires(k) ==
  /\ rows[k].state = "held" /\ rows[k].live
  /\ rows[k].owner = Nobody \/ "outage" \in Faults
  /\ \A a \in Slots : ~(exec[a].orphan /\ exec[a].key = k)
  /\ rows' = [rows EXCEPT ![k].live = FALSE]
  /\ UNCHANGED <<attempts, exec, project, backups, receipts, db, effects, strays>>

Renew(a) ==
  /\ attempts[a] # Idle /\ attempts[a].phase # "answered"
  /\ Owns(a) /\ ~rows[attempts[a].key].live
  /\ rows' = [rows EXCEPT ![attempts[a].key].live = TRUE]
  /\ UNCHANGED <<attempts, exec, project, backups, receipts, db, effects, strays>>

\* purge_expired removes no row with a live owner.
PurgeExpired(k) ==
  /\ "retention" \in Faults
  /\ rows[k].state = "done" \/ (rows[k].state = "held" /\ ~rows[k].live)
  /\ rows' = [rows EXCEPT ![k] = Absent]
  /\ UNCHANGED <<attempts, exec, project, backups, receipts, db, effects, strays>>

-----------------------------------------------------------------------------
(* dispatch *)

\* The registry routes ordinary work of an active project only; a restore is
\* routed under the fence too.
ResolveRoute(a) ==
  /\ attempts[a].phase = "owner"
  /\ project \in {"active"} \cup IF attempts[a].key \in RestoreKeys THEN {"restoring"} ELSE {}
  /\ attempts' = [attempts EXCEPT ![a].phase = "routed"]
  /\ UNCHANGED <<rows, exec, project, backups, receipts, db, effects, strays>>

\* Mutant: the row records the backup and not the receipt.
BeginRestoreLifecycle_backup_id(a) ==
  /\ attempts[a].phase = "routed" /\ attempts[a].key \in RestoreKeys
  /\ backups[Backup[attempts[a].key]] \in {Nothing, attempts[a].key}
  /\ backups' = [backups EXCEPT ![Backup[attempts[a].key]] = Backup[attempts[a].key]]
  /\ project' = "restoring"
  /\ attempts' = [attempts EXCEPT ![a].phase = "fenced"]
  /\ UNCHANGED <<rows, exec, receipts, db, effects, strays>>

\* Mutant: a retry finds its own restore in the way.
BeginRestoreLifecycle_ready_only(a) ==
  /\ attempts[a].phase = "routed" /\ attempts[a].key \in RestoreKeys
  /\ backups[Backup[attempts[a].key]] = Nothing
  /\ backups' = [backups EXCEPT ![Backup[attempts[a].key]] = attempts[a].key]
  /\ project' = "restoring"
  /\ attempts' = [attempts EXCEPT ![a].phase = "fenced"]
  /\ UNCHANGED <<rows, exec, receipts, db, effects, strays>>

BeginRestoreLifecycle(a) ==
  /\ attempts[a].phase = "routed" /\ attempts[a].key \in RestoreKeys
  /\ backups[Backup[attempts[a].key]] \in {Nothing, attempts[a].key}
  /\ backups' = [backups EXCEPT ![Backup[attempts[a].key]] = attempts[a].key]
  /\ project' = "restoring"
  /\ attempts' = [attempts EXCEPT ![a].phase = "fenced"]
  /\ UNCHANGED <<rows, exec, receipts, db, effects, strays>>

Execute(a) ==
  /\ attempts[a].phase = IF attempts[a].key \in WriteKeys THEN "routed" ELSE "fenced"
  /\ attempts' = [attempts EXCEPT ![a].phase = "waiting"]
  /\ exec' = [exec EXCEPT ![a] = [phase |-> "queued", key |-> attempts[a].key, orphan |-> FALSE]]
  /\ UNCHANGED <<rows, project, backups, receipts, db, effects, strays>>

Return(a) ==
  /\ attempts[a].phase = "waiting" /\ exec[a].phase = "ok"
  /\ attempts' = [attempts EXCEPT ![a].phase = "returned"]
  /\ exec' = [exec EXCEPT ![a] = NoExecution]
  /\ UNCHANGED <<rows, project, backups, receipts, db, effects, strays>>

\* The worker answered an error, or the deadline passed and it was killed.
ExecutionError(a) ==
  /\ attempts[a].phase = "waiting" /\ exec[a].phase # "ok"
  /\ Abandon(a)
  /\ attempts' = [attempts EXCEPT ![a] = Idle]
  /\ exec' = [exec EXCEPT ![a] = NoExecution]
  /\ UNCHANGED <<project, backups, receipts, db, effects, strays>>

\* The frame of a call stays with a worker that is left behind.
LeftBehind(a) ==
  /\ "shift" \in Faults
  /\ attempts[a].phase = "waiting"
  /\ exec' = [exec EXCEPT ![a].orphan = TRUE]
  /\ strays' = strays \cup {attempts[a].key}

\* The call fails: at the deadline of a worker others wait for, with an error
\* that is another request's, or with a response that is no restore of this
\* backup, for which fail_restore_lifecycle ends the restore.
MismatchedAnswer(a) ==
  /\ LeftBehind(a) /\ Abandon(a)
  /\ attempts' = [attempts EXCEPT ![a] = Idle]
  /\ \/ UNCHANGED <<backups, project>>
     \/ /\ attempts[a].key \in RestoreKeys
        /\ backups' = [backups EXCEPT ![Backup[attempts[a].key]] = Nothing]
        /\ project' = "failed"
  /\ UNCHANGED <<receipts, db, effects>>

\* A success that is another request's is taken for this one's: nothing
\* compares the answer of a write, and that of a restore only with its backup,
\* which an earlier call of the same key restored as well.
StrayAnswer(a) ==
  /\ LeftBehind(a)
  /\ attempts[a].key \in RestoreKeys => receipts[attempts[a].key] = "completed"
  /\ attempts' = [attempts EXCEPT ![a].phase = "returned"]
  /\ UNCHANGED <<rows, project, backups, receipts, db, effects>>

\* Mutant: the result is persisted whatever the backup's restore is by now.
PersistResult_unchecked(a) ==
  /\ attempts[a].phase = "returned"
  /\ IF attempts[a].key \in RestoreKeys
     THEN /\ backups' = [backups EXCEPT ![Backup[attempts[a].key]] = Nothing]
          /\ project' = "active"
     ELSE UNCHANGED <<backups, project>>
  /\ attempts' = [attempts EXCEPT ![a].phase = "persisted"]
  /\ UNCHANGED <<rows, exec, receipts, db, effects, strays>>

\* persist_control_plane_result: one transaction, which a backup or a project
\* that is not under this restore any more rolls back.
PersistResult(a) ==
  /\ attempts[a].phase = "returned"
  /\ IF attempts[a].key \in RestoreKeys
     THEN /\ backups[Backup[attempts[a].key]] = attempts[a].key
          /\ project = "restoring"
          /\ backups' = [backups EXCEPT ![Backup[attempts[a].key]] = Nothing]
          /\ project' = "active"
     ELSE UNCHANGED <<backups, project>>
  /\ attempts' = [attempts EXCEPT ![a].phase = "persisted"]
  /\ UNCHANGED <<rows, exec, receipts, db, effects, strays>>

\* Any step before the response may fail: routing, the lifecycle, metering,
\* the control plane.
GiveUp(a) ==
  /\ attempts[a].phase \in {"owner", "routed", "fenced", "returned"}
  /\ Abandon(a)
  /\ attempts' = [attempts EXCEPT ![a] = Idle]
  /\ UNCHANGED <<exec, project, backups, receipts, db, effects, strays>>

Complete(a) ==
  /\ attempts[a].phase = "persisted" /\ Owns(a)
  /\ rows' = [rows EXCEPT ![attempts[a].key] = [state |-> "done", owner |-> Nobody,
                                                live |-> FALSE]]
  /\ attempts' = [attempts EXCEPT ![a].phase = "answered"]
  /\ UNCHANGED <<exec, project, backups, receipts, db, effects, strays>>

\* complete failed, or the claim is lost: the row stays as it is.
LoseClaim(a) ==
  /\ attempts[a].phase = "persisted"
  /\ rows' = Disowned({a})
  /\ attempts' = [attempts EXCEPT ![a] = Idle]
  /\ UNCHANGED <<exec, project, backups, receipts, db, effects, strays>>

Answer(a) ==
  /\ attempts[a].phase = "answered"
  /\ attempts' = [attempts EXCEPT ![a] = Idle]
  /\ UNCHANGED <<rows, exec, project, backups, receipts, db, effects, strays>>

\* The API dies with every dispatch; the frame its worker has, if any, is
\* worked on to its end.
ApiCrash ==
  /\ "crash" \in Faults
  /\ \E a \in Slots : attempts[a] # Idle
  /\ attempts' = [a \in Slots |-> Idle]
  /\ rows' = Disowned(Slots)
  /\ \E last \in Slots :
       exec' = [a \in Slots |->
                  CASE exec[a].orphan -> exec[a]
                    [] a = last /\ InWorker(a) -> [exec[a] EXCEPT !.orphan = TRUE]
                    [] OTHER -> NoExecution]
  /\ UNCHANGED <<project, backups, receipts, db, effects, strays>>

-----------------------------------------------------------------------------
(* The worker *)

Executed(a, phase) == [exec EXCEPT ![a].phase = phase]

\* Mutant: the usage receipt is not looked up.
ExecuteWrite_always(a) ==
  /\ exec[a].phase = "queued" /\ exec[a].key \in WriteKeys /\ Free(a)
  /\ db' = [db EXCEPT !.writes[exec[a].key] = Capped(@ + 1), !.usage = @ \cup {exec[a].key}]
  /\ effects' = [effects EXCEPT ![exec[a].key] = Capped(@ + 1)]
  /\ exec' = Executed(a, "ok")
  /\ UNCHANGED <<rows, attempts, project, backups, receipts, strays>>

\* execute_metered_operation: the statements and the usage receipt are one
\* transaction, and a stored receipt answers instead of them.
ExecuteWrite(a) ==
  /\ exec[a].phase = "queued" /\ exec[a].key \in WriteKeys /\ Free(a)
  /\ IF exec[a].key \in db.usage
     THEN UNCHANGED <<db, effects>>
     ELSE /\ db' = [db EXCEPT !.writes[exec[a].key] = Capped(@ + 1),
                              !.usage = @ \cup {exec[a].key}]
          /\ effects' = [effects EXCEPT ![exec[a].key] = Capped(@ + 1)]
  /\ exec' = Executed(a, "ok")
  /\ UNCHANGED <<rows, attempts, project, backups, receipts, strays>>

\* Mutant: the receipt is complete from the start.
CreateReceipt_completed(a) ==
  /\ exec[a].phase = "queued" /\ exec[a].key \in RestoreKeys /\ Free(a)
  /\ receipts[exec[a].key] = "none"
  /\ receipts' = [receipts EXCEPT ![exec[a].key] = "completed"] /\ exec' = Executed(a, "owner")
  /\ UNCHANGED <<rows, attempts, project, backups, db, effects, strays>>

\* begin_operation_receipt creates the receipt with create_new.
CreateReceipt(a) ==
  /\ exec[a].phase = "queued" /\ exec[a].key \in RestoreKeys /\ Free(a)
  /\ receipts[exec[a].key] = "none"
  /\ \/ receipts' = [receipts EXCEPT ![exec[a].key] = "started"] /\ exec' = Executed(a, "owner")
     \/ /\ "torn" \in Faults
        /\ receipts' = [receipts EXCEPT ![exec[a].key] = "torn"] /\ exec' = Executed(a, "failed")
  /\ UNCHANGED <<rows, attempts, project, backups, db, effects, strays>>

\* Mutant: a started receipt is run again without a look at the marker.
ReadReceipt_reruns(a) ==
  /\ exec[a].phase = "queued" /\ exec[a].key \in RestoreKeys /\ Free(a)
  /\ receipts[exec[a].key] # "none"
  /\ exec' = Executed(a, CASE receipts[exec[a].key] = "torn"      -> "unknown"
                           [] receipts[exec[a].key] = "completed" -> "ok"
                           [] receipts[exec[a].key] = "started"   -> "owner")
  /\ UNCHANGED <<rows, attempts, project, backups, receipts, db, effects, strays>>

\* A receipt that exists: reconcile_started_receipt asks the marker of the
\* live database whether the restore it belongs to was committed.
ReadReceipt(a) ==
  /\ exec[a].phase = "queued" /\ exec[a].key \in RestoreKeys /\ Free(a)
  /\ receipts[exec[a].key] # "none"
  /\ exec' = Executed(a, CASE receipts[exec[a].key] = "torn"      -> "unknown"
                           [] receipts[exec[a].key] = "completed" -> "ok"
                           [] receipts[exec[a].key] = "started"   ->
                                CASE db.marker = exec[a].key -> "ok"
                                  [] db.marker = Nothing     -> "owner"
                                  [] OTHER                   -> "unknown")
  /\ receipts' = [receipts EXCEPT ![exec[a].key] =
                    IF exec'[a].phase = "ok" THEN "completed" ELSE @]
  /\ UNCHANGED <<rows, attempts, project, backups, db, effects, strays>>

\* The backup API commits the image, and the marker in it, in one transaction.
CommitRestore(a) ==
  /\ exec[a].phase = "owner"
  /\ db' = [writes |-> [k \in WriteKeys |-> 0], usage |-> {}, marker |-> exec[a].key,
            verified |-> FALSE]
  /\ effects' = [effects EXCEPT ![exec[a].key] = Capped(@ + 1)]
  /\ exec' = Executed(a, "committed")
  /\ UNCHANGED <<rows, attempts, project, backups, receipts, strays>>

\* The end of restore_from_bounded: quick_check of the live database.
VerifyRestore(a) ==
  /\ exec[a].phase = "committed"
  /\ db' = [db EXCEPT !.verified = TRUE]
  /\ exec' = Executed(a, "verified")
  /\ UNCHANGED <<rows, attempts, project, backups, receipts, effects, strays>>

CompleteReceipt(a) ==
  /\ exec[a].phase = "verified"
  /\ receipts' = [receipts EXCEPT ![exec[a].key] = "completed"]
  /\ exec' = Executed(a, "ok")
  /\ UNCHANGED <<rows, attempts, project, backups, db, effects, strays>>

\* An error anywhere, or the death of the worker.
ExecutionFails(a) ==
  /\ exec[a].phase \in {"queued", "owner", "committed", "verified"}
  /\ exec' = Executed(a, "failed")
  /\ UNCHANGED <<rows, attempts, project, backups, receipts, db, effects, strays>>

\* An execution nobody waits for ends with its frame, or at its deadline.
OrphanEnds(a) ==
  /\ exec[a] # NoExecution /\ attempts[a] = Idle
  /\ exec' = [exec EXCEPT ![a] = NoExecution]
  /\ UNCHANGED <<rows, attempts, project, backups, receipts, db, effects, strays>>

-----------------------------------------------------------------------------

Dispatch(a) ==
  \/ ResolveRoute(a) \/ BeginRestoreLifecycle(a) \/ Execute(a) \/ Return(a)
  \/ PersistResult(a) \/ Complete(a) \/ Answer(a)

Worker(a) ==
  \/ ExecuteWrite(a) \/ CreateReceipt(a) \/ ReadReceipt(a)
  \/ CommitRestore(a) \/ VerifyRestore(a) \/ CompleteReceipt(a)

Failure(a) ==
  \/ ExecutionError(a) \/ MismatchedAnswer(a) \/ StrayAnswer(a)
  \/ GiveUp(a) \/ LoseClaim(a) \/ ExecutionFails(a)

Next ==
  \/ \E a \in Slots : \/ \E k \in Keys : Admit(a, k) \/ Replay(a, k)
                      \/ Dispatch(a) \/ Worker(a) \/ Failure(a)
                      \/ Renew(a) \/ OrphanEnds(a)
  \/ \E k \in Keys : LeaseExpires(k) \/ PurgeExpired(k)
  \/ ApiCrash

Spec == Init /\ [][Next]_operationVars

\* The failures that come from outside: a dispatch that could have gone on, a
\* worker that had not answered.
Disturbed ==
  \/ ApiCrash
  \/ \E k \in Keys : rows[k].owner # Nobody /\ LeaseExpires(k)
  \/ \E a \in Slots :
       \/ GiveUp(a) /\ ENABLED Dispatch(a)
       \/ LoseClaim(a) /\ Owns(a)
       \/ ExecutionFails(a) \/ MismatchedAnswer(a) \/ StrayAnswer(a)
       \/ ExecutionError(a) /\ exec[a].phase \notin {"failed", "unknown"}

\* A dispatch and a worker that can go on do, a lease nobody renews runs out,
\* the client of a restore retries with its key, and the failures from outside
\* end at some point.
FairSpec ==
  /\ Spec
  /\ \A a \in Slots :
       /\ WF_operationVars(Dispatch(a) \/ GiveUp(a) \/ LoseClaim(a) \/ ExecutionError(a))
       /\ WF_operationVars(Worker(a))
       /\ WF_operationVars(OrphanEnds(a))
  /\ \A k \in Keys : WF_operationVars(rows[k].owner = Nobody /\ LeaseExpires(k))
  /\ \A k \in RestoreKeys : SF_operationVars(\E a \in Slots : Admit(a, k))
  /\ <>[][~Disturbed]_operationVars

-----------------------------------------------------------------------------
(* Properties *)

\* The rows, the dispatches, the executions and the database have their
\* declared shape.
OperationsTypeOK ==
  /\ rows \in [Keys -> Row]
  /\ attempts \in [Slots -> Attempt]
  /\ exec \in [Slots -> Execution]
  /\ project \in {"active", "restoring", "failed"}
  /\ backups \in [Backups -> RestoreKeys \cup {Nothing}]
  /\ receipts \in [RestoreKeys -> {"none", "started", "completed", "torn"}]
  /\ db \in Database
  /\ effects \in [Keys -> 0..2]
  /\ strays \subseteq Keys

\* A restore is carried out at most once for a key, whatever is retried: lost
\* leases, a crash of the API with its worker left behind, a failure before or
\* after the commit (backup-restore.md: "does not restore again").  A key whose
\* call was answered while a worker kept its frame is exempt: its retry may run
\* beside that worker.
RestoreOnce == \A k \in RestoreKeys \ strays : effects[k] <= 1

\* The database never holds the write of a key twice, whatever is retried and
\* restored (execute_metered_operation).
WriteOnce == \A k \in WriteKeys : db.writes[k] <= 1

\* A dispatch that is about to answer success, from its own work or from a
\* stored response, answers for an operation that was carried out, unless it
\* is a write whose key was given the answer to another request.
AnswersEarned ==
  \A a \in Slots : attempts[a].phase \in {"returned", "persisted", "answered"}
                   => effects[attempts[a].key] >= 1 \/ attempts[a].key \in strays \cap WriteKeys

\* While a worker is restoring, the project is fenced off for ordinary work
\* (begin_restore_lifecycle, persist_control_plane_result), with the same
\* exemption.
FenceHolds ==
  \A a \in Slots : Restoring(a) /\ exec[a].key \notin strays => project # "active"

\* A retry of a restore can always tell whether it was committed (the comment
\* of prepare_restore_receipt).
OutcomeKnown == \A a \in Slots : exec[a].phase # "unknown"

\* The success of a restore is answered after the live database was verified.
AnswersVerified ==
  \A a \in Slots : /\ attempts[a].phase \in {"returned", "persisted", "answered"}
                   /\ attempts[a].key \in RestoreKeys
                   /\ db.marker = attempts[a].key
                   => db.verified

\* No write reaches the database while the project is fenced for a restore.
FenceDrains == [][db'.writes # db.writes /\ db'.marker = db.marker
                  => project = "active"]_operationVars

\* A restore that is retried with its key ends, and with it the fence: the
\* retry reaches the worker, learns the outcome and makes the project active.
FenceLifts == project = "restoring" ~> project = "active"

\* The success of a restore is answered for a restore that was carried out, and
\* that of a write for a write that was, except where the write was given the
\* answer to another request, which dispatch does not notice and complete then
\* stores for its key.  The database never holds the write of a key twice,
\* whatever is retried, restored or answered to the wrong call (dispatch,
\* restore_response_matches, complete, execute_metered_operation).
AnswersBacked == OperationsTypeOK /\ WriteOnce /\ AnswersEarned

\* A restore is carried out once for its key, and while a worker carries it
\* out the project is fenced off for ordinary work, also when the API crashed
\* and another dispatch took it over (begin_restore_lifecycle,
\* persist_control_plane_result, reconcile_started_receipt), except for a key
\* whose call was answered while a worker kept its frame.  The fence is that of
\* one backup; the mismatched answers of other keys leave it in place with two
\* dispatches, and with three as long as no lease is lost besides.
RestoreFenced == FenceHolds /\ RestoreOnce
=============================================================================
