----------------------------- MODULE SyncWorker -----------------------------
(***************************************************************************)
(* The sync worker actor and its checkpoint store, apps/sync-worker/src/   *)
(* lib.rs, for one project.                                                *)
(*                                                                         *)
(* The actor handles one command at a time: it changes its engine in       *)
(* memory, writes the checkpoint to a temporary file, renames it over the  *)
(* old one and syncs the directory, and only then answers.  Any of the     *)
(* three may fail, and the machine may crash between any two of them.      *)
(*                                                                         *)
(* visible is the file a process reads, durable the one a power failure    *)
(* leaves: the rename reaches the disk when the directory is synced, or    *)
(* whenever the system writes it back on its own.                          *)
(***************************************************************************)
EXTENDS SyncEngine

CONSTANTS
  MaxBatch,      \* mutations of a push: max_push_mutations
  MaxSequence,   \* bound on the sequence
  MaxSchema,     \* bound on the schema version
  MaxRevision    \* bound on the checkpoint revision

ASSUME WorkerBounds ==
  /\ MaxBatch \in Nat \ {0}
  /\ MaxSequence \in Nat /\ MaxSchema \in Nat /\ MaxRevision \in Nat

VARIABLES
  open,      \* the engine the actor holds and its revision, or NotOpen
  job,       \* the checkpoint being stored, or NoJob
  visible,   \* the checkpoint file, or NoFile
  durable,   \* the checkpoint file on the disk itself, or NoFile
  clock,     \* history: the largest now_ms any command has carried
  acked,     \* history: the receipts of answered pushes
  stranded   \* history: a directory sync has failed since the project was opened

vars == <<open, job, visible, durable, clock, acked, stranded>>

NotOpen == [kind |-> "closed"]
NoJob == [phase |-> "none"]
NoFile == [revision |-> 0]

OpenEngine == [kind: {"open"}, engine: Engine, revision: Nat]
Checkpoint == [revision: Nat \ {0}, engine: Engine]
Job == [phase: {"write", "rename", "sync"}, original: Engine \cup {NoFile},
        checkpoint: Checkpoint, accepted: SUBSET Record]

Opened(engine, revision) == [kind |-> "open", engine |-> engine, revision |-> revision]

-----------------------------------------------------------------------------
(* compare_and_swap *)

\* The revision is compared before anything is written; a conflict puts the
\* engine back as it was.
Store(engine, original, expected, accepted) ==
  IF visible.revision # expected
  THEN UNCHANGED <<open, job>>
  ELSE /\ expected < MaxRevision
       /\ job' = [phase |-> "write", original |-> original, accepted |-> accepted,
                  checkpoint |-> [revision |-> expected + 1, engine |-> engine]]
       /\ open' = IF open.kind = "open" THEN [open EXCEPT !.engine = engine] ELSE open

\* The temporary file is written and synced.
WriteTemporary ==
  /\ job.phase = "write"
  /\ job' = [job EXCEPT !.phase = "rename"]
  /\ UNCHANGED <<open, visible, durable, clock, acked, stranded>>

Rename ==
  /\ job.phase = "rename"
  /\ visible' = job.checkpoint
  /\ job' = [job EXCEPT !.phase = "sync"]
  /\ UNCHANGED <<open, durable, clock, acked, stranded>>

\* Mutant: the command is answered after the rename, without the sync.
SyncDirectory_none ==
  /\ job.phase = "sync"
  /\ open' = Opened(job.checkpoint.engine, job.checkpoint.revision)
  /\ acked' = acked \cup job.accepted
  /\ job' = NoJob
  /\ UNCHANGED <<visible, durable, clock, stranded>>

\* The directory is synced, the revision adopted and the command answered.
SyncDirectory ==
  /\ job.phase = "sync"
  /\ durable' = visible
  /\ open' = Opened(job.checkpoint.engine, job.checkpoint.revision)
  /\ acked' = acked \cup job.accepted
  /\ job' = NoJob
  /\ UNCHANGED <<visible, clock, stranded>>

\* Mutant: the engine keeps the change whose checkpoint failed.
StoreFails_keeps_change ==
  /\ job.phase # "none"
  /\ stranded' = (stranded \/ job.phase = "sync")
  /\ job' = NoJob
  /\ UNCHANGED <<open, visible, durable, clock, acked>>

\* Mutant: a project whose creation failed is left open.
StoreFails_opens ==
  /\ job.phase # "none"
  /\ open' = [kind |-> "open", engine |-> job.original, revision |-> job.checkpoint.revision - 1]
  /\ stranded' = (stranded \/ job.phase = "sync")
  /\ job' = NoJob
  /\ UNCHANGED <<visible, durable, clock, acked>>

\* Any of the three steps fails: the engine is put back as it was (a project
\* that was being created stays closed) and the command answers an error.
StoreFails ==
  /\ job.phase # "none"
  /\ open' = IF open.kind = "open" THEN [open EXCEPT !.engine = job.original] ELSE open
  /\ stranded' = (stranded \/ job.phase = "sync")
  /\ job' = NoJob
  /\ UNCHANGED <<visible, durable, clock, acked>>

-----------------------------------------------------------------------------
(* Commands *)

Idle == job.phase = "none"
Ready == Idle /\ open.kind = "open"

\* CreateProject: restore the stored checkpoint, or store a new engine.  The
\* schema version of the request has to be that of the checkpoint.
CreateProject(schema) ==
  /\ Idle /\ open.kind = "closed"
  /\ \/ /\ visible # NoFile
        /\ ValidState(visible.engine) /\ visible.engine.schema = schema
        /\ open' = Opened(visible.engine, visible.revision)
        /\ stranded' = FALSE
        /\ UNCHANGED job
     \/ /\ visible = NoFile
        /\ Store([NewEngine EXCEPT !.schema = schema], NoFile, 0, {})
        /\ stranded' = FALSE
  /\ UNCHANGED <<visible, durable, clock, acked>>

Seen(now) == clock' = Max({clock, now})

PushBatch(u, batch, schema, atomic, now) ==
  /\ Ready
  /\ schema = open.engine.schema
  /\ latest_sequence(open.engine) + Len(batch) <= MaxSequence
  /\ LET result == Push(open.engine, u, batch, atomic, now) IN
       /\ ~result.failed
       /\ Store(result.engine, open.engine, open.revision, result.accepted)
  /\ Seen(now)
  /\ UNCHANGED <<visible, durable, acked, stranded>>

InvalidateScope(schema, now) ==
  /\ Ready
  /\ schema >= open.engine.schema
  /\ latest_sequence(open.engine) < MaxSequence
  /\ Store(Invalidate(open.engine, schema, now), open.engine, open.revision, {})
  /\ Seen(now)
  /\ UNCHANGED <<visible, durable, acked, stranded>>

CompactProject(now) ==
  /\ Ready
  /\ Store(Compact(open.engine, now), open.engine, open.revision, {})
  /\ Seen(now)
  /\ UNCHANGED <<visible, durable, acked, stranded>>

\* Shutdown ends the actor; a later process opens the project again.
Shutdown ==
  /\ Ready
  /\ open' = NotOpen
  /\ UNCHANGED <<job, visible, durable, clock, acked, stranded>>

-----------------------------------------------------------------------------
(* The system underneath *)

WriteBack ==
  /\ durable # visible
  /\ durable' = visible
  /\ UNCHANGED <<open, job, visible, clock, acked, stranded>>

KillProcess ==
  /\ job.phase # "none"
  /\ open' = NotOpen
  /\ job' = NoJob
  /\ UNCHANGED <<visible, durable, clock, acked, stranded>>

PowerFailure ==
  /\ durable # visible
  /\ visible' = durable
  /\ open' = NotOpen
  /\ job' = NoJob
  /\ UNCHANGED <<durable, clock, acked, stranded>>

-----------------------------------------------------------------------------
Init ==
  /\ open = NotOpen
  /\ job = NoJob
  /\ visible = NoFile
  /\ durable = NoFile
  /\ clock = 0
  /\ acked = {}
  /\ stranded = FALSE

CommandNext ==
  \/ \E schema \in 1 .. MaxSchema : CreateProject(schema)
  \/ \E u \in Subjects, schema \in 1 .. MaxSchema, n \in 1 .. MaxBatch, now \in Times :
       \E batch \in [1 .. n -> Mutations], atomic \in BOOLEAN :
         PushBatch(u, batch, schema, atomic, now)
  \/ \E schema \in 1 .. MaxSchema, now \in Times : InvalidateScope(schema, now)
  \/ \E now \in Times : CompactProject(now)
  \/ Shutdown

StoreNext == WriteTemporary \/ Rename \/ SyncDirectory \/ StoreFails

SystemNext == WriteBack \/ KillProcess \/ PowerFailure

Next == CommandNext \/ StoreNext \/ SystemNext

Spec == Init /\ [][Next]_vars

-----------------------------------------------------------------------------
\* Every engine the worker holds, stores or has stored.
Engines ==
  {f.engine : f \in {visible, durable} \ {NoFile}}
    \cup (IF open.kind = "open" THEN {open.engine} ELSE {})
    \cup (IF job.phase # "none" THEN {job.checkpoint.engine} ELSE {})

WorkerTypeOK ==
  /\ open \in {NotOpen} \cup OpenEngine
  /\ job \in {NoJob} \cup Job
  /\ visible \in {NoFile} \cup Checkpoint
  /\ durable \in {NoFile} \cup Checkpoint
  /\ clock \in Times
  /\ acked \subseteq Record

\* restore accepts every checkpoint the worker ever writes, whatever the order
\* of pushes, invalidations, compactions and clock steps that led to it.
CheckpointsRestorable == \A e \in Engines : ValidState(e)

\* No history is missing above the minimum: a cursor that pull does not refuse
\* finds every later event still there, although events are dropped by commit
\* time and the clock may run backwards.
HistoryComplete ==
  \A e \in Engines : \A sequence \in (e.minimum + 1) .. latest_sequence(e) :
    \E i \in 1 .. Len(e.events) : e.events[i].sequence = sequence

\* A mutation is applied once however often it is submitted, across failed
\* checkpoints, crashes and restarts, until its record has outlived the
\* retention.
MutationsAppliedOnce ==
  \A e \in Engines : \A i, j \in 1 .. Len(e.events) :
    /\ i < j
    /\ e.events[i].kind # "resnapshot" /\ e.events[j].kind # "resnapshot"
    /\ e.events[i].subject = e.events[j].subject
    /\ e.events[i].mutation = e.events[j].mutation
    => e.events[i].committed < clock - IdempotencyRetention

\* An accepted mutation that was answered survives every crash: the disk holds
\* its change, or retention has dropped it since.
AnsweredIsDurable ==
  \A r \in acked :
    /\ durable # NoFile
    /\ \/ r.sequence <= durable.engine.minimum
       \/ \E i \in 1 .. Len(durable.engine.events) :
            LET event == durable.engine.events[i] IN
            /\ event.sequence = r.sequence
            /\ event.subject = r.subject
            /\ event.mutation = r.mutation.id
            /\ event.row_version = r.row_version

\* Between commands the engine in memory is the stored one, unless a directory
\* sync failed after its rename: then the store is one revision ahead, and
\* every later command conflicts until the project is opened again.
MemoryMatchesStore ==
  Ready /\ visible # NoFile =>
    \/ open.engine = visible.engine /\ open.revision = visible.revision
    \/ stranded /\ visible.revision = open.revision + 1

\* What docs/sync-protocol/README.md:9 says of a pull: it returns the changes
\* after the cursor plus a replacement cursor, so no visible change lies
\* between the two cursors without being returned.
PullReturnsAll ==
  \A e \in Engines, u \in Subjects, after \in 0 .. MaxSequence, limit \in 1 .. MaxPullEvents :
    CursorAvailable(e, after) /\ after <= latest_sequence(e) =>
      LET page == Pull(e, u, after, limit) IN
      \A i \in 1 .. Len(e.events) :
        e.events[i].sequence \in (after + 1) .. page.sequence /\ IsVisible(u, e.events[i])
          => e.events[i] \in page.events

\* What the store holds can be restored, and between commands the engine in
\* memory is the stored one or is known to lag behind it (checkpoint, restore).
StoreFaithful == WorkerTypeOK /\ CheckpointsRestorable /\ MemoryMatchesStore

\* The history above its minimum has no gap and holds each mutation once
\* within the retention, whatever is dropped, retried and restored (push,
\* compact).
HistoryFaithful == HistoryComplete /\ MutationsAppliedOnce
=============================================================================
