----------------------------- MODULE SyncEngine -----------------------------
(***************************************************************************)
(* The in-memory logical sync engine of crates/sync-engine/src/lib.rs: its *)
(* state as one record and its operations as operators on it.  SyncWorker  *)
(* runs them and stores the result.                                        *)
(*                                                                         *)
(* The caller supplies now_ms with every operation and nothing forces it   *)
(* to grow, so commit times need not follow the sequence.                  *)
(***************************************************************************)
EXTENDS Integers, Sequences, FiniteSets, FiniteSetsExt

CONSTANTS
  Subjects,              \* subject and trusted client of a context
  Keys,                  \* table and primary key
  Values,                \* row contents
  EmptyRow,              \* the empty tombstone of a row that never existed
  CanRead,               \* SyncAuthorizer::can_read: contents a subject may read
  CanWrite,              \* SyncAuthorizer::can_write: contents a subject may write
  Mutations,             \* the mutations clients submit
  MaxTime,               \* bound on now_ms
  ChangeRetention,       \* change_retention_ms
  TombstoneRetention,    \* tombstone_retention_ms
  IdempotencyRetention,  \* idempotency_retention_ms
  MaxReceipts,           \* max_idempotency_records
  MaxPullEvents          \* max_pull_events

Times == 0 .. MaxTime
NotDeleted == -1
NoRow == [row_version |-> 0]

Mutation == [id: Nat, key: Keys, op: {"upsert", "delete"}, value: Values]
Row == [value: Values \cup {EmptyRow}, row_version: Nat, server_sequence: Nat,
        deleted_at: Times \cup {NotDeleted}]
ChangeEvent == [kind: {"upsert", "delete"}, sequence: Nat, key: Keys,
                value: Values \cup {EmptyRow}, row_version: Nat, subject: Subjects,
                mutation: Nat, schema: Nat, committed: Times]
ControlEvent == [kind: {"resnapshot"}, sequence: Nat, schema: Nat, committed: Times]
Record == [subject: Subjects, mutation: Mutation, sequence: Nat, row_version: Nat,
           committed: Times]
Engine == [schema: Nat, next_sequence: Nat, minimum: Nat,
           rows: [Keys -> Row \cup {NoRow}], events: Seq(ChangeEvent \cup ControlEvent),
           records: SUBSET Record]

\* SyncEngine::new checks its configuration before it builds anything.
ASSUME EngineConfiguration ==
  /\ ChangeRetention \in Nat \ {0}
  /\ TombstoneRetention \in Nat /\ TombstoneRetention >= ChangeRetention
  /\ IdempotencyRetention \in Nat \ {0}
  /\ MaxReceipts \in Nat \ {0}
  /\ MaxPullEvents \in Nat \ {0}
  /\ MaxTime \in Nat
ASSUME EngineInputs ==
  /\ EmptyRow \notin Values
  /\ CanRead \in [Subjects -> SUBSET (Values \cup {EmptyRow})]
  /\ CanWrite \in [Subjects -> SUBSET (Values \cup {EmptyRow})]
  /\ Mutations \subseteq Mutation

NewEngine ==
  [schema |-> 1, next_sequence |-> 1, minimum |-> 0, rows |-> [k \in Keys |-> NoRow],
   events |-> <<>>, records |-> {}]

latest_sequence(e) == e.next_sequence - 1

-----------------------------------------------------------------------------
(* push *)

\* A delete is authorized on the stored contents, everything else on the new.
AuthorizationRow(e, m) ==
  IF m.op = "delete" /\ e.rows[m.key] # NoRow THEN e.rows[m.key].value ELSE m.value

Stored(e, u, m) == {r \in e.records : r.subject = u /\ r.mutation.id = m.id}

Retained(records, now) == {r \in records : r.committed >= now - IdempotencyRetention}

\* Mutant: the record of an earlier submission is not looked up.
Outcome_no_lookup(e, u, m, now) ==
  CASE AuthorizationRow(e, m) \notin CanWrite[u] -> "rls_denied"
    [] AuthorizationRow(e, m) \in CanWrite[u]
         /\ Cardinality(Retained(e.records, now)) >= MaxReceipts -> "capacity"
    [] OTHER -> "applied"

\* Mutant: one record too many before the capacity is reached.
Outcome_overfull(e, u, m, now) ==
  LET stored == Stored(e, u, m) IN
  CASE AuthorizationRow(e, m) \notin CanWrite[u] -> "rls_denied"
    [] AuthorizationRow(e, m) \in CanWrite[u] /\ stored # {} ->
         IF \E r \in stored : r.mutation = m THEN "already_applied" ELSE "id_reused"
    [] AuthorizationRow(e, m) \in CanWrite[u] /\ stored = {} ->
         IF Cardinality(Retained(e.records, now)) > MaxReceipts THEN "capacity" ELSE "applied"

Outcome(e, u, m, now) ==
  LET stored == Stored(e, u, m) IN
  CASE AuthorizationRow(e, m) \notin CanWrite[u] -> "rls_denied"
    [] AuthorizationRow(e, m) \in CanWrite[u] /\ stored # {} ->
         IF \E r \in stored : r.mutation = m THEN "already_applied" ELSE "id_reused"
    [] AuthorizationRow(e, m) \in CanWrite[u] /\ stored = {} ->
         IF Cardinality(Retained(e.records, now)) >= MaxReceipts THEN "capacity" ELSE "applied"

NextVersion(e, k) == IF e.rows[k] = NoRow THEN 1 ELSE e.rows[k].row_version + 1

\* The contents an applied mutation stores: a delete keeps the prior ones.
StoredValue(e, m) ==
  IF m.op = "upsert" THEN m.value
  ELSE IF e.rows[m.key] = NoRow THEN EmptyRow ELSE e.rows[m.key].value

ApplyMutation(e, u, m, now) ==
  LET outcome == Outcome(e, u, m, now)
      version == NextVersion(e, m.key)
      value == StoredValue(e, m)
      kept == Retained(e.records, now)
  IN CASE outcome = "applied" ->
            [e EXCEPT
               !.next_sequence = @ + 1,
               !.rows[m.key] = [value |-> value, row_version |-> version,
                                server_sequence |-> e.next_sequence,
                                deleted_at |-> IF m.op = "delete" THEN now ELSE NotDeleted],
               !.events = Append(@, [kind |-> m.op, sequence |-> e.next_sequence,
                                     key |-> m.key, value |-> value, row_version |-> version,
                                     subject |-> u, mutation |-> m.id, schema |-> e.schema,
                                     committed |-> now]),
               !.records = kept \cup {[subject |-> u, mutation |-> m,
                                       sequence |-> e.next_sequence,
                                       row_version |-> version, committed |-> now]}]
       [] outcome = "capacity" -> [e EXCEPT !.records = kept]
       [] OTHER -> e

\* The engine after the first n mutations of a batch.
Applied(e, u, batch, now) ==
  LET after[n \in 0 .. Len(batch)] ==
        IF n = 0 THEN e ELSE ApplyMutation(after[n - 1], u, batch[n], now)
  IN after

Accepted(outcome) == outcome \in {"applied", "already_applied"}

\* validate_batch bounds the batch; atomic mode restores the state when one
\* mutation fails, partial mode keeps the mutations that were accepted.
Push(e, u, batch, atomic, now) ==
  LET after == Applied(e, u, batch, now)
      outcomes == [i \in 1 .. Len(batch) |-> Outcome(after[i - 1], u, batch[i], now)]
      failed == atomic /\ \E i \in 1 .. Len(batch) : ~Accepted(outcomes[i])
  IN [engine |-> IF failed THEN e ELSE after[Len(batch)],
      failed |-> failed,
      accepted |-> {r \in after[Len(batch)].records :
                      r.subject = u /\ \E i \in 1 .. Len(batch) :
                                         Accepted(outcomes[i]) /\ batch[i] = r.mutation}]

-----------------------------------------------------------------------------
(* invalidate and compact *)

Invalidate(e, schema, now) ==
  [e EXCEPT !.schema = schema, !.next_sequence = @ + 1,
            !.events = Append(@, [kind |-> "resnapshot", sequence |-> e.next_sequence,
                                  schema |-> schema, committed |-> now])]

\* The events that are not older than the cutoff, in their order (retain).
Kept(events, cutoff) ==
  LET kept[n \in 0 .. Len(events)] ==
        IF n = 0 THEN <<>>
        ELSE IF events[n].committed >= cutoff THEN Append(kept[n - 1], events[n])
        ELSE kept[n - 1]
  IN kept[Len(events)]

\* Mutant: the minimum is that of the first removed event, not of the last.
Compact_first_removed(e, now) ==
  LET old == {i \in 1 .. Len(e.events) : e.events[i].committed < now - ChangeRetention}
      expired(row) == row # NoRow /\ row.deleted_at # NotDeleted
                        /\ row.deleted_at < now - TombstoneRetention
  IN [e EXCEPT
        !.events = Kept(@, now - ChangeRetention),
        !.minimum = IF old = {} THEN @ ELSE e.events[Min(old)].sequence,
        !.rows = [k \in Keys |-> IF expired(e.rows[k]) THEN NoRow ELSE e.rows[k]],
        !.records = Retained(@, now)]

Compact(e, now) ==
  LET old == {i \in 1 .. Len(e.events) : e.events[i].committed < now - ChangeRetention}
      expired(row) == row # NoRow /\ row.deleted_at # NotDeleted
                        /\ row.deleted_at < now - TombstoneRetention
  IN [e EXCEPT
        !.events = Kept(@, now - ChangeRetention),
        !.minimum = Max({@} \cup {e.events[i].sequence : i \in old}),
        !.rows = [k \in Keys |-> IF expired(e.rows[k]) THEN NoRow ELSE e.rows[k]],
        !.records = Retained(@, now)]

-----------------------------------------------------------------------------
(* pull *)

IsVisible(u, event) == event.kind = "resnapshot" \/ event.value \in CanRead[u]

\* A cursor is refused below the minimum; the checks of its claims are those
\* of OfflineSync!CursorValid.
CursorAvailable(e, sequence) == sequence >= e.minimum

\* The event that no longer fits counts as examined.
Pull(e, u, after, limit) ==
  LET later == {i \in 1 .. Len(e.events) : e.events[i].sequence > after}
      visible == {i \in later : IsVisible(u, e.events[i])}
      fits == {i \in visible : Cardinality({j \in visible : j < i}) < limit}
      has_more == fits # visible
  IN [events |-> {e.events[i] : i \in fits},
      sequence |-> IF has_more THEN e.events[Min(visible \ fits)].sequence
                   ELSE latest_sequence(e),
      has_more |-> has_more]

-----------------------------------------------------------------------------
(* restore: what validate_state demands of a checkpoint. *)

ValidState(e) ==
  /\ e.next_sequence # 0
  /\ e.minimum <= latest_sequence(e)
  /\ Cardinality(e.records) <= MaxReceipts
  /\ \A i \in 1 .. Len(e.events) :
       /\ e.events[i].sequence \in 1 .. latest_sequence(e)
       /\ i > 1 => e.events[i - 1].sequence < e.events[i].sequence
  /\ \A k \in Keys : e.rows[k] # NoRow =>
       e.rows[k].server_sequence \in 1 .. latest_sequence(e) /\ e.rows[k].row_version > 0
  /\ \A r \in e.records : r.sequence \in 1 .. latest_sequence(e)

=============================================================================
