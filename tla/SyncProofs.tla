----------------------------- MODULE SyncProofs -----------------------------
(***************************************************************************)
(* Theorems about the project database (SyncServer) and about the offline  *)
(* replicas that sync with it (OfflineSync), for any number of devices,    *)
(* users, rows, values, policies, offered mutations and faults.  First the *)
(* change log: the version ledger agrees with it, replaying it gives the   *)
(* rows, every client mutation takes effect once, and the pages of a pull  *)
(* skip nothing; one inductive invariant on a database, LogSound, carries  *)
(* them.  Then the devices: they drive the database only as SyncServer     *)
(* allows, a queued mutation is never lost, and behind its cursor a        *)
(* replica shows what its user may read.                                   *)
(***************************************************************************)
EXTENDS OfflineSync, FiniteSetTheorems, WellFoundedInduction, SequenceTheorems, TLAPS

-----------------------------------------------------------------------------
\* A captured write is again a well-formed database.
LEMMA WriteType ==
  ASSUME NEW d \in Database, NEW k \in Keys, NEW new \in Values \cup {NoRow},
         NEW actor \in Actors, NEW mutation \in MutationIds \cup {NoMutation}
  PROVE  Write(d, k, new, actor, mutation) \in Database
<1> DEFINE change == CapturedChange(d, k, new, actor, mutation)
<1>1. change \in Change
  BY DEF Database, CapturedChange, Change, Version, Operation, Rows
<1>2. Append(d.changes, change) \in Seq(Change)
  BY <1>1 DEF Database
<1>3. change.row_version \in Nat /\ change.sequence \in Nat
  BY <1>1 DEF Change
<1>4. [d.versions EXCEPT ![k] = [row_version |-> change.row_version,
                                last_sequence |-> change.sequence,
                                deleted |-> new = NoRow]] \in [Keys -> Version]
  BY <1>3 DEF Database, Version
<1>5. [d.rows EXCEPT ![k] = new] \in Rows
  BY DEF Database, Rows
<1>6. d.next_sequence + 1 \in Nat \ {0}
  BY DEF Database
<1>. QED
  BY <1>2, <1>4, <1>5, <1>6 DEF Write, Database

\* Applying one mutation keeps the database well formed, whatever its outcome.
LEMMA ApplyType ==
  ASSUME NEW d \in Database, NEW u \in Users, NEW t \in Tokens, NEW m \in Mutation
  PROVE  /\ ApplySyncMutation(d, u, t, m) \in Database
         /\ MutationStatus(d, u, t, m) \in Status
<1> DEFINE new == IF m.op = "delete" THEN NoRow ELSE m.value
<1> DEFINE w == Write(d, m.key, new, u, m.id)
<1>1. new \in Values \cup {NoRow} /\ m.key \in Keys /\ m.id \in MutationIds /\ u \in Actors
  BY DEF Mutation, Actors
<1>2. w \in Database
  BY <1>1, WriteType
<1>3. w.changes[Len(w.changes)] \in Change
  <2>1. d.changes \in Seq(Change)
    BY DEF Database
  <2>2. w.changes = Append(d.changes, CapturedChange(d, m.key, new, u, m.id))
    BY DEF Write, Database
  <2>3. w.changes \in Seq(Change)
    BY <1>2 DEF Database
  <2>. QED
    BY <2>1, <2>2, <2>3
<1>4. [subject |-> u, client |-> t, mutation |-> m,
       sequence |-> w.changes[Len(w.changes)].sequence,
       row_version |-> w.changes[Len(w.changes)].row_version] \in Receipt
  BY <1>3 DEF Receipt, Change
<1> DEFINE r == [subject |-> u, client |-> t, mutation |-> m,
                 sequence |-> w.changes[Len(w.changes)].sequence,
                 row_version |-> w.changes[Len(w.changes)].row_version]
<1>5. ApplySyncMutation(d, u, t, m) = IF MutationStatus(d, u, t, m) = "applied"
                                      THEN [w EXCEPT !.mutations = @ \cup {r}] ELSE d
  BY Zenon DEF ApplySyncMutation
<1>6. ApplySyncMutation(d, u, t, m) \in Database
  <2> HIDE DEF w, r
  <2>1. [w EXCEPT !.mutations = @ \cup {r}] \in Database
    BY <1>2, <1>4 DEF r, Database
  <2>. QED
    BY <2>1, <1>5
<1>. QED
  BY <1>6 DEF MutationStatus, Status

\* The fresh database is well formed.
LEMMA EmptyType == EmptyDatabase \in Database
<1>1. FirstPolicy \in Policies
  BY PolicyShape
<1>2. <<>> \in Seq(Change)
  OBVIOUS
<1>. QED
  BY <1>1, <1>2 DEF EmptyDatabase, Database, Rows, Version

\* A migration leaves a well-formed database.
LEMMA MigrateType ==
  ASSUME NEW d \in Database, NEW rows \in Rows, NEW p \in Policies
  PROVE  Migrated(d, rows, p) \in Database
<1>1. latest_sync_sequence(d) \in Nat /\ d.schema + 1 \in Nat
  BY DEF latest_sync_sequence, Database
<1>2. d = [rows |-> d.rows, next_sequence |-> d.next_sequence, changes |-> d.changes,
           versions |-> d.versions, mutations |-> d.mutations, schema |-> d.schema,
           policy |-> d.policy, base_rows |-> d.base_rows,
           base_sequence |-> d.base_sequence]
  BY DEF Database
<1>. QED
  BY <1>1, <1>2 DEF Migrated, Database

\* A batch offered to a push is a sequence of mutations.
LEMMA BatchType ==
  ASSUME NEW n \in 1 .. BatchLimit, NEW batch \in [1 .. n -> Offered]
  PROVE  batch \in Seq(Mutation)
  BY InputShape, BoundsPositive DEF InputShape

\* TypeOK is inductive: every step of every action keeps the three databases,
\* the open transaction and its results well formed.
LEMMA TypeStep ==
  ASSUME TypeOK, [Next]_serverVars
  PROVE  TypeOK'
<1>1. ASSUME NEW u \in Users, NEW t \in Tokens, NEW n \in 1 .. BatchLimit,
             NEW batch \in [1 .. n -> Offered],
             BeginPush([user |-> u, token |-> t, schema |-> db.schema, mutations |-> batch])
      PROVE  TypeOK'
  <2>1. batch \in Seq(Mutation)
    BY BatchType
  <2>2. db.schema \in Nat
    BY DEF TypeOK, Database
  <2>3. txn' \in PushTxn
    BY <1>1, <2>1, <2>2 DEF BeginPush, PushTxn, PushRequest, TypeOK
  <2>. QED
    BY <1>1, <2>3 DEF BeginPush, TypeOK
<1>2. CASE ApplyNextMutation
  <2>1. txn \in PushTxn
    BY <1>2 DEF ApplyNextMutation, TypeOK, NoTxn, AppTxn
  <2> DEFINE i == Len(txn.results) + 1
             m == txn.request.mutations[i]
  <2>2. txn.request \in PushRequest /\ txn.work \in Database /\ txn.results \in Seq(Status)
    BY <2>1 DEF PushTxn
  <2>3. m \in Mutation
    BY <1>2, <2>2 DEF ApplyNextMutation, PushRequest
  <2> DEFINE w == ApplySyncMutation(txn.work, txn.request.user, txn.request.token, m)
             s == MutationStatus(txn.work, txn.request.user, txn.request.token, m)
  <2>4. w \in Database /\ s \in Status
    BY <2>2, <2>3, ApplyType DEF PushRequest
  <2>5. txn' = [txn EXCEPT !.work = w, !.results = Append(@, s)]
    BY <1>2 DEF ApplyNextMutation
  <2> HIDE DEF w, s
  <2>6. Append(txn.results, s) \in Seq(Status)
    BY <2>2, <2>4
  <2>7. txn' \in PushTxn
    BY <2>1, <2>4, <2>5, <2>6 DEF PushTxn
  <2>. QED
    BY <1>2, <2>7 DEF ApplyNextMutation, TypeOK
<1>3. CASE CommitPush
  BY <1>3 DEF CommitPush, TypeOK, PushTxn, AppTxn, NoTxn
<1>4. ASSUME NEW a \in Actors, BeginStatements(a)
      PROVE  TypeOK'
  BY <1>4 DEF BeginStatements, TypeOK, AppTxn
<1>5. ASSUME NEW m \in Offered, Statement(m)
      PROVE  TypeOK'
  <2>1. txn \in AppTxn
    BY <1>5 DEF Statement, TypeOK, NoTxn, PushTxn
  <2>2. m \in Mutation
    BY InputShape
  <2> DEFINE new == IF m.op = "delete" THEN NoRow ELSE m.value
             w == Write(txn.work, m.key, new, txn.actor, NoMutation)
  <2>3. w \in Database
    BY <2>1, <2>2, WriteType DEF AppTxn, Mutation
  <2>4. txn' = [txn EXCEPT !.work = w]
    BY <1>5 DEF Statement
  <2> HIDE DEF w
  <2>5. txn' \in AppTxn
    BY <2>1, <2>3, <2>4 DEF AppTxn
  <2>. QED
    BY <1>5, <2>5 DEF Statement, TypeOK
<1>6. CASE CommitStatements
  BY <1>6 DEF CommitStatements, TypeOK, PushTxn, AppTxn, NoTxn
<1>7. CASE Rollback
  BY <1>7 DEF Rollback, TypeOK
<1>8. ASSUME NEW rows \in Rewrites, NEW p \in Policies, Migrate(rows, p)
      PROVE  TypeOK'
  BY <1>8, MigrateType, InputShape DEF Migrate, TypeOK
<1>9. CASE CreateBackup
  BY <1>9 DEF CreateBackup, TypeOK
<1>10. CASE RestoreBackup
  BY <1>10 DEF RestoreBackup, TypeOK
<1>11. CASE UNCHANGED serverVars
  BY <1>11 DEF serverVars, TypeOK
<1>. QED
  BY <1>1, <1>2, <1>3, <1>4, <1>5, <1>6, <1>7, <1>8, <1>9, <1>10, <1>11
  DEF Next, PushNext, StatementNext, OperatorNext

\* Type correctness of the sync tables and of the open transaction, in every
\* reachable state.
THEOREM TypeCorrect == Spec => []TypeOK
<1>1. Init => TypeOK
  BY EmptyType DEF Init, TypeOK
<1>2. TypeOK /\ [Next]_serverVars => TypeOK'
  BY TypeStep
<1>. QED
  BY <1>1, <1>2, PTL DEF Spec

-----------------------------------------------------------------------------
\* The row version a change carries never exceeds the ledger's: what makes
\* VersionsIncrease inductive without naming the last change of a row. And the
\* ledger names no change that is not in the log.
VersionsBound(d) ==
  /\ \A i \in 1 .. Len(d.changes) :
       d.changes[i].row_version <= d.versions[d.changes[i].key].row_version
  /\ \A k \in Keys : d.versions[k].last_sequence <= Len(d.changes)

\* A migration cannot lie ahead of the log.
BaseBound(d) == d.base_sequence <= Len(d.changes)

ReceiptsUnique(d) ==
  /\ \A r \in d.mutations : ReceiptMatches(d, r)
  /\ \A r, s \in d.mutations :
       SameNamespace(r, s) \/ r.sequence = s.sequence => r = s

ReceiptsComplete(d) ==
  \A i \in 1 .. Len(d.changes) :
    d.changes[i].mutation # NoMutation => \E r \in d.mutations : r.sequence = i

LedgerSound(d) ==
  /\ LogDense(d) /\ VersionsMatchLog(d) /\ VersionsIncrease(d) /\ VersionsBound(d)
  /\ BaseBound(d) /\ RowsExplained(d) /\ ReceiptsUnique(d)

LogSound(d) == LedgerSound(d) /\ ReceiptsComplete(d)

-----------------------------------------------------------------------------
\* What a captured write does to each field: n is the length of the log
\* before, w the database after and c the captured change.
WriteEffect(d, k, new, actor, mutation, n, w, c) ==
  /\ n \in Nat /\ w \in Database
  /\ c.sequence = n + 1 /\ c.key = k /\ c.mutation = mutation /\ c.actor = actor
  /\ c.row_version = d.versions[k].row_version + 1
  /\ d.versions[k].row_version \in Nat
  /\ RowAfter(c) = new /\ (c.op = "delete" <=> new = NoRow)
  /\ Len(w.changes) = n + 1
  /\ \A i \in 1 .. n : w.changes[i] = d.changes[i]
  /\ w.changes[n + 1] = c
  /\ w.next_sequence = n + 2
  /\ w.rows = [d.rows EXCEPT ![k] = new]
  /\ w.versions = [d.versions EXCEPT ![k] = [row_version |-> c.row_version,
                                             last_sequence |-> n + 1,
                                             deleted |-> new = NoRow]]
  /\ w.mutations = d.mutations
  /\ w.base_rows = d.base_rows /\ w.base_sequence = d.base_sequence

\* Write has that effect on a database whose log is dense.
LEMMA WriteFields ==
  ASSUME NEW d \in Database, LogDense(d),
         NEW k \in Keys, NEW new \in Values \cup {NoRow},
         NEW actor \in Actors, NEW mutation \in MutationIds \cup {NoMutation}
  PROVE  WriteEffect(d, k, new, actor, mutation, Len(d.changes),
                     Write(d, k, new, actor, mutation),
                     CapturedChange(d, k, new, actor, mutation))
<1> DEFINE n == Len(d.changes)
           w == Write(d, k, new, actor, mutation)
           c == CapturedChange(d, k, new, actor, mutation)
<1>1. n \in Nat /\ d.next_sequence = n + 1 /\ d.changes \in Seq(Change)
  BY DEF Database, LogDense
<1>2. w \in Database
  BY WriteType
<1>3. /\ c.sequence = n + 1 /\ c.key = k /\ c.mutation = mutation /\ c.actor = actor
      /\ c.row_version = d.versions[k].row_version + 1
  BY <1>1 DEF CapturedChange
<1>4. d.versions[k].row_version \in Nat
  BY DEF Database, Version
<1>5. RowAfter(c) = new /\ (c.op = "delete" <=> new = NoRow)
  BY SentinelsDistinct DEF CapturedChange, Operation, RowAfter
<1>6. w.changes = Append(d.changes, c)
  BY DEF Write, Database
<1>7. Len(w.changes) = n + 1 /\ w.changes[n + 1] = c /\ \A i \in 1 .. n : w.changes[i] = d.changes[i]
  BY <1>1, <1>6
<1>8. /\ w.next_sequence = n + 2
      /\ w.rows = [d.rows EXCEPT ![k] = new]
      /\ w.versions = [d.versions EXCEPT ![k] = [row_version |-> c.row_version,
                                                 last_sequence |-> c.sequence,
                                                 deleted |-> new = NoRow]]
      /\ w.mutations = d.mutations
      /\ w.base_rows = d.base_rows /\ w.base_sequence = d.base_sequence
  BY <1>1 DEF Write, Database
<1> HIDE DEF n, w, c
<1>. QED
  BY <1>1, <1>2, <1>3, <1>4, <1>5, <1>7, <1>8 DEF WriteEffect, n, w, c

\* A captured write keeps everything but the completeness of the receipts,
\* which the caller owes when it writes on behalf of a client mutation.
LEMMA WriteSound ==
  ASSUME NEW d \in Database, LedgerSound(d),
         NEW k \in Keys, NEW new \in Values \cup {NoRow},
         NEW actor \in Actors, NEW mutation \in MutationIds \cup {NoMutation}
  PROVE  LedgerSound(Write(d, k, new, actor, mutation))
<1> DEFINE n == Len(d.changes)
           w == Write(d, k, new, actor, mutation)
           c == CapturedChange(d, k, new, actor, mutation)
<1>0. LogDense(d)
  BY DEF LedgerSound
<1>1. WriteEffect(d, k, new, actor, mutation, n, w, c)
  BY <1>0, WriteFields
<1>2. /\ d.versions \in [Keys -> Version] /\ d.rows \in Rows /\ d.base_sequence \in Nat
      /\ d.mutations \subseteq Receipt /\ d.changes \in Seq(Change)
  BY DEF Database
<1>2a. \A i \in 1 .. n : d.changes[i] \in Change
  BY <1>2
<1>2b. \A i \in 1 .. n : d.changes[i].key \in Keys /\ d.changes[i].row_version \in Nat
  BY <1>2a DEF Change
<1>2c. \A j \in Keys : d.versions[j].row_version \in Nat
  BY <1>2 DEF Version
<1> HIDE DEF n, w, c
<1> USE DEF WriteEffect
<1>v. /\ w.versions[k].row_version = d.versions[k].row_version + 1
      /\ \A j \in Keys : j # k => w.versions[j] = d.versions[j]
  BY <1>1, <1>2
<1>3. LogDense(w)
  <2>1. \A i \in 1 .. n : d.changes[i].sequence = i
    BY <1>0 DEF LogDense, n
  <2>. QED
    BY <1>1, <2>1 DEF LogDense
<1>4. \A j \in Keys, i \in 1 .. n + 1 :
        IsLastOf(w, j, i) <=> IF j = k THEN i = n + 1 ELSE i # n + 1 /\ IsLastOf(d, j, i)
  <2> SUFFICES ASSUME NEW j \in Keys, NEW i \in 1 .. n + 1
               PROVE  IsLastOf(w, j, i) <=> IF j = k THEN i = n + 1
                                            ELSE i # n + 1 /\ IsLastOf(d, j, i)
    OBVIOUS
  <2>1. n \in Nat /\ w.changes[n + 1].key = k /\ Len(w.changes) = n + 1 /\ Len(d.changes) = n
    BY <1>1 DEF n
  <2>2. \A h \in 1 .. n : w.changes[h].key = d.changes[h].key
    BY <1>1
  <2>3. CASE j = k
    BY <2>1, <2>2, <2>3 DEF IsLastOf
  <2>4. CASE j # k /\ i = n + 1
    BY <2>1, <2>2, <2>4 DEF IsLastOf
  <2>5. CASE j # k /\ i \in 1 .. n
    BY <2>1, <2>2, <2>5 DEF IsLastOf
  <2>. QED
    BY <2>1, <2>3, <2>4, <2>5
<1>5. VersionsMatchLog(w)
  <2> SUFFICES ASSUME NEW j \in Keys, NEW i \in 1 .. n + 1, IsLastOf(w, j, i)
               PROVE  w.versions[j] = [row_version |-> w.changes[i].row_version,
                                       last_sequence |-> i,
                                       deleted |-> w.changes[i].op = "delete"]
    BY <1>1 DEF VersionsMatchLog
  <2>1. CASE j = k
    <3>1. i = n + 1
      BY <1>4, <2>1
    <3>2. w.versions[j] = [row_version |-> c.row_version, last_sequence |-> n + 1,
                           deleted |-> new = NoRow]
      BY <1>1, <1>2, <2>1
    <3>3. (new = NoRow) = (c.op = "delete")
      BY <1>1
    <3>. QED
      BY <1>1, <3>1, <3>2, <3>3
  <2>2. CASE j # k
    <3>1. i \in 1 .. n /\ IsLastOf(d, j, i)
      BY <1>1, <1>4, <2>2
    <3>2. w.versions[j] = d.versions[j]
      BY <1>1, <1>2, <2>2
    <3>3. VersionsMatchLog(d)
      BY DEF LedgerSound
    <3>. QED
      BY <1>1, <3>1, <3>2, <3>3 DEF VersionsMatchLog, n
  <2>. QED
    BY <2>1, <2>2
<1>6. VersionsBound(w)
  <2>1. \A i \in 1 .. n : d.changes[i].row_version <= d.versions[d.changes[i].key].row_version
    BY DEF LedgerSound, VersionsBound, n
  <2>1a. ASSUME NEW j \in Keys
         PROVE  w.versions[j].last_sequence <= n + 1
    <3>1. d.versions[j].last_sequence \in Nat /\ d.versions[j].last_sequence <= n
      BY <1>2 DEF LedgerSound, VersionsBound, Version, n
    <3>2. w.versions[j].last_sequence = IF j = k THEN n + 1 ELSE d.versions[j].last_sequence
      BY <1>1, <1>2
    <3>. QED
      BY <1>1, <3>1, <3>2
  <2> SUFFICES ASSUME NEW i \in 1 .. n + 1
               PROVE  w.changes[i].row_version <= w.versions[w.changes[i].key].row_version
    BY <1>1, <2>1a DEF VersionsBound
  <2>2. CASE i = n + 1
    BY <1>1, <1>v, <2>2
  <2>3. CASE i \in 1 .. n /\ d.changes[i].key = k
    <3>1. w.changes[i] = d.changes[i] /\ d.versions[k].row_version \in Nat
      BY <1>1, <2>3
    <3>2. d.changes[i].row_version <= d.versions[k].row_version
      BY <2>1, <2>3
    <3>. QED
      BY <1>v, <1>2b, <2>3, <3>1, <3>2
  <2>4. CASE i \in 1 .. n /\ d.changes[i].key # k
    BY <1>1, <1>v, <1>2b, <2>1, <2>4
  <2>. QED
    BY <1>1, <2>2, <2>3, <2>4
<1>7. VersionsIncrease(w)
  <2>1. /\ \A i \in 1 .. n : d.changes[i].row_version <= d.versions[d.changes[i].key].row_version
        /\ \A i, j \in 1 .. n : i < j /\ d.changes[i].key = d.changes[j].key
             => d.changes[i].row_version < d.changes[j].row_version
    BY DEF LedgerSound, VersionsBound, VersionsIncrease, n
  <2> SUFFICES ASSUME NEW i \in 1 .. n + 1, NEW j \in 1 .. n + 1, i < j,
                      w.changes[i].key = w.changes[j].key
               PROVE  w.changes[i].row_version < w.changes[j].row_version
    BY <1>1 DEF VersionsIncrease
  <2>2. i \in 1 .. n /\ w.changes[i] = d.changes[i]
    BY <1>1
  <2>3. CASE j = n + 1
    <3>1. d.changes[i].key = k /\ w.changes[j].row_version = d.versions[k].row_version + 1
      BY <1>1, <2>2, <2>3
    <3>2. d.changes[i].row_version <= d.versions[k].row_version
      BY <2>1, <2>2, <3>1
    <3>. QED
      BY <1>1, <1>2b, <2>2, <3>1, <3>2
  <2>4. CASE j \in 1 .. n
    BY <1>1, <2>1, <2>2, <2>4
  <2>. QED
    BY <1>1, <2>3, <2>4
<1>8. BaseBound(w)
  BY <1>1, <1>2 DEF LedgerSound, BaseBound, n
<1>9. RowsExplained(w)
  <2>1. d.base_sequence <= n /\ RowsExplained(d)
    BY DEF LedgerSound, BaseBound, n
  <2> SUFFICES ASSUME NEW j \in Keys
               PROVE  /\ \A i \in 1 .. n + 1 : i > w.base_sequence /\ IsLastOf(w, j, i)
                           => w.rows[j] = RowAfter(w.changes[i])
                      /\ (\A i \in 1 .. n + 1 : i > w.base_sequence => w.changes[i].key # j)
                           => w.rows[j] = w.base_rows[j]
    BY <1>1 DEF RowsExplained
  <2>2. CASE j = k
    <3>1. w.rows[j] = new
      BY <1>1, <1>2, <2>2 DEF Rows
    <3>2. n + 1 > w.base_sequence /\ n + 1 \in 1 .. n + 1 /\ w.changes[n + 1].key = j
      BY <1>1, <1>2, <2>1, <2>2
    <3>. QED
      BY <1>1, <1>4, <2>2, <3>1, <3>2
  <2>3. CASE j # k
    <3>1. w.rows[j] = d.rows[j]
      BY <1>1, <1>2, <2>3 DEF Rows
    <3>2. \A i \in 1 .. n + 1 : IsLastOf(w, j, i) =>
            i \in 1 .. n /\ IsLastOf(d, j, i) /\ w.changes[i] = d.changes[i]
      BY <1>1, <1>4, <2>3
    <3>3. (\A i \in 1 .. n + 1 : i > w.base_sequence => w.changes[i].key # j)
            => \A i \in 1 .. n : i > d.base_sequence => d.changes[i].key # j
      BY <1>1
    <3>4. /\ \A i \in 1 .. n : i > d.base_sequence /\ IsLastOf(d, j, i)
                => d.rows[j] = RowAfter(d.changes[i])
          /\ (\A i \in 1 .. n : i > d.base_sequence => d.changes[i].key # j)
                => d.rows[j] = d.base_rows[j]
      BY <2>1 DEF RowsExplained, n
    <3>5. w.base_sequence = d.base_sequence /\ w.base_rows = d.base_rows
      BY <1>1
    <3>. QED
      BY <3>1, <3>2, <3>3, <3>4, <3>5
  <2>. QED
    BY <2>2, <2>3
<1>10. ReceiptsUnique(w)
  <2>1. ReceiptsUnique(d)
    BY DEF LedgerSound
  <2>2. \A r \in d.mutations : ReceiptMatches(w, r)
    BY <1>1, <2>1, SMTT(40) DEF ReceiptsUnique, ReceiptMatches, n
  <2>. QED
    BY <1>1, <2>1, <2>2 DEF ReceiptsUnique
<1>. QED
  BY <1>3, <1>5, <1>6, <1>7, <1>8, <1>9, <1>10 DEF LedgerSound, w

\* An ordinary statement carries no client mutation and owes no receipt.
LEMMA StatementSound ==
  ASSUME NEW d \in Database, LogSound(d), NEW k \in Keys,
         NEW new \in Values \cup {NoRow}, NEW actor \in Actors
  PROVE  LogSound(Write(d, k, new, actor, NoMutation))
<1> DEFINE n == Len(d.changes)
           w == Write(d, k, new, actor, NoMutation)
           c == CapturedChange(d, k, new, actor, NoMutation)
<1>1. LedgerSound(d) /\ LogDense(d) /\ ReceiptsComplete(d)
  BY DEF LogSound, LedgerSound
<1>2. LedgerSound(w)
  BY <1>1, WriteSound
<1>3. WriteEffect(d, k, new, actor, NoMutation, n, w, c)
  BY <1>1, WriteFields
<1> HIDE DEF n, w, c
<1>4. ReceiptsComplete(w)
  BY <1>1, <1>3, SMTT(40) DEF ReceiptsComplete, WriteEffect, n
<1>. QED
  BY <1>2, <1>4 DEF LogSound, w

\* A pushed mutation, whatever its outcome: the change it captures and the
\* receipt it stores are added together, and only when the namespace is free.
LEMMA ApplySound ==
  ASSUME NEW d \in Database, LogSound(d),
         NEW u \in Users, NEW t \in Tokens, NEW m \in Mutation
  PROVE  LogSound(ApplySyncMutation(d, u, t, m))
<1> DEFINE new == IF m.op = "delete" THEN NoRow ELSE m.value
           n == Len(d.changes)
           w == Write(d, m.key, new, u, m.id)
           c == CapturedChange(d, m.key, new, u, m.id)
           r == [subject |-> u, client |-> t, mutation |-> m,
                 sequence |-> w.changes[Len(w.changes)].sequence,
                 row_version |-> w.changes[Len(w.changes)].row_version]
           a == [w EXCEPT !.mutations = @ \cup {r}]
<1>1. ApplySyncMutation(d, u, t, m) = IF MutationStatus(d, u, t, m) = "applied" THEN a ELSE d
  BY Zenon DEF ApplySyncMutation
<1>2. CASE MutationStatus(d, u, t, m) # "applied"
  BY <1>1, <1>2
<1>3. CASE MutationStatus(d, u, t, m) = "applied"
  <2>1. LedgerSound(d) /\ LogDense(d) /\ ReceiptsComplete(d) /\ ReceiptsUnique(d)
    BY DEF LogSound, LedgerSound
  <2>2. new \in Values \cup {NoRow} /\ m.key \in Keys /\ m.id \in MutationIds /\ u \in Actors
    BY DEF Mutation, Actors
  <2>3. StoredMutations(d, u, t, m.id) = {}
    BY <1>3 DEF MutationStatus
  <2>4. \A s \in d.mutations : ~(s.subject = u /\ s.client = t /\ s.mutation.id = m.id)
    BY <2>3 DEF StoredMutations
  <2>5. LedgerSound(w)
    BY <2>1, <2>2, WriteSound
  <2>6. WriteEffect(d, m.key, new, u, m.id, n, w, c)
    BY <2>1, <2>2, WriteFields
  <2>7. d.mutations \subseteq Receipt
    BY DEF Database
  <2>8. \A s \in d.mutations : s.sequence \in 1 .. n
    BY <2>1 DEF ReceiptsUnique, ReceiptMatches
  <2> HIDE DEF n, w, c, new
  <2>9. /\ r.subject = u /\ r.client = t /\ r.mutation = m
        /\ r.sequence = n + 1 /\ r.row_version = c.row_version
    BY <2>6 DEF WriteEffect
  <2> HIDE DEF r
  <2>10. /\ a.mutations = d.mutations \cup {r}
         /\ a.changes = w.changes /\ a.next_sequence = w.next_sequence
         /\ a.rows = w.rows /\ a.versions = w.versions
         /\ a.base_rows = w.base_rows /\ a.base_sequence = w.base_sequence
    BY <2>6 DEF WriteEffect, Database
  <2> HIDE DEF a
  <2>11. /\ LogDense(a) /\ VersionsMatchLog(a) /\ VersionsIncrease(a) /\ VersionsBound(a)
         /\ BaseBound(a)
    BY <2>5, <2>10 DEF LedgerSound, LogDense, VersionsMatchLog, VersionsIncrease,
                       VersionsBound, BaseBound, IsLastOf
  <2>12. RowsExplained(a)
    BY <2>5, <2>10 DEF LedgerSound, RowsExplained, IsLastOf
  <2>13. ReceiptMatches(a, r)
    BY <2>6, <2>9, <2>10 DEF ReceiptMatches, WriteEffect
  <2>14. \A s \in d.mutations : ReceiptMatches(a, s)
    BY <2>5, <2>6, <2>10 DEF LedgerSound, ReceiptsUnique, ReceiptMatches, WriteEffect
  <2>15. \A s \in d.mutations : ~SameNamespace(r, s) /\ ~SameNamespace(s, r)
                                 /\ r.sequence # s.sequence
    BY <2>4, <2>6, <2>8, <2>9 DEF SameNamespace, WriteEffect
  <2>16. ReceiptsUnique(a)
    BY <2>1, <2>10, <2>13, <2>14, <2>15 DEF ReceiptsUnique
  <2>17. ReceiptsComplete(a)
    <3> SUFFICES ASSUME NEW i \in 1 .. n + 1, a.changes[i].mutation # NoMutation
                 PROVE  \E s \in a.mutations : s.sequence = i
      BY <2>6, <2>10 DEF ReceiptsComplete, WriteEffect
    <3>1. CASE i = n + 1
      BY <2>9, <2>10, <3>1
    <3>2. CASE i \in 1 .. n
      <4>1. i \in 1 .. Len(d.changes) /\ a.changes[i] = d.changes[i]
        BY <2>6, <2>10, <3>2 DEF WriteEffect, n
      <4>2. \E s \in d.mutations : s.sequence = i
        BY <2>1, <4>1 DEF ReceiptsComplete
      <4>. QED
        BY <2>10, <4>2
    <3>. QED
      BY <2>6, <3>1, <3>2 DEF WriteEffect
  <2>18. LogSound(a)
    BY <2>11, <2>12, <2>16, <2>17 DEF LogSound, LedgerSound
  <2>. QED
    BY <1>1, <1>3, <2>18
<1>. QED
  BY <1>2, <1>3

\* A migration starts the explanation of the rows afresh and leaves the log,
\* the ledger and the receipts alone.
LEMMA MigrateSound ==
  ASSUME NEW d \in Database, LogSound(d), NEW rows \in Rows, NEW p \in Policies
  PROVE  LogSound(Migrated(d, rows, p))
<1> DEFINE g == Migrated(d, rows, p)
<1>1. /\ LogDense(d) /\ VersionsMatchLog(d) /\ VersionsIncrease(d) /\ VersionsBound(d)
      /\ ReceiptsUnique(d) /\ ReceiptsComplete(d)
  BY DEF LogSound, LedgerSound
<1>2. /\ g.changes = d.changes /\ g.next_sequence = d.next_sequence
      /\ g.versions = d.versions /\ g.mutations = d.mutations
      /\ g.rows = rows /\ g.base_rows = rows
      /\ g.base_sequence = d.next_sequence - 1
  BY DEF Migrated, Database, latest_sync_sequence
<1>3. d.changes \in Seq(Change) /\ Len(d.changes) \in Nat
  BY DEF Database
<1>4. g.base_sequence = Len(d.changes)
  BY <1>1, <1>2, <1>3 DEF LogDense
<1> HIDE DEF g
<1>5. LogDense(g) /\ VersionsMatchLog(g) /\ VersionsIncrease(g) /\ VersionsBound(g)
  BY <1>1, <1>2 DEF LogDense, VersionsMatchLog, VersionsIncrease, VersionsBound, IsLastOf
<1>6. BaseBound(g) /\ RowsExplained(g)
  BY <1>2, <1>3, <1>4 DEF BaseBound, RowsExplained
<1>7. ReceiptsUnique(g) /\ ReceiptsComplete(g)
  BY <1>1, <1>2 DEF ReceiptsUnique, ReceiptsComplete, ReceiptMatches
<1>. QED
  BY <1>5, <1>6, <1>7 DEF LogSound, LedgerSound, g

\* The fresh database has nothing to explain.
LEMMA EmptySound == LogSound(EmptyDatabase)
  BY DEF EmptyDatabase, LogSound, LedgerSound, LogDense, VersionsMatchLog, VersionsIncrease,
         VersionsBound, BaseBound, RowsExplained, ReceiptsUnique, ReceiptsComplete, IsLastOf

-----------------------------------------------------------------------------
\* The committed database, the working copy of the open transaction and the
\* backup are sound.
AllSound ==
  /\ LogSound(db)
  /\ txn.kind # "none" => LogSound(txn.work)
  /\ LogSound(backup)

\* AllSound is inductive, given the types.
LEMMA SoundStep ==
  ASSUME TypeOK, AllSound, [Next]_serverVars
  PROVE  AllSound'
<1>1. ASSUME NEW request, BeginPush(request)
      PROVE  AllSound'
  BY <1>1 DEF BeginPush, AllSound
<1>2. CASE ApplyNextMutation
  <2>1. txn \in PushTxn
    BY <1>2 DEF ApplyNextMutation, TypeOK, NoTxn, AppTxn
  <2> DEFINE m == txn.request.mutations[Len(txn.results) + 1]
  <2>2. txn.request \in PushRequest /\ txn.work \in Database /\ txn.results \in Seq(Status)
    BY <2>1 DEF PushTxn
  <2>3. m \in Mutation
    BY <1>2, <2>2 DEF ApplyNextMutation, PushRequest
  <2> DEFINE w == ApplySyncMutation(txn.work, txn.request.user, txn.request.token, m)
             s == MutationStatus(txn.work, txn.request.user, txn.request.token, m)
  <2>4. LogSound(txn.work)
    BY <1>2 DEF ApplyNextMutation, AllSound
  <2>5. LogSound(w)
    BY <2>2, <2>3, <2>4, ApplySound DEF PushRequest
  <2>6. txn' = [txn EXCEPT !.work = w, !.results = Append(@, s)]
    BY <1>2 DEF ApplyNextMutation
  <2> HIDE DEF w, s
  <2>7. txn'.work = w
    BY <2>1, <2>6 DEF PushTxn
  <2>. QED
    BY <1>2, <2>5, <2>7 DEF ApplyNextMutation, AllSound
<1>3. CASE CommitPush
  BY <1>3 DEF CommitPush, AllSound, NoTxn
<1>4. ASSUME NEW a \in Actors, BeginStatements(a)
      PROVE  AllSound'
  BY <1>4 DEF BeginStatements, AllSound
<1>5. ASSUME NEW m \in Offered, Statement(m)
      PROVE  AllSound'
  <2>1. txn \in AppTxn
    BY <1>5 DEF Statement, TypeOK, NoTxn, PushTxn
  <2>2. m \in Mutation
    BY InputShape
  <2> DEFINE new == IF m.op = "delete" THEN NoRow ELSE m.value
             w == Write(txn.work, m.key, new, txn.actor, NoMutation)
  <2>3. LogSound(txn.work)
    BY <1>5 DEF Statement, AllSound
  <2>4. LogSound(w)
    BY <2>1, <2>2, <2>3, StatementSound DEF AppTxn, Mutation
  <2>5. txn' = [txn EXCEPT !.work = w]
    BY <1>5 DEF Statement
  <2> HIDE DEF w
  <2>6. txn'.work = w
    BY <2>1, <2>5 DEF AppTxn
  <2>. QED
    BY <1>5, <2>4, <2>6 DEF Statement, AllSound
<1>6. CASE CommitStatements
  BY <1>6 DEF CommitStatements, AllSound, NoTxn
<1>7. CASE Rollback
  BY <1>7 DEF Rollback, AllSound, NoTxn
<1>8. ASSUME NEW rows \in Rewrites, NEW p \in Policies, Migrate(rows, p)
      PROVE  AllSound'
  BY <1>8, MigrateSound, InputShape DEF Migrate, AllSound, TypeOK
<1>9. CASE CreateBackup
  BY <1>9 DEF CreateBackup, AllSound
<1>10. CASE RestoreBackup
  BY <1>10 DEF RestoreBackup, AllSound
<1>11. CASE UNCHANGED serverVars
  BY <1>11 DEF serverVars, AllSound
<1>. QED
  BY <1>1, <1>2, <1>3, <1>4, <1>5, <1>6, <1>7, <1>8, <1>9, <1>10, <1>11
  DEF Next, PushNext, StatementNext, OperatorNext

\* What the three invariants of the runs take from AllSound.
LEMMA SoundImplies ==
  ASSUME TypeOK, AllSound
  PROVE  VersionLedger /\ LogExplainsRows /\ MutationsOnce
<1>1. \A d \in Databases : LogSound(d)
  BY DEF AllSound, Databases
<1>. QED
  BY <1>1 DEF VersionLedger, LogExplainsRows, MutationsOnce, LogSound, LedgerSound,
              ReceiptsUnique, ReceiptsComplete

\* LogSound holds of the committed database, of the database inside every open
\* transaction and of the backup, in every reachable state.
LEMMA SoundInvariant == Spec => []AllSound
<1>1. Init => AllSound
  BY EmptySound DEF Init, AllSound, NoTxn
<1>2. TypeOK /\ AllSound /\ [Next]_serverVars => AllSound'
  BY SoundStep
<1>. QED
  BY <1>1, <1>2, TypeCorrect, PTL DEF Spec

\* The ledger of row versions the triggers maintain agrees with the log in the
\* committed database, in every open transaction and in the backup.
THEOREM VersionLedgerHolds == Spec => []VersionLedger
<1>1. TypeOK /\ AllSound => VersionLedger
  BY SoundImplies
<1>. QED
  BY <1>1, TypeCorrect, SoundInvariant, PTL

\* Replaying the change log from the last migration gives exactly the rows:
\* no write that commits escapes capture, none that rolls back leaves a trace.
THEOREM LogExplainsRowsHolds == Spec => []LogExplainsRows
<1>1. TypeOK /\ AllSound => LogExplainsRows
  BY SoundImplies
<1>. QED
  BY <1>1, TypeCorrect, SoundInvariant, PTL

\* A client mutation takes effect once in its idempotency namespace.
THEOREM MutationsOnceHolds == Spec => []MutationsOnce
<1>1. TypeOK /\ AllSound => MutationsOnce
  BY SoundImplies
<1>. QED
  BY <1>1, TypeCorrect, SoundInvariant, PTL

-----------------------------------------------------------------------------
\* A nonempty set of naturals has the least element that Min chooses.
LEMMA MinOfNaturals ==
  ASSUME NEW S, S \subseteq Nat, S # {}
  PROVE  Min(S) \in S /\ \A y \in S : Min(S) <= y
<1>1. \E x \in S : \A y \in S : ~(<<y, x>> \in OpToRel(<, Nat))
  BY NatLessThanWellFounded, WFMin, Zenon
<1>2. \A x, y \in Nat : <<y, x>> \in OpToRel(<, Nat) <=> y < x
  BY Zenon DEF OpToRel
<1>3. PICK x \in S : \A y \in S : ~(<<y, x>> \in OpToRel(<, Nat))
  BY <1>1, Zenon
<1>4. \A y \in S : ~(y < x) /\ y \in Nat /\ x \in Nat
  BY <1>2, <1>3, Zenon
<1>5. \A y \in S : x <= y
  BY <1>4
<1>. QED
  BY <1>3, <1>5 DEF Min

\* A nonempty set of naturals below a bound has a greatest element.
LEMMA GreatestExists ==
  ASSUME NEW S, S \subseteq Nat, S # {}, NEW n \in Nat, \A i \in S : i <= n
  PROVE  \E m \in S : \A i \in S : i <= m
<1> DEFINE D == {n - i : i \in S}
<1>1. D \subseteq Nat /\ D # {}
  <2>1. \A i \in S : i \in Nat /\ i <= n
    OBVIOUS
  <2>2. \A i \in S : n - i \in Nat
    BY <2>1
  <2>. QED
    BY <2>2
<1>2. PICK x \in D : \A y \in D : x <= y
  BY <1>1, MinOfNaturals
<1>3. PICK m \in S : x = n - m
  BY <1>2
<1>4. \A i \in S : n - i \in D /\ i \in Nat
  OBVIOUS
<1> HIDE DEF D
<1>5. \A i \in S : n - m <= n - i /\ m \in Nat /\ i \in Nat
  BY <1>2, <1>3, <1>4
<1>6. \A i \in S : i <= m
  BY <1>5
<1>. QED
  BY <1>6

\* The elements of a set of positions with fewer than `limit` others in front.
Firsts(V, limit) == {i \in V : Cardinality({j \in V : j < i}) < limit}

\* Of a bounded set of positions, the first ones are at most `limit`; every one
\* of them comes before all the rest.
LEMMA FirstsFit ==
  ASSUME NEW V, V \subseteq Nat, NEW n \in Nat, \A i \in V : i <= n, NEW limit \in Nat \ {0}
  PROVE  /\ IsFiniteSet(Firsts(V, limit)) /\ Cardinality(Firsts(V, limit)) <= limit
         /\ \A i \in Firsts(V, limit), q \in V \ Firsts(V, limit) : i < q
         /\ \A q \in V \ Firsts(V, limit) : \E j \in V : j < q
<1> DEFINE Below(i) == {j \in V : j < i}
           F == Firsts(V, limit)
<1>0. F = {i \in V : Cardinality(Below(i)) < limit}
  BY DEF Firsts
<1> HIDE DEF F
<1>1. IsFiniteSet(V)
  BY FS_BoundedSetOfNaturals
<1>2. \A i \in V : IsFiniteSet(Below(i)) /\ Cardinality(Below(i)) \in Nat
  <2> TAKE i \in V
  <2>1. Below(i) \in SUBSET V
    OBVIOUS
  <2> HIDE DEF Below
  <2>. QED
    BY <1>1, <2>1, FS_Subset, FS_CardinalityType
<1>3. IsFiniteSet(F) /\ F \subseteq V
  BY <1>0, <1>1, FS_Subset
<1>4. Cardinality(F) \in Nat
  BY <1>3, FS_CardinalityType
<1>5. \A i \in V : i \in F <=> Cardinality(Below(i)) < limit
  BY <1>0
<1>6. Cardinality(F) <= limit
  <2>1. CASE F = {}
    <3>1. Cardinality(F) = 0
      BY <2>1, FS_EmptySet
    <3>. QED
      BY <3>1
  <2>2. CASE F # {}
    <3>0. F \subseteq Nat /\ \A i \in F : i <= n
      BY <1>3
    <3>1. PICK m \in F : \A i \in F : i <= m
      BY <3>0, <2>2, GreatestExists
    <3>2. F \ {m} \in SUBSET Below(m)
      <4>1. ASSUME NEW i \in F, i # m PROVE i \in V /\ i < m
        BY <1>3, <3>0, <3>1, <4>1
      <4>. QED
        BY <4>1
    <3>3. Cardinality(Below(m)) < limit /\ IsFiniteSet(Below(m)) /\ Cardinality(Below(m)) \in Nat
      BY <1>2, <1>3, <1>5
    <3> HIDE DEF Below
    <3>4. Cardinality(F \ {m}) <= Cardinality(Below(m))
      BY <3>2, <3>3, FS_Subset
    <3>5. Cardinality(F \ {m}) = Cardinality(F) - 1
      BY <1>3, FS_RemoveElement
    <3>. QED
      BY <1>4, <3>3, <3>4, <3>5
  <2>. QED
    BY <2>1, <2>2
<1>7. ASSUME NEW i \in F, NEW q \in V \ F
      PROVE  i < q
  <2> SUFFICES ASSUME ~(i < q) PROVE FALSE
    OBVIOUS
  <2>0. i \in V /\ q \in V /\ i \in Nat /\ q \in Nat /\ i # q
    BY <1>3
  <2>1. q < i
    BY <2>0
  <2>2. Below(q) \in SUBSET Below(i)
    <3>1. ASSUME NEW j \in V, j < q PROVE j < i
      <4>1. j \in Nat
        OBVIOUS
      <4>. QED
        BY <2>0, <2>1, <3>1, <4>1
    <3>. QED
      BY <3>1
  <2>3. /\ IsFiniteSet(Below(i)) /\ Cardinality(Below(i)) \in Nat /\ Cardinality(Below(q)) \in Nat
        /\ Cardinality(Below(i)) < limit /\ ~(Cardinality(Below(q)) < limit)
    BY <1>2, <1>3, <1>5
  <2> HIDE DEF Below
  <2>4. Cardinality(Below(q)) <= Cardinality(Below(i))
    BY <2>2, <2>3, FS_Subset
  <2>. QED
    BY <2>3, <2>4
<1>8. ASSUME NEW q \in V \ F
      PROVE  \E j \in V : j < q
  <2>1. Cardinality(Below(q)) # 0
    BY <1>2, <1>5
  <2>2. Below(q) # {}
    BY <2>1, FS_EmptySet
  <2>. QED
    BY <2>2
<1>. QED
  BY <1>3, <1>6, <1>7, <1>8 DEF F

\* The pages of a sound log: nothing visible is passed over, nothing is
\* delivered that is not visible or that lies behind the returned cursor, and
\* a page that does not end the log moves forward.
LEMMA PageSound ==
  ASSUME NEW d \in Database, LogDense(d), NEW u \in Users,
         NEW after \in 0 .. latest_sync_sequence(d), NEW limit \in Nat \ {0},
         NEW page, page = PullPage(d, u, after, limit)
  PROVE  /\ \A i \in (after + 1) .. page.sequence :
              Visible(d, u, d.changes[i]) => d.changes[i] \in page.changes
         /\ Cardinality(page.changes) <= limit
         /\ \A change \in page.changes :
              Visible(d, u, change) /\ change.sequence \in (after + 1) .. page.sequence
         /\ page.has_more <=> page.sequence < latest_sync_sequence(d)
         /\ after < latest_sync_sequence(d) => page.sequence > after
         /\ page.sequence \in after .. latest_sync_sequence(d)
         /\ \A change \in page.changes : change = d.changes[change.sequence]
<1> DEFINE n == Len(d.changes)
           top == Min({after + ScanLimit, n})
           V == {i \in (after + 1) .. top : Visible(d, u, d.changes[i])}
           F == Firsts(V, limit)
           examined == IF F # V THEN Min(V \ F) - 1
                       ELSE IF (after + 1) .. top # {} THEN Max((after + 1) .. top) ELSE after
<1>1. /\ n \in Nat /\ latest_sync_sequence(d) = n /\ after \in 0 .. n
      /\ limit \in Nat \ {0} /\ ScanLimit \in Nat \ {0}
      /\ \A i \in 1 .. n : d.changes[i].sequence = i
  BY BoundsPositive DEF LogDense, latest_sync_sequence, Database
<1>2. page = [changes |-> {d.changes[i] : i \in F}, sequence |-> examined,
              has_more |-> F # V \/ examined < latest_sync_sequence(d)]
  BY Zenon DEF PullPage, Firsts
<1>3. top \in Nat /\ top = IF after + ScanLimit <= n THEN after + ScanLimit ELSE n
  <2> DEFINE S == {after + ScanLimit, n}
  <2>1. S \subseteq Nat /\ S # {}
    BY <1>1
  <2>2. Min(S) \in S /\ \A y \in S : Min(S) <= y
    BY <2>1, MinOfNaturals
  <2>. QED
    BY <1>1, <2>2
<1> HIDE DEF top, n
<1>4. V \subseteq Nat /\ \A i \in V : i <= top
  BY <1>1, <1>3
<1>5. /\ IsFiniteSet(F) /\ Cardinality(F) <= limit
      /\ \A i \in F, q \in V \ F : i < q
      /\ \A q \in V \ F : \E j \in V : j < q
  <2>1. top \in Nat /\ limit \in Nat \ {0}
    BY <1>1, <1>3
  <2> HIDE DEF V
  <2>. QED
    BY <1>4, <2>1, FirstsFit
<1>6. F \subseteq V
  BY DEF Firsts
<1>7. \A i \in V : i \in (after + 1) .. top /\ i \in 1 .. n /\ Visible(d, u, d.changes[i])
  BY <1>1, <1>3
<1>8. \A i \in (after + 1) .. top : Visible(d, u, d.changes[i]) => i \in V
  OBVIOUS
<1> HIDE DEF F, V
<1>9. /\ examined \in after .. top
      /\ \A i \in V : i <= examined <=> i \in F
      /\ F # V => examined > after /\ examined < n
      /\ F = V => examined = top
  <2>1. CASE F # V
    <3> DEFINE q == Min(V \ F)
    <3>1. V \ F # {} /\ V \ F \subseteq Nat
      BY <1>4, <1>6, <2>1
    <3>2. q \in V \ F /\ \A y \in V \ F : q <= y
      BY <3>1, MinOfNaturals
    <3> HIDE DEF q
    <3>3. PICK j \in V : j < q
      BY <1>5, <3>2
    <3>4. examined = q - 1
      BY <2>1 DEF q
    <3> HIDE DEF examined
    <3>5. \A i \in F : i < q
      BY <1>5, <3>2
    <3>. QED
      BY <1>1, <1>3, <1>4, <1>7, <2>1, <3>2, <3>3, <3>4, <3>5
  <2>2. CASE F = V
    <3>1. examined = IF (after + 1) .. top # {} THEN Max((after + 1) .. top) ELSE after
      BY <2>2
    <3>2. examined = top
      <4>1. CASE after + 1 <= top
        <5>1. top \in (after + 1) .. top /\ \A y \in (after + 1) .. top : top >= y
          BY <1>1, <1>3, <4>1
        <5>2. \A x \in (after + 1) .. top :
                (\A y \in (after + 1) .. top : x >= y) => x = top
          BY <1>1, <1>3, <4>1
        <5>3. Max((after + 1) .. top) = top
          BY <5>1, <5>2 DEF Max
        <5>. QED
          BY <3>1, <5>1, <5>3
      <4>2. CASE ~(after + 1 <= top)
        <5>1. after = top /\ (after + 1) .. top = {}
          BY <1>1, <1>3, <4>2
        <5>. QED
          BY <3>1, <5>1
      <4>. QED
        BY <4>1, <4>2
    <3> HIDE DEF examined
    <3>. QED
      BY <1>1, <1>3, <1>4, <2>2, <3>2
  <2>. QED
    BY <2>1, <2>2
<1> HIDE DEF examined
<1>10. /\ page.changes = {d.changes[i] : i \in F} /\ page.sequence = examined
       /\ page.has_more = (F # V \/ examined < latest_sync_sequence(d))
  BY <1>2
<1>11. Cardinality(page.changes) <= limit
  <2> DEFINE T == {d.changes[i] : i \in F}
             f == [i \in F |-> d.changes[i]]
  <2>1. f \in Surjection(F, T)
    BY DEF Surjection
  <2> HIDE DEF f
  <2>2. IsFiniteSet(T) /\ Cardinality(T) <= Cardinality(F)
    BY <1>5, <2>1, FS_Surjection
  <2>3. Cardinality(T) \in Nat /\ Cardinality(F) \in Nat
    BY <1>5, <2>2, FS_CardinalityType
  <2>4. page.changes = T
    BY <1>10
  <2> HIDE DEF T
  <2>. QED
    BY <1>1, <1>5, <2>2, <2>3, <2>4
<1>12. \A i \in (after + 1) .. page.sequence :
         Visible(d, u, d.changes[i]) => d.changes[i] \in page.changes
  <2> SUFFICES ASSUME NEW i \in (after + 1) .. examined, Visible(d, u, d.changes[i])
               PROVE  i \in F
    BY <1>10
  <2>1. i \in (after + 1) .. top /\ i <= examined
    BY <1>1, <1>3, <1>9
  <2>. QED
    BY <1>8, <1>9, <2>1
<1>13. ASSUME NEW change \in page.changes
       PROVE  /\ Visible(d, u, change) /\ change.sequence \in (after + 1) .. page.sequence
              /\ change = d.changes[change.sequence]
  <2>1. PICK i \in F : change = d.changes[i]
    BY <1>10
  <2>2. i \in V /\ i <= examined /\ i \in (after + 1) .. top /\ change.sequence = i
    BY <1>1, <1>6, <1>7, <1>9, <2>1
  <2>. QED
    BY <1>1, <1>3, <1>7, <1>9, <1>10, <2>1, <2>2
<1>14. page.has_more <=> page.sequence < latest_sync_sequence(d)
  BY <1>1, <1>9, <1>10
<1>15. after < latest_sync_sequence(d) => page.sequence > after
  BY <1>1, <1>3, <1>9, <1>10
<1>16. page.sequence \in after .. latest_sync_sequence(d)
  BY <1>1, <1>3, <1>9, <1>10
<1>. QED
  BY <1>11, <1>12, <1>13, <1>14, <1>15, <1>16

\* Paging through the log skips nothing that the user may read.
THEOREM PullNeverSkipsHolds == Spec => []PullNeverSkips
<1>0. \A limit \in 1 .. BatchLimit : limit \in Nat \ {0}
  BY BoundsPositive
<1>1. TypeOK /\ AllSound => PullNeverSkips
  BY <1>0, PageSound DEF TypeOK, AllSound, LogSound, LedgerSound, PullNeverSkips
<1>. QED
  BY <1>1, TypeCorrect, SoundInvariant, PTL

-----------------------------------------------------------------------------
(* The inductive invariant, as predicates on plain values: d is the          *)
(* committed database, w the copy inside a transaction, and rep, tsk and cl  *)
(* are the replica, the task and the call of one device.                     *)

\* No change of k lies behind position s of the log.
Untouched(d, k, s) == \A i \in 1 .. Len(d.changes) : i > s => d.changes[i].key # k

\* w came from d by captured writes and receipts alone.
Grows(d, w) ==
  /\ w.schema = d.schema /\ w.policy = d.policy /\ w.base_sequence = d.base_sequence
  /\ Len(d.changes) <= Len(w.changes)
  /\ \A i \in 1 .. Len(d.changes) : w.changes[i] = d.changes[i]
  /\ \A k \in Keys : Untouched(w, k, Len(d.changes)) => w.rows[k] = d.rows[k]
  /\ d.mutations \subseteq w.mutations

\* A mutation of user u left its receipt.
Received(d, u, m) == \E r \in d.mutations : r.mutation = m /\ r.subject = u

\* A change of k lies behind position s.
Touched(d, k, s) == \E i \in 1 .. Len(d.changes) : i > s /\ d.changes[i].key = k

\* What the results of a push say, for a push that found n changes.
ResultFits(w, n, u, m, result) ==
  /\ result # "rejected" => Received(w, u, m)
  /\ result = "applied" => Touched(w, m.key, n)

TxnFits(d, t) ==
  /\ t.kind # "none" => Grows(d, t.work)
  /\ t.kind = "push" =>
       /\ Len(t.results) <= Len(t.request.mutations)
       /\ \A i \in 1 .. Len(t.results) :
            ResultFits(t.work, Len(d.changes), t.request.user, t.request.mutations[i], t.results[i])

\* A cursor of an older schema is harmless; one of the current schema lies
\* between the last migration and the end of the log.
PositionFits(d, p) ==
  /\ p \in Position /\ p.schema <= d.schema
  /\ p.schema = d.schema => d.base_sequence <= p.sequence /\ p.sequence <= Len(d.changes)

Unqueued(pending, k) == \A i \in 1 .. Len(pending) : pending[i].key # k

\* What a replica may show of a row that did not change behind its cursor.
Shows(d, u, k, entry) ==
  /\ d.rows[k] \in Readable[d.policy][u] => entry.value = d.rows[k]
  /\ entry # Absent /\ d.rows[k] \notin Readable[d.policy][u] =>
       \E i \in 1 .. Len(d.changes) : IsLastOf(d, k, i) /\ ~Visible(d, u, d.changes[i])

ReplicaFits(d, u, rep) ==
  rep.position # NoPosition =>
    /\ PositionFits(d, rep.position)
    /\ \A k \in Keys : rep.rows[k].sequence <= rep.position.sequence
    /\ rep.position.schema = d.schema =>
         \A k \in Keys : Unqueued(rep.pending, k) /\ Untouched(d, k, rep.position.sequence)
                           => Shows(d, u, k, rep.rows[k])

SnapshotFits(d, u, answer) ==
  /\ PositionFits(d, answer.position)
  /\ DOMAIN answer.rows \subseteq Keys
  /\ \A k \in DOMAIN answer.rows :
       answer.rows[k] \in Entry /\ answer.rows[k].sequence <= answer.position.sequence
  /\ answer.position.schema = d.schema =>
       \A k \in Keys : Untouched(d, k, answer.position.sequence) =>
         /\ k \in DOMAIN answer.rows <=> d.rows[k] \in Readable[d.policy][u]
         /\ k \in DOMAIN answer.rows => answer.rows[k].value = d.rows[k]

PageFits(d, u, p, answer) ==
  ~answer.control =>
    /\ PositionFits(d, answer.cursor) /\ answer.cursor.schema = p.schema
    /\ p.sequence <= answer.cursor.sequence
    /\ \A change \in answer.changes :
         change \in Change /\ change.sequence \in (p.sequence + 1) .. answer.cursor.sequence
    /\ answer.cursor.schema = d.schema =>
         /\ \A change \in answer.changes :
              change = d.changes[change.sequence] /\ Visible(d, u, change)
         /\ \A i \in (p.sequence + 1) .. answer.cursor.sequence :
              Visible(d, u, d.changes[i]) => d.changes[i] \in answer.changes

RequestFits(u, queued, request) ==
  request \in [user: {u}, token: Tokens, schema: Nat, mutations: Seq(queued)]

PushFits(d, rep, request, results) ==
  /\ Len(results) = Len(request.mutations)
  /\ \A i \in 1 .. Len(results) :
       /\ results[i] # "rejected" => Received(d, request.user, request.mutations[i])
       /\ results[i] = "applied" /\ rep.position # NoPosition /\ rep.position.schema = d.schema
            => Touched(d, request.mutations[i].key, rep.position.sequence)

Snapshotting == {"first", "authoritative", "control"}

Task == [stage: Stages, position: Position \cup {NoPosition}, snapshot: BOOLEAN]

TaskFits(rep, tsk, cl) ==
  /\ tsk \in Task
  /\ tsk.stage = "idle" => cl = NoCall
  /\ tsk.stage \in Snapshotting <=> cl.kind = "snapshot"
  /\ tsk.stage = "pull" <=> cl.kind = "pull"
  /\ tsk.stage = "pull" => rep.position # NoPosition /\ tsk.position = rep.position
  /\ cl.kind = "push" => tsk.stage = "push"
  /\ tsk.stage = "push" => tsk.position \in Position
  /\ tsk.stage = "push" /\ ~tsk.snapshot => tsk.position = rep.position

CallFits(d, t, u, rep, cl, queued) ==
  /\ \/ cl = NoCall
     \/ cl.kind \in {"snapshot", "pull"} /\ cl.state \in {"sent", "done"}
     \/ cl.kind = "push" /\ cl.state \in {"sent", "serving", "done", "failed"}
  /\ cl.state = "sent" => /\ cl.token \in Tokens
                          /\ DOMAIN cl = {"kind", "state", "token", "request"}
  /\ cl.kind = "pull" /\ cl.state = "sent" => cl.request = rep.position
  /\ cl.kind = "snapshot" /\ cl.state = "done" => SnapshotFits(d, u, cl.response)
  /\ cl.kind = "pull" /\ cl.state = "done" => PageFits(d, u, rep.position, cl.response)
  /\ cl.kind = "push" /\ cl.state \in {"sent", "serving", "done"} => RequestFits(u, queued, cl.request)
  /\ cl.state = "serving" => t.kind = "push" /\ t.request = cl.request
  /\ cl.kind = "push" /\ cl.state = "done" => PushFits(d, rep, cl.request, cl.response)

QueueFits(d, c, rep, queued) ==
  /\ queued \subseteq Wishes[c]
  /\ \A m, n \in queued : m.id = n.id => m = n
  /\ \A i \in 1 .. Len(rep.pending) : rep.pending[i] \in queued
  /\ \A m \in queued :
       \/ \E i \in 1 .. Len(rep.pending) : rep.pending[i] = m
       \/ m \in rep.rejected
       \/ Received(d, UserOf[c], m)

DeviceFits(d, t, c, rep, tsk, cl, queued) ==
  /\ rep \in Replica
  /\ QueueFits(d, c, rep, queued)
  /\ ReplicaFits(d, UserOf[c], rep)
  /\ TaskFits(rep, tsk, cl)
  /\ CallFits(d, t, UserOf[c], rep, cl, queued)

Domains ==
  /\ replica = [c \in Devices |-> replica[c]]
  /\ DOMAIN task = Devices /\ DOMAIN call = Devices
  /\ DOMAIN enqueued = Devices /\ token \in [Devices -> Tokens]
  /\ faults \in 0 .. MaxFaults

SyncInvariant ==
  /\ Domains
  /\ TxnFits(db, txn)
  /\ \A r \in orphans : \E u \in Users : RequestFits(u, Offered, r)
  /\ \A c \in Devices : DeviceFits(db, txn, c, replica[c], task[c], call[c], enqueued[c])

-----------------------------------------------------------------------------
(* Databases that grow.                                                      *)

\* A database grows from itself.
LEMMA GrowsFromItself ==
  ASSUME NEW d \in Database
  PROVE  Grows(d, d)
<1>1. Len(d.changes) \in Nat
  BY DEF Database
<1>. QED
  BY <1>1 DEF Grows

\* Growth adds up.
LEMMA GrowsTwice ==
  ASSUME NEW d \in Database, NEW w \in Database, NEW x \in Database, Grows(d, w), Grows(w, x)
  PROVE  Grows(d, x)
<1>1. Len(d.changes) \in Nat /\ Len(w.changes) \in Nat /\ Len(x.changes) \in Nat
  BY DEF Database
<1>2. \A i \in 1 .. Len(d.changes) : x.changes[i] = d.changes[i]
  BY <1>1 DEF Grows
<1>3. ASSUME NEW k \in Keys, Untouched(x, k, Len(d.changes))
      PROVE  x.rows[k] = d.rows[k]
  <2>1. Untouched(x, k, Len(w.changes))
    BY <1>1, <1>3 DEF Grows, Untouched
  <2>2. Untouched(w, k, Len(d.changes))
    BY <1>1, <1>3 DEF Grows, Untouched
  <2>. QED
    BY <2>1, <2>2 DEF Grows
<1>. QED
  BY <1>1, <1>2, <1>3 DEF Grows

\* A captured write lets the database grow and touches its row.
LEMMA WriteGrows ==
  ASSUME NEW d \in Database, LogDense(d), NEW k \in Keys, NEW new \in Values \cup {NoRow},
         NEW actor \in Actors, NEW mutation \in MutationIds \cup {NoMutation}
  PROVE  /\ Grows(d, Write(d, k, new, actor, mutation))
         /\ Touched(Write(d, k, new, actor, mutation), k, Len(d.changes))
<1> DEFINE n == Len(d.changes)
           w == Write(d, k, new, actor, mutation)
           c == CapturedChange(d, k, new, actor, mutation)
<1>1. WriteEffect(d, k, new, actor, mutation, n, w, c)
  BY WriteFields
<1>2. w.schema = d.schema /\ w.policy = d.policy
  BY DEF Write, Database
<1>3. d.rows \in Rows
  BY DEF Database
<1> HIDE DEF w, c
<1>4. n \in Nat /\ Len(w.changes) = n + 1 /\ w.changes[n + 1].key = k
  BY <1>1 DEF WriteEffect
<1>5. Touched(w, k, n)
  BY <1>4 DEF Touched
<1>6. ASSUME NEW j \in Keys, Untouched(w, j, n)
      PROVE  w.rows[j] = d.rows[j]
  <2>1. j # k
    BY <1>4, <1>6 DEF Untouched
  <2>. QED
    BY <1>1, <1>3, <2>1 DEF WriteEffect, Rows
<1>. QED
  BY <1>1, <1>2, <1>4, <1>5, <1>6 DEF WriteEffect, Grows, w

\* What was received or touched stays so.
LEMMA ResultGrows ==
  ASSUME NEW w \in Database, NEW x \in Database, Grows(w, x), NEW n, NEW u, NEW m, NEW result,
         ResultFits(w, n, u, m, result)
  PROVE  ResultFits(x, n, u, m, result)
<1>1. Len(w.changes) \in Nat /\ Len(x.changes) \in Nat
  BY DEF Database
<1>2. Received(w, u, m) => Received(x, u, m)
  BY DEF Received, Grows
<1>3. Touched(w, m.key, n) => Touched(x, m.key, n)
  BY <1>1 DEF Touched, Grows
<1>. QED
  BY <1>2, <1>3 DEF ResultFits

\* One pushed mutation: the database grows, and its result is what happened.
LEMMA ApplyGrows ==
  ASSUME NEW d \in Database, LogDense(d), NEW u \in Users, NEW t \in Tokens, NEW m \in Mutation
  PROVE  /\ Grows(d, ApplySyncMutation(d, u, t, m))
         /\ ResultFits(ApplySyncMutation(d, u, t, m), Len(d.changes), u, m, MutationStatus(d, u, t, m))
<1> DEFINE new == IF m.op = "delete" THEN NoRow ELSE m.value
           w == Write(d, m.key, new, u, m.id)
           r == [subject |-> u, client |-> t, mutation |-> m,
                 sequence |-> w.changes[Len(w.changes)].sequence,
                 row_version |-> w.changes[Len(w.changes)].row_version]
           a == [w EXCEPT !.mutations = @ \cup {r}]
           s == MutationStatus(d, u, t, m)
<1>1. ApplySyncMutation(d, u, t, m) = IF s = "applied" THEN a ELSE d
  BY Zenon DEF ApplySyncMutation
<1>2. CASE s = "applied"
  <2>1. new \in Values \cup {NoRow} /\ m.key \in Keys /\ m.id \in MutationIds /\ u \in Actors
    BY DEF Mutation, Actors
  <2>2. Grows(d, w) /\ Touched(w, m.key, Len(d.changes))
    BY <2>1, WriteGrows
  <2>3. w \in Database
    BY <2>1, WriteType
  <2> HIDE DEF w, new
  <2>4. r.subject = u /\ r.mutation = m
    OBVIOUS
  <2> HIDE DEF r
  <2>5. /\ a.mutations = w.mutations \cup {r} /\ a.changes = w.changes /\ a.rows = w.rows
        /\ a.schema = w.schema /\ a.policy = w.policy /\ a.base_sequence = w.base_sequence
    BY <2>3 DEF Database
  <2> HIDE DEF a
  <2>6. Grows(d, a)
    BY <2>2, <2>5 DEF Grows, Untouched
  <2>7. Received(a, u, m)
    BY <2>4, <2>5 DEF Received
  <2>8. Touched(a, m.key, Len(d.changes))
    BY <2>2, <2>5 DEF Touched
  <2>. QED
    BY <1>1, <1>2, <2>6, <2>7, <2>8 DEF ResultFits
<1>3. CASE s = "duplicate"
  <2>1. Received(d, u, m)
    BY <1>3 DEF MutationStatus, StoredMutations, Received
  <2>. QED
    BY <1>1, <1>3, <2>1, GrowsFromItself DEF ResultFits
<1>4. CASE s = "rejected"
  BY <1>1, <1>4, GrowsFromItself DEF ResultFits
<1>5. s \in Status
  BY ApplyType
<1>. QED
  BY <1>2, <1>3, <1>4, <1>5 DEF Status

\* A key that is untouched behind a position in the log that grew was
\* untouched before and kept its row.
LEMMA UntouchedGrows ==
  ASSUME NEW d \in Database, NEW w \in Database, Grows(d, w), NEW k \in Keys,
         NEW s \in Nat, s <= Len(d.changes), Untouched(w, k, s)
  PROVE  /\ Untouched(d, k, s) /\ w.rows[k] = d.rows[k]
         /\ \A i \in 1 .. Len(d.changes) : IsLastOf(d, k, i) => IsLastOf(w, k, i)
<1>1. Len(d.changes) \in Nat /\ Len(w.changes) \in Nat
  BY DEF Database
<1>2. Untouched(d, k, s)
  BY <1>1 DEF Untouched, Grows
<1>3. Untouched(w, k, Len(d.changes))
  BY <1>1 DEF Untouched
<1>4. ASSUME NEW i \in 1 .. Len(d.changes), IsLastOf(d, k, i)
      PROVE  IsLastOf(w, k, i)
  <2>1. /\ \A j \in 1 .. Len(d.changes) : w.changes[j] = d.changes[j]
        /\ Len(d.changes) <= Len(w.changes)
    BY DEF Grows
  <2>2. ASSUME NEW j \in 1 .. Len(w.changes), j > i
        PROVE  w.changes[j].key # k
    <3>1. CASE j \in 1 .. Len(d.changes)
      BY <1>4, <2>1, <2>2, <3>1 DEF IsLastOf
    <3>2. CASE j > Len(d.changes)
      BY <1>3, <3>2 DEF Untouched
    <3>. QED
      BY <1>1, <3>1, <3>2
  <2>. QED
    BY <1>1, <1>4, <2>1, <2>2 DEF IsLastOf
<1>. QED
  BY <1>2, <1>3, <1>4 DEF Grows

\* A cursor stays good while the log grows.
LEMMA PositionGrows ==
  ASSUME NEW d \in Database, NEW w \in Database, Grows(d, w), NEW p, PositionFits(d, p)
  PROVE  PositionFits(w, p)
<1>1. Len(d.changes) \in Nat /\ Len(w.changes) \in Nat
  BY DEF Database
<1>. QED
  BY <1>1 DEF PositionFits, Grows, Position

\* A replica stays in order while the log grows.
LEMMA ReplicaGrows ==
  ASSUME NEW d \in Database, NEW w \in Database, Grows(d, w), NEW u, NEW rep,
         ReplicaFits(d, u, rep)
  PROVE  ReplicaFits(w, u, rep)
<1> SUFFICES ASSUME rep.position # NoPosition
             PROVE  /\ PositionFits(w, rep.position)
                    /\ \A k \in Keys : rep.rows[k].sequence <= rep.position.sequence
                    /\ rep.position.schema = w.schema =>
                         \A k \in Keys :
                           Unqueued(rep.pending, k) /\ Untouched(w, k, rep.position.sequence)
                             => Shows(w, u, k, rep.rows[k])
  BY DEF ReplicaFits
<1>1. PositionFits(d, rep.position) /\ \A k \in Keys : rep.rows[k].sequence <= rep.position.sequence
  BY DEF ReplicaFits
<1>2. PositionFits(w, rep.position)
  BY <1>1, PositionGrows
<1>3. ASSUME rep.position.schema = w.schema, NEW k \in Keys, Unqueued(rep.pending, k),
             Untouched(w, k, rep.position.sequence)
      PROVE  Shows(w, u, k, rep.rows[k])
  <2>1. rep.position.schema = d.schema /\ w.policy = d.policy
    BY <1>3 DEF Grows
  <2>2. rep.position.sequence \in Nat /\ rep.position.sequence <= Len(d.changes)
    BY <1>1, <2>1 DEF PositionFits, Position
  <2>3. /\ Untouched(d, k, rep.position.sequence) /\ w.rows[k] = d.rows[k]
        /\ \A i \in 1 .. Len(d.changes) : IsLastOf(d, k, i) => IsLastOf(w, k, i)
    BY <1>3, <2>2, UntouchedGrows
  <2>4. Shows(d, u, k, rep.rows[k])
    BY <1>3, <2>1, <2>3 DEF ReplicaFits
  <2>5. Len(d.changes) \in Nat /\ Len(w.changes) \in Nat
    BY DEF Database
  <2>6. ASSUME NEW i \in 1 .. Len(d.changes), IsLastOf(d, k, i), ~Visible(d, u, d.changes[i])
        PROVE  i \in 1 .. Len(w.changes) /\ IsLastOf(w, k, i) /\ ~Visible(w, u, w.changes[i])
    BY <2>1, <2>3, <2>5, <2>6 DEF Visible, Grows
  <2>. QED
    BY <2>1, <2>3, <2>4, <2>6 DEF Shows
<1>. QED
  BY <1>1, <1>2, <1>3

\* A snapshot on its way stays good while the log grows.
LEMMA SnapshotGrows ==
  ASSUME NEW d \in Database, NEW w \in Database, Grows(d, w), NEW u, NEW answer,
         SnapshotFits(d, u, answer)
  PROVE  SnapshotFits(w, u, answer)
<1> DEFINE p == answer.position
<1>1. PositionFits(d, p)
  BY DEF SnapshotFits
<1>2. PositionFits(w, p)
  BY <1>1, PositionGrows
<1>3. ASSUME p.schema = w.schema, NEW k \in Keys, Untouched(w, k, p.sequence)
      PROVE  /\ k \in DOMAIN answer.rows <=> w.rows[k] \in Readable[w.policy][u]
             /\ k \in DOMAIN answer.rows => answer.rows[k].value = w.rows[k]
  <2>1. p.schema = d.schema /\ w.policy = d.policy
    BY <1>3 DEF Grows
  <2>2. p.sequence \in Nat /\ p.sequence <= Len(d.changes)
    BY <1>1, <2>1 DEF PositionFits, Position
  <2>3. Untouched(d, k, p.sequence) /\ w.rows[k] = d.rows[k]
    BY <1>3, <2>2, UntouchedGrows
  <2>. QED
    BY <1>3, <2>1, <2>3 DEF SnapshotFits
<1>. QED
  BY <1>2, <1>3 DEF SnapshotFits

\* So does a page.
LEMMA PageGrows ==
  ASSUME NEW d \in Database, NEW w \in Database, Grows(d, w), NEW u, NEW p, p.sequence \in Nat,
         NEW answer, PageFits(d, u, p, answer)
  PROVE  PageFits(w, u, p, answer)
<1> SUFFICES ASSUME ~answer.control
             PROVE  PageFits(w, u, p, answer)
  BY DEF PageFits
<1>1. /\ PositionFits(d, answer.cursor) /\ answer.cursor.schema = p.schema
      /\ p.sequence <= answer.cursor.sequence
      /\ \A change \in answer.changes :
           change \in Change /\ change.sequence \in (p.sequence + 1) .. answer.cursor.sequence
  BY DEF PageFits
<1>2. PositionFits(w, answer.cursor)
  BY <1>1, PositionGrows
<1>3. ASSUME answer.cursor.schema = w.schema
      PROVE  /\ \A change \in answer.changes :
                  change = w.changes[change.sequence] /\ Visible(w, u, change)
             /\ \A i \in (p.sequence + 1) .. answer.cursor.sequence :
                  Visible(w, u, w.changes[i]) => w.changes[i] \in answer.changes
  <2>1. answer.cursor.schema = d.schema /\ w.policy = d.policy
    BY <1>3 DEF Grows
  <2>2. answer.cursor.sequence \in Nat /\ answer.cursor.sequence <= Len(d.changes)
    BY <1>1, <2>1 DEF PositionFits, Position
  <2>3. Len(d.changes) \in Nat
    BY DEF Database
  <2>4. \A i \in (p.sequence + 1) .. answer.cursor.sequence : w.changes[i] = d.changes[i]
    BY <2>2, <2>3 DEF Grows
  <2>5. /\ \A change \in answer.changes :
             change = d.changes[change.sequence] /\ Visible(d, u, change)
        /\ \A i \in (p.sequence + 1) .. answer.cursor.sequence :
             Visible(d, u, d.changes[i]) => d.changes[i] \in answer.changes
    BY <2>1 DEF PageFits
  <2>. QED
    BY <1>1, <2>1, <2>4, <2>5 DEF Visible
<1>. QED
  BY <1>1, <1>2, <1>3 DEF PageFits

\* So do the results of a push.
LEMMA PushGrows ==
  ASSUME NEW d \in Database, NEW w \in Database, Grows(d, w), NEW rep, NEW request, NEW results,
         PushFits(d, rep, request, results)
  PROVE  PushFits(w, rep, request, results)
<1>1. Len(d.changes) \in Nat /\ Len(w.changes) \in Nat
  BY DEF Database
<1>2. \A u, m : Received(d, u, m) => Received(w, u, m)
  BY DEF Received, Grows
<1>3. \A k, s : Touched(d, k, s) => Touched(w, k, s)
  BY <1>1 DEF Touched, Grows
<1>4. w.schema = d.schema
  BY DEF Grows
<1>. QED
  BY <1>2, <1>3, <1>4 DEF PushFits

\* A device stays in order while the database grows.
LEMMA DeviceGrows ==
  ASSUME NEW d \in Database, NEW w \in Database, Grows(d, w), NEW t, NEW c,
         NEW rep, NEW tsk, NEW cl, NEW queued, DeviceFits(d, t, c, rep, tsk, cl, queued)
  PROVE  DeviceFits(w, t, c, rep, tsk, cl, queued)
<1>1. QueueFits(w, c, rep, queued)
  <2>1. \A u, m : Received(d, u, m) => Received(w, u, m)
    BY DEF Received, Grows
  <2>. QED
    BY <2>1 DEF DeviceFits, QueueFits
<1>2. ReplicaFits(w, UserOf[c], rep)
  BY ReplicaGrows DEF DeviceFits
<1>3. cl.kind = "pull" => rep.position.sequence \in Nat
  BY DEF DeviceFits, TaskFits, ReplicaFits, PositionFits, Position
<1>4. cl.kind = "snapshot" /\ cl.state = "done" => SnapshotFits(w, UserOf[c], cl.response)
  BY SnapshotGrows DEF DeviceFits, CallFits
<1>5. cl.kind = "pull" /\ cl.state = "done" => PageFits(w, UserOf[c], rep.position, cl.response)
  BY <1>3, PageGrows DEF DeviceFits, CallFits
<1>6. cl.kind = "push" /\ cl.state = "done" => PushFits(w, rep, cl.request, cl.response)
  BY PushGrows DEF DeviceFits, CallFits
<1>7. CallFits(w, t, UserOf[c], rep, cl, queued)
  BY <1>4, <1>5, <1>6 DEF DeviceFits, CallFits
<1>. QED
  BY <1>1, <1>2, <1>7 DEF DeviceFits

\* A migration makes every cursor and every answer one of an older schema.
LEMMA DeviceMigrates ==
  ASSUME NEW d \in Database, NEW w \in Database, w.schema = d.schema + 1,
         w.mutations = d.mutations, NEW t, NEW c,
         NEW rep, NEW tsk, NEW cl, NEW queued, DeviceFits(d, t, c, rep, tsk, cl, queued)
  PROVE  DeviceFits(w, t, c, rep, tsk, cl, queued)
<1>0. d.schema \in Nat
  BY DEF Database
<1>1. \A p : PositionFits(d, p) => PositionFits(w, p) /\ p.schema # w.schema
  BY <1>0 DEF PositionFits, Position
<1>2. \A u, m : Received(d, u, m) => Received(w, u, m)
  BY DEF Received
<1>3. QueueFits(w, c, rep, queued)
  BY <1>2 DEF DeviceFits, QueueFits
<1>4. ReplicaFits(w, UserOf[c], rep)
  BY <1>1 DEF DeviceFits, ReplicaFits
<1>5. cl.kind = "snapshot" /\ cl.state = "done" => SnapshotFits(w, UserOf[c], cl.response)
  BY <1>1 DEF DeviceFits, CallFits, SnapshotFits
<1>6. cl.kind = "pull" /\ cl.state = "done" => PageFits(w, UserOf[c], rep.position, cl.response)
  BY <1>1 DEF DeviceFits, CallFits, PageFits
<1>7. cl.kind = "push" /\ cl.state = "done" => PushFits(w, rep, cl.request, cl.response)
  <2> SUFFICES ASSUME cl.kind = "push" /\ cl.state = "done"
               PROVE  PushFits(w, rep, cl.request, cl.response)
    OBVIOUS
  <2>1. PushFits(d, rep, cl.request, cl.response)
    BY DEF DeviceFits, CallFits
  <2>2. rep.position # NoPosition => rep.position.schema # w.schema
    BY <1>1 DEF DeviceFits, ReplicaFits
  <2>. QED
    BY <1>2, <2>1, <2>2 DEF PushFits
<1>8. CallFits(w, t, UserOf[c], rep, cl, queued)
  BY <1>5, <1>6, <1>7 DEF DeviceFits, CallFits
<1>. QED
  BY <1>3, <1>4, <1>8 DEF DeviceFits

-----------------------------------------------------------------------------
(* The operators of the replica adapter.                                     *)

\* Every element of a bounded set of positions has its place, and every place
\* is taken.
LEMMA Places ==
  ASSUME NEW K, K \subseteq Nat, NEW n \in Nat, \A i \in K : i <= n
  PROVE  /\ Cardinality(K) \in Nat
         /\ \A i \in K : Cardinality({h \in K : h <= i}) \in 1 .. Cardinality(K)
         /\ \A i, j \in K : Cardinality({h \in K : h <= i}) = Cardinality({h \in K : h <= j}) => i = j
         /\ \A p \in 1 .. Cardinality(K) : \E i \in K : Cardinality({h \in K : h <= i}) = p
<1> DEFINE Upto(i) == {h \in K : h <= i}
           N == Cardinality(K)
           rank == [i \in K |-> Cardinality(Upto(i))]
<1>1. IsFiniteSet(K) /\ N \in Nat
  BY FS_BoundedSetOfNaturals, FS_CardinalityType
<1>2. \A i \in K : i \in Nat
  OBVIOUS
<1>3. ASSUME NEW i \in K
      PROVE  IsFiniteSet(Upto(i)) /\ Cardinality(Upto(i)) \in 1 .. N
  <2>1. Upto(i) \in SUBSET K /\ i \in Upto(i)
    BY <1>2
  <2> HIDE DEF Upto
  <2>2. IsFiniteSet(Upto(i)) /\ Cardinality(Upto(i)) <= N /\ Cardinality(Upto(i)) \in Nat
    BY <1>1, <2>1, FS_Subset, FS_CardinalityType
  <2>3. Cardinality(Upto(i)) # 0
    BY <2>1, <2>2, FS_EmptySet
  <2>. QED
    BY <1>1, <2>2, <2>3
<1>4. ASSUME NEW i \in K, NEW j \in K, i < j
      PROVE  Cardinality(Upto(i)) < Cardinality(Upto(j))
  <2>1. Upto(i) \in SUBSET Upto(j) /\ j \in Upto(j) /\ j \notin Upto(i)
    <3>1. ASSUME NEW h \in K, h <= i PROVE h <= j
      BY <1>2, <1>4, <3>1
    <3>2. j <= j /\ ~(j <= i)
      BY <1>2, <1>4
    <3>. QED
      BY <3>1, <3>2
  <2>2. /\ IsFiniteSet(Upto(j)) /\ Cardinality(Upto(j)) \in 1 .. N
        /\ Cardinality(Upto(i)) \in 1 .. N
    BY <1>3
  <2> HIDE DEF Upto, N
  <2>3. Cardinality(Upto(i)) <= Cardinality(Upto(j)) /\ Cardinality(Upto(i)) # Cardinality(Upto(j))
    BY <2>1, <2>2, FS_Subset
  <2>. QED
    BY <1>1, <2>2, <2>3
<1> HIDE DEF Upto
<1>5. \A i, j \in K : Cardinality(Upto(i)) = Cardinality(Upto(j)) => i = j
  <2> SUFFICES ASSUME NEW i \in K, NEW j \in K, i # j
               PROVE  Cardinality(Upto(i)) # Cardinality(Upto(j))
    OBVIOUS
  <2>1. i < j \/ j < i
    BY <1>2
  <2>2. Cardinality(Upto(i)) \in 1 .. N /\ Cardinality(Upto(j)) \in 1 .. N
    BY <1>3
  <2> HIDE DEF N
  <2>. QED
    BY <1>1, <1>4, <2>1, <2>2
<1>6. rank \in Injection(K, 1 .. N)
  <2>1. rank \in [K -> 1 .. N]
    BY <1>3
  <2>2. \A i, j \in K : rank[i] = rank[j] => i = j
    BY <1>5
  <2> HIDE DEF rank
  <2>. QED
    BY <2>1, <2>2 DEF Injection, IsInjective
<1>7. IsFiniteSet(1 .. N) /\ Cardinality(1 .. N) = N
  <2> HIDE DEF N
  <2>1. 1 \in Int /\ N \in Int
    BY <1>1
  <2>2. IsFiniteSet(1 .. N) /\ Cardinality(1 .. N) = IF 1 > N THEN 0 ELSE N - 1 + 1
    BY <2>1, FS_Interval
  <2>. QED
    BY <1>1, <2>2
<1>8. rank \in Surjection(K, 1 .. N)
  <2> HIDE DEF rank
  <2>. QED
    BY <1>6, <1>7, FS_Injection
<1>9. \A p \in 1 .. N : \E i \in K : rank[i] = p
  <2> HIDE DEF rank
  <2>. QED
    BY <1>8 DEF Surjection
<1>10. \A p \in 1 .. N : \E i \in K : Cardinality(Upto(i)) = p
  BY <1>9
<1>. QED
  BY <1>1, <1>3, <1>5, <1>10 DEF Upto

\* rest holds the mutations of pending whose ids are not among ids.
Remains(pending, ids, rest) ==
  /\ rest \in Seq(Mutation)
  /\ \A j \in 1 .. Len(rest) : \E i \in 1 .. Len(pending) :
       rest[j] = pending[i] /\ pending[i].id \notin ids
  /\ \A i \in 1 .. Len(pending) : pending[i].id \notin ids =>
       \E j \in 1 .. Len(rest) : rest[j] = pending[i]

\* Removing ids from a queue keeps exactly the other mutations.
LEMMA WithoutKeeps ==
  ASSUME NEW pending \in Seq(Mutation), NEW ids
  PROVE  Remains(pending, ids, Without(pending, ids))
<1> DEFINE K == {i \in 1 .. Len(pending) : pending[i].id \notin ids}
           Rank(i) == Cardinality({h \in K : h <= i})
           place(j) == CHOOSE i \in K : Rank(i) = j
           N == Cardinality(K)
           w == [j \in 1 .. N |-> pending[place(j)]]
<1>1. Without(pending, ids) = w
  BY DEF Without
<1>2. Len(pending) \in Nat /\ K \subseteq Nat /\ \A i \in K : i <= Len(pending)
  OBVIOUS
<1>3. \A i \in K : i \in 1 .. Len(pending) /\ pending[i].id \notin ids
  OBVIOUS
<1>3a. \A i \in 1 .. Len(pending) : pending[i].id \notin ids => i \in K
  OBVIOUS
<1> HIDE DEF K
<1>4. /\ N \in Nat
      /\ \A i \in K : Rank(i) \in 1 .. N
      /\ \A i, j \in K : Rank(i) = Rank(j) => i = j
      /\ \A p \in 1 .. N : \E i \in K : Rank(i) = p
  BY <1>2, Places
<1> HIDE DEF Rank, N
<1>5. \A p \in 1 .. N : place(p) \in K /\ Rank(place(p)) = p
  BY <1>4
<1> HIDE DEF place
<1>6. \A p \in 1 .. N : pending[place(p)] \in Mutation
  BY <1>3, <1>5
<1>7. w \in Seq(Mutation) /\ Len(w) = N /\ \A p \in 1 .. N : w[p] = pending[place(p)]
  BY <1>4, <1>6
<1> HIDE DEF w
<1>8. ASSUME NEW i \in 1 .. Len(pending), pending[i].id \notin ids
      PROVE  \E j \in 1 .. Len(w) : w[j] = pending[i]
  <2>1. i \in K
    BY <1>3a, <1>8
  <2>2. Rank(i) \in 1 .. N /\ place(Rank(i)) = i
    BY <1>4, <1>5, <2>1
  <2>. QED
    BY <1>7, <2>2
<1>9. ASSUME NEW j \in 1 .. Len(w)
      PROVE  \E i \in 1 .. Len(pending) : w[j] = pending[i] /\ pending[i].id \notin ids
  BY <1>3, <1>5, <1>7
<1>. QED
  BY <1>1, <1>7, <1>8, <1>9 DEF Remains

\* A queue without its last mutation.
LEMMA FrontFacts ==
  ASSUME NEW S, NEW s \in Seq(S), NEW n \in Nat, n <= Len(s), NEW front, front = SubSeq(s, 1, n)
  PROVE  front \in Seq(S) /\ Len(front) = n /\ \A i \in 1 .. n : front[i] = s[i]
OBVIOUS

\* Two mutations as a sequence.
LEMMA PairFacts ==
  ASSUME NEW S, NEW a \in S, NEW b \in S, NEW pair, pair = <<a, b>>
  PROVE  pair \in Seq(S) /\ Len(pair) = 2 /\ pair[1] = a /\ pair[2] = b
OBVIOUS

\* Two sequences one after the other.
LEMMA JoinFacts ==
  ASSUME NEW S, NEW s \in Seq(S), NEW t \in Seq(S), NEW q, q = s \o t
  PROVE  /\ q \in Seq(S) /\ Len(q) = Len(s) + Len(t)
         /\ \A i \in 1 .. Len(s) : q[i] = s[i]
         /\ \A i \in 1 .. Len(t) : q[Len(s) + i] = t[i]
OBVIOUS

\* q holds m and the mutations of pending.
Extends(pending, m, q) ==
  /\ q \in Seq(Mutation)
  /\ \A j \in 1 .. Len(q) : q[j] = m \/ \E i \in 1 .. Len(pending) : q[j] = pending[i]
  /\ \E j \in 1 .. Len(q) : q[j] = m
  /\ \A i \in 1 .. Len(pending) : \E j \in 1 .. Len(q) : q[j] = pending[i]

\* Queueing a mutation adds it and keeps the others, wherever it is sorted.
LEMMA QueuedKeeps ==
  ASSUME NEW pending \in Seq(Mutation), NEW m \in Mutation, NEW same,
         NEW q, q = Queued(pending, m, same)
  PROVE  Extends(pending, m, q)
<1>0. Len(pending) \in Nat
  OBVIOUS
<1>1. PICK n \in Nat : n = Len(pending)
  BY <1>0
<1>2. CASE q = Append(pending, m)
  <2>1. q \in Seq(Mutation) /\ Len(q) = n + 1 /\ q[n + 1] = m /\ \A i \in 1 .. n : q[i] = pending[i]
    BY <1>1, <1>2
  <2>2. Len(pending) = n
    BY <1>1
  <2>. QED
    BY <2>1, <2>2 DEF Extends
<1>3. CASE pending # <<>> /\ q = SubSeq(pending, 1, Len(pending) - 1) \o <<m, pending[Len(pending)]>>
  <2>1. n >= 1 /\ n - 1 \in Nat /\ n - 1 <= Len(pending) /\ pending[n] \in Mutation
    BY <1>1, <1>3
  <2>2. PICK front : front = SubSeq(pending, 1, n - 1)
    OBVIOUS
  <2>3. PICK back : back = <<m, pending[n]>>
    OBVIOUS
  <2>4. front \in Seq(Mutation) /\ Len(front) = n - 1 /\ \A i \in 1 .. n - 1 : front[i] = pending[i]
    BY <2>1, <2>2, FrontFacts
  <2>5. back \in Seq(Mutation) /\ Len(back) = 2 /\ back[1] = m /\ back[2] = pending[n]
    BY <2>1, <2>3, PairFacts
  <2>6. q = front \o back
    BY <1>1, <1>3, <2>2, <2>3
  <2>7. /\ q \in Seq(Mutation) /\ Len(q) = Len(front) + Len(back)
        /\ \A i \in 1 .. Len(front) : q[i] = front[i]
        /\ \A i \in 1 .. Len(back) : q[Len(front) + i] = back[i]
    <3>1. front \in Seq(Mutation) /\ back \in Seq(Mutation)
      BY <2>4, <2>5
    <3>. QED
      BY <2>6, <3>1, JoinFacts
  <2>8. Len(q) = n + 1 /\ \A i \in 1 .. n - 1 : q[i] = pending[i]
    BY <2>1, <2>4, <2>5, <2>7
  <2>9. 1 \in 1 .. Len(back) /\ 2 \in 1 .. Len(back) /\ Len(front) + 1 = n /\ Len(front) + 2 = n + 1
    BY <2>1, <2>4, <2>5
  <2>10. q[n] = m /\ q[n + 1] = pending[n]
    BY <2>5, <2>7, <2>9
  <2>11. Len(pending) = n
    BY <1>1
  <2>12. ASSUME NEW j \in 1 .. n + 1
         PROVE  q[j] = m \/ \E i \in 1 .. n : q[j] = pending[i]
    <3>1. j \in 1 .. n - 1 \/ j = n \/ j = n + 1
      BY <2>1
    <3>2. n \in 1 .. n /\ \A i \in 1 .. n - 1 : i \in 1 .. n
      BY <2>1
    <3>. QED
      BY <2>8, <2>10, <3>1, <3>2
  <2>13. ASSUME NEW i \in 1 .. n
         PROVE  \E j \in 1 .. n + 1 : q[j] = pending[i]
    <3>1. i \in 1 .. n - 1 \/ i = n
      BY <2>1
    <3>2. n + 1 \in 1 .. n + 1 /\ i \in 1 .. n + 1
      BY <2>1
    <3>. QED
      BY <2>8, <2>10, <3>1, <3>2
  <2>14. n \in 1 .. n + 1
    BY <2>1
  <2>. QED
    BY <2>7, <2>8, <2>10, <2>11, <2>12, <2>13, <2>14 DEF Extends
<1>. QED
  BY <1>2, <1>3 DEF Queued

\* An optimistic write keeps the server's sequence or drops it.
LEMMA OptimisticFacts ==
  ASSUME NEW entry \in Entry, NEW m \in Mutation
  PROVE  /\ Optimistic(entry, m) \in Entry /\ Absent \in Entry
         /\ Optimistic(entry, m).sequence \in {entry.sequence, -1}
         /\ Absent.sequence = -1
BY DEF Optimistic, Absent, Entry, Mutation

\* Showing the queue again touches the rows of queued mutations only, and
\* makes no row newer.
LEMMA ReappliedFacts ==
  ASSUME NEW rows \in [Keys -> Entry], NEW pending \in Seq(Mutation), NEW s \in Nat,
         \A k \in Keys : rows[k].sequence <= s, NEW new, new = Reapplied(rows, pending)
  PROVE  /\ new \in [Keys -> Entry]
         /\ \A k \in Keys : new[k].sequence <= s
         /\ \A k \in Keys : Unqueued(pending, k) => new[k] = rows[k]
<1>1. ASSUME NEW k \in Keys
      PROVE  /\ new[k] \in Entry /\ new[k].sequence <= s
             /\ Unqueued(pending, k) => new[k] = rows[k]
  <2> DEFINE mine == {i \in 1 .. Len(pending) : pending[i].key = k}
             last == Max(mine)
             deleted == \E i \in mine : i < last /\ pending[i].op = "delete"
             from == IF deleted THEN Absent ELSE rows[k]
  <2>1. new[k] = IF mine = {} THEN rows[k] ELSE Optimistic(from, pending[last])
    BY Zenon DEF Reapplied
  <2>2. Unqueued(pending, k) => mine = {}
    BY DEF Unqueued
  <2>3. Len(pending) \in Nat /\ mine \subseteq Nat /\ \A i \in mine : i <= Len(pending) /\ i \in 1 .. Len(pending)
    OBVIOUS
  <2>4. rows[k] \in Entry /\ rows[k].sequence <= s /\ rows[k].sequence \in Nat \cup {-1}
    BY DEF Entry
  <2> HIDE DEF mine
  <2>5. ASSUME mine # {}
        PROVE  pending[last] \in Mutation
    <3>1. PICK m \in mine : \A i \in mine : i <= m
      BY <2>3, <2>5, GreatestExists
    <3>2. \A i \in mine : m >= i
      BY <2>3, <3>1
    <3>3. last \in mine
      BY <3>1, <3>2 DEF Max
    <3> HIDE DEF last
    <3>. QED
      BY <2>3, <3>3
  <2> HIDE DEF last, deleted
  <2>6. from \in Entry /\ from.sequence <= s
    <3>1. Absent \in Entry /\ Absent.sequence = -1 /\ -1 <= s
      BY DEF Absent, Entry
    <3>. QED
      BY <2>4, <3>1
  <2> HIDE DEF from
  <2>7. ASSUME mine # {}
        PROVE  new[k] \in Entry /\ new[k].sequence <= s
    <3>1. /\ Optimistic(from, pending[last]) \in Entry
          /\ Optimistic(from, pending[last]).sequence \in {from.sequence, -1}
      BY <2>5, <2>6, <2>7, OptimisticFacts
    <3>2. -1 <= s
      OBVIOUS
    <3>. QED
      BY <2>1, <2>6, <2>7, <3>1, <3>2
  <2>. QED
    BY <2>1, <2>2, <2>4, <2>7
<1>2. new = [k \in Keys |-> new[k]]
  BY DEF Reapplied
<1>3. new \in [Keys -> Entry]
  BY <1>1, <1>2
<1>. QED
  BY <1>1, <1>3

\* A page applied to rows that are not newer than where it begins: a key the
\* page does not mention keeps its row, and another one gets the row of its
\* last change.
LEMMA AppliedPageFacts ==
  ASSUME NEW rows \in [Keys -> Entry], NEW from \in Nat, NEW to \in Nat, from <= to,
         \A k \in Keys : rows[k].sequence <= from, NEW changes,
         \A c \in changes : c \in Change /\ c.sequence \in (from + 1) .. to,
         NEW new, new = AppliedPage(rows, changes)
  PROVE  /\ new \in [Keys -> Entry]
         /\ \A k \in Keys : new[k].sequence <= to
         /\ \A k \in Keys : (\A c \in changes : c.key # k) => new[k] = rows[k]
         /\ \A c \in changes : (\A other \in changes : other.key = c.key => other.sequence <= c.sequence
                                                         /\ (other.sequence = c.sequence => other = c))
              => new[c.key] = IF c.op = "delete" THEN Absent
                              ELSE [value |-> c.value, sequence |-> c.sequence]
<1> DEFINE Mine(k) == {c \in changes : c.key = k}
           Last(k) == CHOOSE c \in Mine(k) : \A other \in Mine(k) : other.sequence <= c.sequence
           After(c) == IF c.op = "delete" THEN Absent ELSE [value |-> c.value, sequence |-> c.sequence]
<1>1. \A k \in Keys : new[k] = IF Mine(k) = {} THEN rows[k] ELSE AppliedChange(rows[k], Last(k))
  BY Zenon DEF AppliedPage
<1>2. new = [k \in Keys |-> new[k]]
  BY DEF AppliedPage
<1>3. ASSUME NEW k \in Keys, Mine(k) # {}
      PROVE  Last(k) \in Mine(k) /\ \A other \in Mine(k) : other.sequence <= Last(k).sequence
  <2> DEFINE S == {c.sequence : c \in Mine(k)}
  <2>1. \A c \in Mine(k) : c.sequence \in Nat /\ c.sequence <= to
    OBVIOUS
  <2> HIDE DEF Mine
  <2>2. S \subseteq Nat /\ S # {} /\ \A i \in S : i <= to
    BY <1>3, <2>1
  <2>3. PICK m \in S : \A i \in S : i <= m
    BY <2>2, GreatestExists
  <2>4. PICK c \in Mine(k) : c.sequence = m
    BY <2>3
  <2>5. \A other \in Mine(k) : other.sequence <= c.sequence
    BY <2>3, <2>4
  <2>. QED
    BY <2>5
<1>4. \A k \in Keys : Mine(k) = {} <=> \A c \in changes : c.key # k
  OBVIOUS
<1>5. \A k : \A c \in Mine(k) : c \in changes /\ c.key = k
  OBVIOUS
<1>6. \A c \in changes : c.key \in Keys /\ c \in Mine(c.key)
  BY DEF Change
<1> HIDE DEF Mine, Last
<1>7. ASSUME NEW k \in Keys, NEW c \in changes
      PROVE  /\ AppliedChange(rows[k], c) = After(c) /\ After(c) \in Entry /\ After(c).sequence <= to
  <2>1. c \in Change /\ c.sequence \in Nat /\ from < c.sequence /\ c.sequence <= to
    OBVIOUS
  <2>2. rows[k] \in Entry /\ rows[k].sequence <= from /\ rows[k].sequence \in Nat \cup {-1}
    BY DEF Entry
  <2>3. ~(rows[k].sequence > c.sequence)
    BY <2>1, <2>2
  <2>4. AppliedChange(rows[k], c) = After(c)
    BY <2>3 DEF AppliedChange
  <2>5. After(c) \in Entry /\ After(c).sequence <= to
    <3>1. c.value \in Values \cup {NoRow}
      BY <2>1 DEF Change
    <3>. QED
      BY <2>1, <3>1 DEF Absent, Entry
  <2>. QED
    BY <2>4, <2>5
<1> HIDE DEF After
<1>8. ASSUME NEW k \in Keys
      PROVE  new[k] \in Entry /\ new[k].sequence <= to
  <2>1. rows[k] \in Entry /\ rows[k].sequence \in Nat \cup {-1} /\ rows[k].sequence <= from
    BY DEF Entry
  <2>2. rows[k].sequence <= to
    BY <2>1
  <2>. QED
    BY <1>1, <1>3, <1>5, <1>7, <2>1, <2>2
<1>9. ASSUME NEW c \in changes,
             \A other \in changes : other.key = c.key => other.sequence <= c.sequence
                                      /\ (other.sequence = c.sequence => other = c)
      PROVE  new[c.key] = After(c)
  <2>1. c.key \in Keys /\ c \in Mine(c.key)
    BY <1>6
  <2>2. Last(c.key) \in Mine(c.key) /\ c.sequence <= Last(c.key).sequence
    BY <1>3, <2>1
  <2>3. Last(c.key) \in changes /\ Last(c.key).key = c.key
    BY <1>5, <2>1, <2>2
  <2>4. c.sequence \in Nat /\ Last(c.key).sequence \in Nat
    BY <2>3
  <2>5. Last(c.key) = c
    BY <1>9, <2>2, <2>3, <2>4
  <2>. QED
    BY <1>1, <1>7, <2>1, <2>5
<1>10. new \in [Keys -> Entry]
  BY <1>2, <1>8
<1>11. \A k \in Keys : (\A c \in changes : c.key # k) => new[k] = rows[k]
  BY <1>1, <1>4
<1>. QED
  BY <1>8, <1>9, <1>10, <1>11 DEF After

-----------------------------------------------------------------------------
(* Steps of one device.                                                      *)

\* A step of device c that leaves the server and the other devices alone
\* keeps the invariant if it keeps c in order.
LEMMA OneDevice ==
  ASSUME SyncInvariant, NEW c \in Devices, UNCHANGED <<db, txn>>, Domains',
         \A r \in orphans' : \E u \in Users : RequestFits(u, Offered, r),
         \A e \in Devices \ {c} : /\ replica'[e] = replica[e] /\ task'[e] = task[e]
                                  /\ call'[e] = call[e] /\ enqueued'[e] = enqueued[e],
         DeviceFits(db, txn, c, replica'[c], task'[c], call'[c], enqueued'[c])
  PROVE  SyncInvariant'
<1>1. TxnFits(db', txn')
  BY DEF SyncInvariant
<1>2. ASSUME NEW e \in Devices
      PROVE  DeviceFits(db', txn', e, replica'[e], task'[e], call'[e], enqueued'[e])
  BY DEF SyncInvariant
<1>. QED
  BY <1>1, <1>2 DEF SyncInvariant

\* A device whose synchronisation ended is in order.
LEMMA IdleFits ==
  ASSUME NEW d, NEW t, NEW c, NEW rep, NEW queued,
         rep \in Replica, QueueFits(d, c, rep, queued), ReplicaFits(d, UserOf[c], rep)
  PROVE  DeviceFits(d, t, c, rep, Idle, NoCall, queued)
<1>1. TaskFits(rep, Idle, NoCall)
  BY DEF TaskFits, Idle, NoCall, Task, Stages, Snapshotting
<1>2. CallFits(d, t, UserOf[c], rep, NoCall, queued)
  BY DEF CallFits, NoCall
<1>. QED
  BY <1>1, <1>2 DEF DeviceFits

\* A device that asks for a snapshot is in order.
LEMMA AskSnapshotFits ==
  ASSUME NEW d, NEW t, NEW c, NEW rep, NEW tsk, NEW cl, NEW queued,
         DeviceFits(d, t, c, rep, tsk, cl, queued), NEW token0 \in Tokens,
         NEW stage \in Snapshotting, NEW tsk2 \in Task, tsk2.stage = stage, NEW cl2,
         cl2 = [kind |-> "snapshot", state |-> "sent", token |-> token0, request |-> NoPosition]
  PROVE  DeviceFits(d, t, c, rep, tsk2, cl2, queued)
<1>0. cl2.kind = "snapshot" /\ cl2.state = "sent" /\ cl2.token = token0
  OBVIOUS
<1>1. TaskFits(rep, tsk2, cl2)
  BY <1>0 DEF TaskFits, Snapshotting
<1>2. CallFits(d, t, UserOf[c], rep, cl2, queued)
  BY <1>0 DEF CallFits
<1>. QED
  BY <1>1, <1>2 DEF DeviceFits

\* A device that asks for the page behind its stored cursor is in order.
LEMMA AskPageFits ==
  ASSUME NEW d, NEW t, NEW c, NEW rep, NEW queued,
         rep \in Replica, QueueFits(d, c, rep, queued), ReplicaFits(d, UserOf[c], rep),
         rep.position # NoPosition, NEW token0 \in Tokens,
         NEW tsk2 \in Task, tsk2.stage = "pull", tsk2.position = rep.position, NEW cl2,
         cl2 = [kind |-> "pull", state |-> "sent", token |-> token0, request |-> rep.position]
  PROVE  DeviceFits(d, t, c, rep, tsk2, cl2, queued)
<1>0. /\ cl2.kind = "pull" /\ cl2.state = "sent" /\ cl2.token = token0
      /\ cl2.request = rep.position
  OBVIOUS
<1>1. TaskFits(rep, tsk2, cl2)
  BY <1>0 DEF TaskFits, Snapshotting
<1>2. CallFits(d, t, UserOf[c], rep, cl2, queued)
  BY <1>0 DEF CallFits
<1>. QED
  BY <1>1, <1>2 DEF DeviceFits

\* A device on its way to the next push is in order.
LEMMA PushStageFits ==
  ASSUME NEW d, NEW t, NEW c, NEW rep, NEW queued,
         rep \in Replica, QueueFits(d, c, rep, queued), ReplicaFits(d, UserOf[c], rep),
         NEW tsk2 \in Task, tsk2.stage = "push", tsk2.position \in Position,
         ~tsk2.snapshot => tsk2.position = rep.position
  PROVE  DeviceFits(d, t, c, rep, tsk2, NoCall, queued)
<1>1. TaskFits(rep, tsk2, NoCall)
  BY DEF TaskFits, Snapshotting, NoCall
<1>2. CallFits(d, t, UserOf[c], rep, NoCall, queued)
  BY DEF CallFits, NoCall
<1>. QED
  BY <1>1, <1>2 DEF DeviceFits

\* performSync begins with a snapshot or with the queue.
LEMMA StartSyncFits ==
  ASSUME SyncInvariant, NEW c \in Devices, StartSync(c)
  PROVE  SyncInvariant'
<1>1. /\ Domains /\ \A r \in orphans : \E u \in Users : RequestFits(u, Offered, r)
      /\ DeviceFits(db, txn, c, replica[c], task[c], call[c], enqueued[c])
  BY DEF SyncInvariant
<1>2. /\ task[c] \in Task /\ token[c] \in Tokens /\ replica[c] \in Replica
      /\ QueueFits(db, c, replica[c], enqueued[c]) /\ ReplicaFits(db, UserOf[c], replica[c])
  BY <1>1 DEF Domains, DeviceFits, TaskFits
<1>3. CASE replica[c].position = NoPosition
  <2>1. /\ task' = [task EXCEPT ![c].stage = "first"] /\ CallSnapshot(c)
    BY <1>3 DEF StartSync
  <2>2. /\ task'[c] \in Task /\ task'[c].stage = "first" /\ DOMAIN task' = Devices
        /\ \A e \in Devices \ {c} : task'[e] = task[e]
    BY <1>1, <1>2, <2>1 DEF Domains, Task, Stages
  <2>3. /\ call'[c] = [kind |-> "snapshot", state |-> "sent", token |-> token[c], request |-> NoPosition]
        /\ DOMAIN call' = Devices /\ \A e \in Devices \ {c} : call'[e] = call[e]
    BY <1>1, <2>1 DEF Domains, CallSnapshot, Call
  <2>4. DeviceFits(db, txn, c, replica[c], task'[c], call'[c], enqueued[c])
    <3>1. "first" \in Snapshotting
      BY DEF Snapshotting
    <3>. QED
      BY <1>1, <1>2, <2>2, <2>3, <3>1, AskSnapshotFits
  <2>5. /\ replica' = replica /\ enqueued' = enqueued /\ orphans' = orphans /\ Domains'
        /\ UNCHANGED <<db, txn>>
    BY <1>1, <2>2, <2>3 DEF StartSync, Domains, serverVars
  <2>. QED
    BY <1>1, <2>2, <2>3, <2>4, <2>5, OneDevice
<1>4. CASE replica[c].position # NoPosition
  <2>1. /\ task' = [task EXCEPT ![c].stage = "push", ![c].position = replica[c].position]
        /\ call' = call
    BY <1>4 DEF StartSync
  <2>2. replica[c].position \in Position
    BY <1>2, <1>4 DEF ReplicaFits, PositionFits
  <2>3. /\ task'[c] \in Task /\ task'[c].stage = "push" /\ DOMAIN task' = Devices
        /\ task'[c].position = replica[c].position
        /\ \A e \in Devices \ {c} : task'[e] = task[e]
    BY <1>1, <1>2, <2>1, <2>2 DEF Domains, Task, Stages
  <2>4. call[c] = NoCall
    BY <1>1 DEF StartSync, DeviceFits, TaskFits
  <2>5. DeviceFits(db, txn, c, replica[c], task'[c], call'[c], enqueued[c])
    BY <1>2, <2>1, <2>2, <2>3, <2>4, PushStageFits
  <2>6. /\ replica' = replica /\ enqueued' = enqueued /\ orphans' = orphans /\ Domains'
        /\ UNCHANGED <<db, txn>>
    BY <1>1, <2>1, <2>3 DEF StartSync, Domains, serverVars
  <2>. QED
    BY <1>1, <2>1, <2>3, <2>5, <2>6, OneDevice
<1>. QED
  BY <1>3, <1>4

\* performWaitingPull pulls from the stored cursor.
LEMMA StartWatchFits ==
  ASSUME SyncInvariant, NEW c \in Devices, StartWatch(c)
  PROVE  SyncInvariant'
<1>1. /\ Domains /\ \A r \in orphans : \E u \in Users : RequestFits(u, Offered, r)
      /\ DeviceFits(db, txn, c, replica[c], task[c], call[c], enqueued[c])
  BY DEF SyncInvariant
<1>2. /\ task[c] \in Task /\ token[c] \in Tokens /\ replica[c] \in Replica
      /\ QueueFits(db, c, replica[c], enqueued[c]) /\ ReplicaFits(db, UserOf[c], replica[c])
  BY <1>1 DEF Domains, DeviceFits, TaskFits
<1>3. /\ replica[c].position # NoPosition /\ CallPull(c, replica[c].position)
      /\ task' = [task EXCEPT ![c].stage = "pull", ![c].position = replica[c].position]
  BY DEF StartWatch
<1>4. replica[c].position \in Position
  BY <1>2, <1>3 DEF ReplicaFits, PositionFits
<1>5. /\ task'[c] \in Task /\ task'[c].stage = "pull" /\ DOMAIN task' = Devices
      /\ task'[c].position = replica[c].position
      /\ \A e \in Devices \ {c} : task'[e] = task[e]
  BY <1>1, <1>2, <1>3, <1>4 DEF Domains, Task, Stages
<1>6. /\ call'[c] = [kind |-> "pull", state |-> "sent", token |-> token[c],
                     request |-> replica[c].position]
      /\ DOMAIN call' = Devices /\ \A e \in Devices \ {c} : call'[e] = call[e]
  BY <1>1, <1>3 DEF Domains, CallPull, Call
<1>7. DeviceFits(db, txn, c, replica[c], task'[c], call'[c], enqueued[c])
  BY <1>2, <1>3, <1>5, <1>6, AskPageFits
<1>8. /\ replica' = replica /\ enqueued' = enqueued /\ orphans' = orphans /\ Domains'
      /\ UNCHANGED <<db, txn>>
  BY <1>1, <1>5, <1>6 DEF StartWatch, Domains, serverVars
<1>. QED
  BY <1>1, <1>5, <1>6, <1>7, <1>8, OneDevice

\* A sequence over a set is one over a larger set.
LEMMA SeqWidens ==
  ASSUME NEW S, NEW T, S \subseteq T, NEW s \in Seq(S)
  PROVE  s \in Seq(T)
OBVIOUS

\* A sequence whose elements all lie in a set is a sequence over it.
LEMMA SeqNarrows ==
  ASSUME NEW S, NEW T, NEW s \in Seq(T), \A i \in 1 .. Len(s) : s[i] \in S
  PROVE  s \in Seq(S)
OBVIOUS

\* The fields of a request.
LEMMA RequestShape ==
  ASSUME NEW u, NEW queued, NEW token0 \in Tokens, NEW schema \in Nat, NEW batch \in Seq(queued)
  PROVE  RequestFits(u, queued, [user |-> u, token |-> token0, schema |-> schema,
                                 mutations |-> batch])
BY DEF RequestFits

\* The next batch of the queue is a request the server takes.
LEMMA BatchFits ==
  ASSUME NEW d, NEW c, NEW rep \in Replica, NEW queued, QueueFits(d, c, rep, queued),
         rep.pending # <<>>, NEW u, NEW token0 \in Tokens, NEW schema \in Nat, NEW request,
         request = [user |-> u, token |-> token0, schema |-> schema,
                    mutations |-> SubSeq(rep.pending, 1, Min({PushBatch, Len(rep.pending)}))]
  PROVE  RequestFits(u, queued, request)
<1>1. rep.pending \in Seq(Mutation)
  BY DEF Replica
<1>2. PICK pending : pending = rep.pending
  OBVIOUS
<1>3. pending \in Seq(queued) /\ pending # <<>>
  BY <1>1, <1>2, SeqNarrows DEF QueueFits
<1>4. PICK n : n = Min({PushBatch, Len(pending)})
  OBVIOUS
<1>5. PushBatch \in Nat /\ Len(pending) \in Nat
  BY <1>3, DeviceShape, BoundsPositive
<1>6. n \in Nat /\ n <= Len(pending)
  <2>1. {PushBatch, Len(pending)} \subseteq Nat /\ {PushBatch, Len(pending)} # {}
    BY <1>5
  <2>2. /\ Min({PushBatch, Len(pending)}) \in {PushBatch, Len(pending)}
        /\ \A y \in {PushBatch, Len(pending)} : Min({PushBatch, Len(pending)}) <= y
    BY <2>1, MinOfNaturals
  <2>. QED
    BY <1>4, <1>5, <2>2
<1>7. PICK batch : batch = SubSeq(pending, 1, n)
  OBVIOUS
<1>8. batch \in Seq(queued)
  BY <1>3, <1>6, <1>7, FrontFacts
<1>9. request = [user |-> u, token |-> token0, schema |-> schema, mutations |-> batch]
  BY <1>2, <1>4, <1>7
<1>. QED
  BY <1>8, <1>9, RequestShape

\* A replica without a cursor has none a task could carry.
LEMMA NoPositionApart == NoPosition \notin Position
BY DEF NoPosition, Position

\* The push loop sends a batch, asks for a snapshot or moves on to the pull.
LEMMA PushOrPullFits ==
  ASSUME SyncInvariant, NEW c \in Devices, PushOrPull(c)
  PROVE  SyncInvariant'
<1>1. /\ Domains /\ \A r \in orphans : \E u \in Users : RequestFits(u, Offered, r)
      /\ DeviceFits(db, txn, c, replica[c], task[c], call[c], enqueued[c])
  BY DEF SyncInvariant
<1>2. /\ task[c] \in Task /\ token[c] \in Tokens /\ replica[c] \in Replica
      /\ QueueFits(db, c, replica[c], enqueued[c]) /\ ReplicaFits(db, UserOf[c], replica[c])
  BY <1>1 DEF Domains, DeviceFits, TaskFits
<1>3. /\ task[c].stage = "push" /\ task[c].position \in Position
      /\ ~task[c].snapshot => task[c].position = replica[c].position
  BY <1>1 DEF PushOrPull, DeviceFits, TaskFits
<1>4. /\ replica' = replica /\ enqueued' = enqueued /\ orphans' = orphans
      /\ token' = token /\ faults' = faults /\ UNCHANGED <<db, txn>>
  BY DEF PushOrPull, serverVars
<1>5. ASSUME NEW request, replica[c].pending # <<>>, UNCHANGED task,
             request = [user |-> UserOf[c], token |-> token[c],
                        schema |-> task[c].position.schemaVersion,
                        mutations |-> SubSeq(replica[c].pending, 1,
                                             Min({PushBatch, Len(replica[c].pending)}))],
             Call(c, "push", request)
      PROVE  SyncInvariant'
  <2>1. task[c].position.schemaVersion \in Nat
    BY <1>3 DEF Position
  <2>2. RequestFits(UserOf[c], enqueued[c], request)
    BY <1>2, <1>5, <2>1, BatchFits
  <2>3. /\ call'[c] = [kind |-> "push", state |-> "sent", token |-> token[c], request |-> request]
        /\ DOMAIN call' = Devices /\ \A e \in Devices \ {c} : call'[e] = call[e]
    BY <1>1, <1>5 DEF Domains, Call
  <2>4. /\ call'[c].kind = "push" /\ call'[c].state = "sent" /\ call'[c].request = request
        /\ call'[c].token = token[c] /\ DOMAIN call'[c] = {"kind", "state", "token", "request"}
    BY <2>3
  <2>5. CallFits(db, txn, UserOf[c], replica[c], call'[c], enqueued[c])
    BY <1>2, <2>2, <2>4 DEF CallFits
  <2>6. TaskFits(replica[c], task[c], call'[c])
    BY <1>2, <1>3, <2>4 DEF TaskFits, Snapshotting
  <2>7. DeviceFits(db, txn, c, replica'[c], task'[c], call'[c], enqueued'[c])
    BY <1>2, <1>4, <1>5, <2>5, <2>6 DEF DeviceFits
  <2>8. Domains'
    BY <1>1, <1>4, <1>5, <2>3 DEF Domains
  <2>. QED
    BY <1>1, <1>4, <1>5, <2>3, <2>7, <2>8, OneDevice
<1>6. ASSUME CallSnapshot(c), task' = [task EXCEPT ![c].stage = "authoritative"]
      PROVE  SyncInvariant'
  <2>2. /\ task'[c] \in Task /\ task'[c].stage = "authoritative" /\ DOMAIN task' = Devices
        /\ \A e \in Devices \ {c} : task'[e] = task[e]
    BY <1>1, <1>2, <1>6 DEF Domains, Task, Stages
  <2>3. /\ call'[c] = [kind |-> "snapshot", state |-> "sent", token |-> token[c], request |-> NoPosition]
        /\ DOMAIN call' = Devices /\ \A e \in Devices \ {c} : call'[e] = call[e]
    BY <1>1, <1>6 DEF Domains, CallSnapshot, Call
  <2>4. DeviceFits(db, txn, c, replica[c], task'[c], call'[c], enqueued[c])
    <3>1. "authoritative" \in Snapshotting
      BY DEF Snapshotting
    <3>. QED
      BY <1>1, <1>2, <2>2, <2>3, <3>1, AskSnapshotFits
  <2>5. Domains'
    BY <1>1, <1>4, <2>2, <2>3 DEF Domains
  <2>. QED
    BY <1>1, <1>4, <2>2, <2>3, <2>4, <2>5, OneDevice
<1>7. ASSUME ~task[c].snapshot, CallPull(c, task[c].position),
             task' = [task EXCEPT ![c].stage = "pull"]
      PROVE  SyncInvariant'
  <2>1. task[c].position = replica[c].position /\ replica[c].position # NoPosition
    BY <1>3, <1>7, NoPositionApart
  <2>2. /\ task'[c] \in Task /\ task'[c].stage = "pull" /\ DOMAIN task' = Devices
        /\ task'[c].position = task[c].position
        /\ \A e \in Devices \ {c} : task'[e] = task[e]
    BY <1>1, <1>2, <1>7 DEF Domains, Task, Stages
  <2>3. /\ call'[c] = [kind |-> "pull", state |-> "sent", token |-> token[c],
                       request |-> replica[c].position]
        /\ DOMAIN call' = Devices /\ \A e \in Devices \ {c} : call'[e] = call[e]
    BY <1>1, <1>7, <2>1 DEF Domains, CallPull, Call
  <2>4. DeviceFits(db, txn, c, replica[c], task'[c], call'[c], enqueued[c])
    BY <1>2, <2>1, <2>2, <2>3, AskPageFits
  <2>5. Domains'
    BY <1>1, <1>4, <2>2, <2>3 DEF Domains
  <2>. QED
    BY <1>1, <1>4, <2>2, <2>3, <2>4, <2>5, OneDevice
<1>. QED
  BY <1>5, <1>6, <1>7 DEF PushOrPull

\* An error answer ends the synchronisation.
LEMMA OnFailureFits ==
  ASSUME SyncInvariant, NEW c \in Devices, OnFailure(c)
  PROVE  SyncInvariant'
<1>1. /\ Domains /\ \A r \in orphans : \E u \in Users : RequestFits(u, Offered, r)
      /\ DeviceFits(db, txn, c, replica[c], task[c], call[c], enqueued[c])
  BY DEF SyncInvariant
<1>2. /\ task'[c] = Idle /\ call'[c] = NoCall /\ DOMAIN task' = Devices /\ DOMAIN call' = Devices
      /\ \A e \in Devices \ {c} : task'[e] = task[e] /\ call'[e] = call[e]
  BY <1>1 DEF OnFailure, Domains
<1>3. /\ replica' = replica /\ enqueued' = enqueued /\ orphans' = orphans
      /\ token' = token /\ faults' = faults /\ UNCHANGED <<db, txn>>
  BY DEF OnFailure, serverVars
<1>4. DeviceFits(db, txn, c, replica'[c], task'[c], call'[c], enqueued'[c])
  BY <1>1, <1>2, <1>3, IdleFits DEF DeviceFits
<1>5. Domains'
  BY <1>1, <1>2, <1>3 DEF Domains
<1>. QED
  BY <1>1, <1>2, <1>3, <1>4, <1>5, OneDevice

\* A request over some mutations is one over more.
LEMMA RequestWidens ==
  ASSUME NEW u, NEW S, NEW T, S \subseteq T, NEW r, RequestFits(u, S, r)
  PROVE  RequestFits(u, T, r)
<1>1. Seq(S) \subseteq Seq(T)
  BY SeqWidens
<1>. QED
  BY <1>1 DEF RequestFits

\* A device forgets its call; a push it had sent may still arrive.
LEMMA AbandonFits ==
  ASSUME SyncInvariant, NEW c \in Devices, Abandon(c)
  PROVE  SyncInvariant'
<1>1. /\ Domains /\ \A r \in orphans : \E u \in Users : RequestFits(u, Offered, r)
      /\ DeviceFits(db, txn, c, replica[c], task[c], call[c], enqueued[c])
  BY DEF SyncInvariant
<1>2. /\ task'[c] = Idle /\ call'[c] = NoCall /\ DOMAIN task' = Devices /\ DOMAIN call' = Devices
      /\ \A e \in Devices \ {c} : task'[e] = task[e] /\ call'[e] = call[e]
  BY <1>1 DEF Abandon, Domains
<1>3. /\ replica' = replica /\ enqueued' = enqueued
      /\ token' = token /\ UNCHANGED <<db, txn>>
  BY DEF Abandon, serverVars
<1>4. DeviceFits(db, txn, c, replica'[c], task'[c], call'[c], enqueued'[c])
  BY <1>1, <1>2, <1>3, IdleFits DEF DeviceFits
<1>5. faults' \in 0 .. MaxFaults
  BY <1>1, DeviceShape DEF Abandon, Domains
<1>6. Domains'
  BY <1>1, <1>2, <1>3, <1>5 DEF Domains
<1>7. \A r \in orphans' : \E u \in Users : RequestFits(u, Offered, r)
  <2>1. CASE Awaiting(c, "push")
    <3>1. RequestFits(UserOf[c], enqueued[c], call[c].request) /\ enqueued[c] \subseteq Wishes[c]
      BY <1>1, <2>1 DEF Awaiting, DeviceFits, CallFits, QueueFits
    <3>2. enqueued[c] \subseteq Offered /\ UserOf[c] \in Users
      BY <3>1, DeviceShape
    <3>3. RequestFits(UserOf[c], Offered, call[c].request)
      BY <3>1, <3>2, RequestWidens
    <3>4. orphans' = orphans \cup {call[c].request}
      BY <2>1 DEF Abandon
    <3>. QED
      BY <1>1, <3>2, <3>3, <3>4
  <2>2. CASE ~Awaiting(c, "push")
    BY <1>1, <2>2 DEF Abandon
  <2>. QED
    BY <2>1, <2>2
<1>. QED
  BY <1>2, <1>3, <1>4, <1>6, <1>7, OneDevice

\* A new access token changes nothing a device keeps.
LEMMA RefreshTokenFits ==
  ASSUME SyncInvariant, NEW c \in Devices, NEW t \in Tokens, RefreshToken(c, t)
  PROVE  SyncInvariant'
<1>1. token' \in [Devices -> Tokens]
  BY DEF RefreshToken, SyncInvariant, Domains
<1>2. Domains'
  BY <1>1 DEF RefreshToken, SyncInvariant, Domains
<1>. QED
  BY <1>2 DEF SyncInvariant, RefreshToken, serverVars

\* What mutate makes of a replica.
MutationShown(rep, m, same, rep2) ==
  /\ rep2 \in Replica /\ rep2.pending = Queued(rep.pending, m, same)
  /\ rep2.rows = [rep.rows EXCEPT ![m.key] = Optimistic(rep.rows[m.key], m)]
  /\ rep2.rejected = rep.rejected /\ rep2.position = rep.position

\* Queueing a mutation: the row it shows is queued, so nothing is claimed of
\* it, and the other rows stay.
LEMMA EnqueueDevice ==
  ASSUME NEW d, NEW t, NEW c \in Devices, NEW rep, NEW tsk, NEW cl, NEW queued,
         DeviceFits(d, t, c, rep, tsk, cl, queued),
         NEW m \in Wishes[c], \A n \in queued : n.id # m.id, NEW same, NEW rep2,
         MutationShown(rep, m, same, rep2)
  PROVE  DeviceFits(d, t, c, rep2, tsk, cl, queued \cup {m})
<1>a. /\ rep2 \in Replica /\ rep2.pending = Queued(rep.pending, m, same)
      /\ rep2.rows = [rep.rows EXCEPT ![m.key] = Optimistic(rep.rows[m.key], m)]
      /\ rep2.rejected = rep.rejected /\ rep2.position = rep.position
  BY DEF MutationShown
<1>1. /\ rep \in Replica /\ QueueFits(d, c, rep, queued) /\ ReplicaFits(d, UserOf[c], rep)
      /\ TaskFits(rep, tsk, cl) /\ CallFits(d, t, UserOf[c], rep, cl, queued)
  BY DEF DeviceFits
<1>2. /\ rep.pending \in Seq(Mutation) /\ rep.rows \in [Keys -> Entry] /\ m \in Mutation
      /\ m.key \in Keys
  BY <1>1, DeviceShape, InputShape DEF Replica, Mutation
<1>3. PICK q : q = Queued(rep.pending, m, same)
  OBVIOUS
<1>4. /\ \A j \in 1 .. Len(q) : q[j] = m \/ \E i \in 1 .. Len(rep.pending) : q[j] = rep.pending[i]
      /\ \E j \in 1 .. Len(q) : q[j] = m
      /\ \A i \in 1 .. Len(rep.pending) : \E j \in 1 .. Len(q) : q[j] = rep.pending[i]
  <2>1. Extends(rep.pending, m, q)
    BY <1>2, <1>3, QueuedKeeps
  <2>. QED
    BY <2>1 DEF Extends
<1>5. rep2.pending = q
  BY <1>3, <1>a
<1>6. QueueFits(d, c, rep2, queued \cup {m})
  <2>1. /\ queued \subseteq Wishes[c] /\ \A x, y \in queued : x.id = y.id => x = y
        /\ \A i \in 1 .. Len(rep.pending) : rep.pending[i] \in queued
        /\ \A x \in queued : \/ \E i \in 1 .. Len(rep.pending) : rep.pending[i] = x
                             \/ x \in rep.rejected \/ Received(d, UserOf[c], x)
    BY <1>1 DEF QueueFits
  <2>2. \A x, y \in queued \cup {m} : x.id = y.id => x = y
    BY <2>1
  <2>3. \A j \in 1 .. Len(q) : q[j] \in queued \cup {m}
    BY <1>4, <2>1
  <2>4. ASSUME NEW x \in queued \cup {m}
        PROVE  \/ \E j \in 1 .. Len(q) : q[j] = x
               \/ x \in rep.rejected \/ Received(d, UserOf[c], x)
    BY <1>4, <2>1
  <2>. QED
    BY <1>5, <1>a, <2>1, <2>2, <2>3, <2>4 DEF QueueFits
<1>7. ReplicaFits(d, UserOf[c], rep2)
  <2> SUFFICES ASSUME rep.position # NoPosition
               PROVE  ReplicaFits(d, UserOf[c], rep2)
    BY <1>a DEF ReplicaFits
  <2>1. PositionFits(d, rep.position) /\ \A k \in Keys : rep.rows[k].sequence <= rep.position.sequence
    BY <1>1 DEF ReplicaFits
  <2>2. rep.position.sequence \in Nat
    BY <2>1 DEF PositionFits, Position
  <2>3. ASSUME NEW k \in Keys
        PROVE  rep2.rows[k].sequence <= rep.position.sequence
    <3>1. CASE k # m.key
      BY <1>2, <1>a, <2>1, <3>1
    <3>2. CASE k = m.key
      <4>1. rep.rows[k] \in Entry
        BY <1>2
      <4>2. Optimistic(rep.rows[k], m).sequence \in {rep.rows[k].sequence, -1}
        BY <1>2, <4>1, OptimisticFacts
      <4>3. rep2.rows[k] = Optimistic(rep.rows[k], m)
        BY <1>2, <1>a, <3>2
      <4>4. rep.rows[k].sequence <= rep.position.sequence /\ -1 <= rep.position.sequence
        BY <2>1, <2>2
      <4>. QED
        BY <4>2, <4>3, <4>4
    <3>. QED
      BY <3>1, <3>2
  <2>4. ASSUME rep.position.schema = d.schema, NEW k \in Keys, Unqueued(q, k),
               Untouched(d, k, rep.position.sequence)
        PROVE  Shows(d, UserOf[c], k, rep2.rows[k])
    <3>1. Unqueued(rep.pending, k) /\ k # m.key
      BY <1>4, <2>4 DEF Unqueued
    <3>2. rep2.rows[k] = rep.rows[k]
      BY <1>2, <1>a, <3>1
    <3>. QED
      BY <1>1, <2>4, <3>1, <3>2 DEF ReplicaFits
  <2>. QED
    BY <1>5, <1>a, <2>1, <2>3, <2>4 DEF ReplicaFits
<1>8. TaskFits(rep2, tsk, cl)
  BY <1>1, <1>a DEF TaskFits
<1>9. CallFits(d, t, UserOf[c], rep2, cl, queued \cup {m})
  <2>1. \A r : RequestFits(UserOf[c], queued, r) => RequestFits(UserOf[c], queued \cup {m}, r)
    BY RequestWidens
  <2>2. \A r, s : PushFits(d, rep, r, s) => PushFits(d, rep2, r, s)
    BY <1>a DEF PushFits
  <2>. QED
    BY <1>1, <1>a, <2>1, <2>2 DEF CallFits
<1>. QED
  BY <1>6, <1>7, <1>8, <1>9, <1>a DEF DeviceFits

\* mutate queues the mutation and shows it, in one transaction.
LEMMA EnqueueFits ==
  ASSUME SyncInvariant, NEW c \in Devices, NEW m \in Wishes[c], NEW same \in BOOLEAN,
         Enqueue(c, m, same)
  PROVE  SyncInvariant'
<1>1. /\ Domains /\ \A r \in orphans : \E u \in Users : RequestFits(u, Offered, r)
      /\ DeviceFits(db, txn, c, replica[c], task[c], call[c], enqueued[c])
  BY DEF SyncInvariant
<1>2. replica[c] \in Replica /\ m \in Mutation /\ m.key \in Keys
  BY <1>1, DeviceShape, InputShape DEF DeviceFits, Mutation
<1>3. /\ replica' = [e \in Devices |-> replica'[e]] /\ \A e \in Devices \ {c} : replica'[e] = replica[e]
      /\ replica'[c].pending = Queued(replica[c].pending, m, same)
      /\ replica'[c].rows = [replica[c].rows EXCEPT ![m.key] = Optimistic(replica[c].rows[m.key], m)]
      /\ replica'[c].rejected = replica[c].rejected /\ replica'[c].position = replica[c].position
      /\ DOMAIN replica'[c] = DOMAIN replica[c]
  BY <1>1, <1>2 DEF Enqueue, Domains, Replica
<1>4. replica'[c] \in Replica
  <2>1. /\ replica[c].rows \in [Keys -> Entry] /\ replica[c].pending \in Seq(Mutation)
        /\ replica[c].rejected \in SUBSET Mutation
        /\ replica[c].position \in Position \cup {NoPosition}
    BY <1>2 DEF Replica
  <2>2. PICK q : q = Queued(replica[c].pending, m, same)
    OBVIOUS
  <2>3. q \in Seq(Mutation)
    BY <1>2, <2>1, <2>2, QueuedKeeps DEF Extends
  <2>4. Optimistic(replica[c].rows[m.key], m) \in Entry
    BY <1>2, <2>1, OptimisticFacts
  <2>5. replica'[c].rows \in [Keys -> Entry]
    BY <1>3, <2>1, <2>4
  <2>6. replica'[c].pending \in Seq(Mutation)
    BY <1>3, <2>2, <2>3
  <2>. QED
    BY <1>2, <1>3, <2>1, <2>5, <2>6 DEF Enqueue, Replica
<1>5. /\ enqueued'[c] = enqueued[c] \cup {m} /\ DOMAIN enqueued' = Devices
      /\ \A e \in Devices \ {c} : enqueued'[e] = enqueued[e]
  BY <1>1 DEF Enqueue, Domains
<1>6. /\ task' = task /\ call' = call /\ orphans' = orphans
      /\ token' = token /\ faults' = faults /\ UNCHANGED <<db, txn>>
  BY DEF Enqueue, serverVars
<1>7. \A n \in enqueued[c] : n.id # m.id
  BY DEF Enqueue
<1>8. DeviceFits(db, txn, c, replica'[c], task[c], call[c], enqueued[c] \cup {m})
  <2>1. DeviceFits(db, txn, c, replica[c], task[c], call[c], enqueued[c])
    BY <1>1
  <2>2. /\ replica'[c].pending = Queued(replica[c].pending, m, same)
        /\ replica'[c].rows = [replica[c].rows EXCEPT ![m.key] = Optimistic(replica[c].rows[m.key], m)]
        /\ replica'[c].rejected = replica[c].rejected /\ replica'[c].position = replica[c].position
    BY <1>3
  <2>3. MutationShown(replica[c], m, same, replica'[c])
    BY <1>4, <2>2 DEF MutationShown
  <2>. QED
    BY <1>7, <2>1, <2>3, EnqueueDevice
<1>9. Domains'
  BY <1>1, <1>3, <1>5, <1>6 DEF Domains
<1>. QED
  BY <1>1, <1>3, <1>5, <1>6, <1>8, <1>9, OneDevice

\* What consumePushResults makes of a replica.
BatchSettled(rep, batch, results, stale, rep2) ==
  /\ stale <=> \E i \in 1 .. Len(batch) : results[i] # "applied"
  /\ rep2 \in Replica /\ rep2.rows = rep.rows
  /\ rep2.pending = Without(rep.pending, {batch[i].id : i \in 1 .. Len(batch)})
  /\ rep2.rejected = rep.rejected \cup
       {batch[i] : i \in {j \in 1 .. Len(batch) : results[j] = "rejected"}}
  /\ rep2.position = IF stale THEN NoPosition ELSE rep.position

\* Settling a batch: what leaves the queue was received or is recorded as
\* rejected, and a replica that keeps its cursor waits for the changes.
LEMMA SettleDevice ==
  ASSUME NEW d, NEW t, NEW c \in Devices, NEW rep, NEW tsk, NEW cl, NEW queued,
         DeviceFits(d, t, c, rep, tsk, cl, queued),
         tsk.stage = "push", cl.kind = "push", cl.state = "done",
         NEW stale \in BOOLEAN, NEW rep2,
         BatchSettled(rep, cl.request.mutations, cl.response, stale, rep2),
         NEW tsk2 \in Task, tsk2.stage = "push", tsk2.position = tsk.position,
         ~tsk2.snapshot => ~stale /\ ~tsk.snapshot
  PROVE  DeviceFits(d, t, c, rep2, tsk2, NoCall, queued)
<1>a. PICK batch : batch = cl.request.mutations
  OBVIOUS
<1>b. PICK results : results = cl.response
  OBVIOUS
<1>c. /\ stale <=> \E i \in 1 .. Len(batch) : results[i] # "applied"
      /\ rep2 \in Replica /\ rep2.rows = rep.rows
      /\ rep2.pending = Without(rep.pending, {batch[i].id : i \in 1 .. Len(batch)})
      /\ rep2.rejected = rep.rejected \cup
           {batch[i] : i \in {j \in 1 .. Len(batch) : results[j] = "rejected"}}
      /\ rep2.position = IF stale THEN NoPosition ELSE rep.position
  BY <1>a, <1>b DEF BatchSettled
<1>1. /\ rep \in Replica /\ QueueFits(d, c, rep, queued) /\ ReplicaFits(d, UserOf[c], rep)
      /\ TaskFits(rep, tsk, cl) /\ RequestFits(UserOf[c], queued, cl.request)
      /\ PushFits(d, rep, cl.request, cl.response)
  BY DEF DeviceFits, CallFits
<1>2. /\ Len(results) = Len(batch) /\ cl.request.user = UserOf[c] /\ batch \in Seq(queued)
  BY <1>1, <1>a, <1>b DEF RequestFits, PushFits
<1>3. ASSUME NEW i \in 1 .. Len(batch)
      PROVE  /\ results[i] # "rejected" => Received(d, UserOf[c], batch[i])
             /\ results[i] = "applied" /\ rep.position # NoPosition /\ rep.position.schema = d.schema
                  => Touched(d, batch[i].key, rep.position.sequence)
             /\ batch[i] \in queued
  BY <1>1, <1>2, <1>a, <1>b DEF PushFits
<1>4. PICK ids : ids = {batch[i].id : i \in 1 .. Len(batch)}
  OBVIOUS
<1>5. PICK rejects : rejects = {batch[i] : i \in {j \in 1 .. Len(batch) : results[j] = "rejected"}}
  OBVIOUS
<1>6. \A i \in 1 .. Len(batch) : results[i] = "rejected" => batch[i] \in rejects
  BY <1>5
<1>7. PICK pending \in Seq(Mutation) : pending = rep.pending
  BY <1>1 DEF Replica
<1>8. PICK rest : rest = Without(pending, ids)
  OBVIOUS
<1>9. /\ \A j \in 1 .. Len(rest) : \E i \in 1 .. Len(pending) : rest[j] = pending[i]
      /\ \A i \in 1 .. Len(pending) : pending[i].id \notin ids =>
           \E j \in 1 .. Len(rest) : rest[j] = pending[i]
  <2>1. Remains(pending, ids, rest)
    BY <1>8, WithoutKeeps
  <2>. QED
    BY <2>1 DEF Remains
<1>10. rep2.pending = rest /\ rep2.rejected = rep.rejected \cup rejects
  BY <1>4, <1>5, <1>7, <1>8, <1>c
<1>11. ASSUME NEW m \in queued, m.id \in ids
       PROVE  \E i \in 1 .. Len(batch) : m = batch[i]
  <2>1. PICK i \in 1 .. Len(batch) : m.id = batch[i].id
    BY <1>4, <1>11
  <2>2. batch[i] \in queued
    BY <1>3
  <2>. QED
    BY <1>1, <2>1, <2>2 DEF QueueFits
<1>12. /\ queued \subseteq Wishes[c] /\ \A x, y \in queued : x.id = y.id => x = y
       /\ \A i \in 1 .. Len(pending) : pending[i] \in queued
       /\ \A x \in queued : \/ \E i \in 1 .. Len(pending) : pending[i] = x
                            \/ x \in rep.rejected \/ Received(d, UserOf[c], x)
  BY <1>1, <1>7 DEF QueueFits
<1>13. QueueFits(d, c, rep2, queued)
  <2>1. \A j \in 1 .. Len(rest) : rest[j] \in queued
    BY <1>9, <1>12
  <2>2. ASSUME NEW x \in queued
        PROVE  \/ \E j \in 1 .. Len(rest) : rest[j] = x
               \/ x \in rep.rejected \cup rejects \/ Received(d, UserOf[c], x)
    <3>1. CASE x.id \in ids
      BY <1>3, <1>6, <1>11, <3>1
    <3>2. CASE x.id \notin ids
      BY <1>9, <1>12, <3>2
    <3>. QED
      BY <3>1, <3>2
  <2>. QED
    BY <1>10, <1>12, <2>1, <2>2 DEF QueueFits
<1>14. ReplicaFits(d, UserOf[c], rep2)
  <2> SUFFICES ASSUME rep2.position # NoPosition
               PROVE  ReplicaFits(d, UserOf[c], rep2)
    BY DEF ReplicaFits
  <2>1. ~stale /\ rep2.position = rep.position /\ rep.position # NoPosition
    BY <1>c
  <2>2. \A i \in 1 .. Len(batch) : results[i] = "applied"
    BY <1>c, <2>1
  <2>3. ASSUME rep.position.schema = d.schema, NEW k \in Keys, Unqueued(rest, k),
               Untouched(d, k, rep.position.sequence)
        PROVE  Shows(d, UserOf[c], k, rep.rows[k])
    <3>1. ASSUME NEW i \in 1 .. Len(pending), pending[i].key = k
          PROVE  FALSE
      <4>1. CASE pending[i].id \notin ids
        BY <1>9, <2>3, <3>1, <4>1 DEF Unqueued
      <4>2. CASE pending[i].id \in ids
        <5>1. PICK j \in 1 .. Len(batch) : pending[i] = batch[j]
          BY <1>11, <1>12, <4>2
        <5>2. Touched(d, k, rep.position.sequence)
          BY <1>3, <2>1, <2>2, <2>3, <3>1, <5>1
        <5>. QED
          BY <2>3, <5>2 DEF Touched, Untouched
      <4>. QED
        BY <4>1, <4>2
    <3>2. Unqueued(rep.pending, k)
      BY <1>7, <3>1 DEF Unqueued
    <3>. QED
      BY <1>1, <2>1, <2>3, <3>2 DEF ReplicaFits
  <2>4. PositionFits(d, rep.position) /\ \A k \in Keys : rep.rows[k].sequence <= rep.position.sequence
    BY <1>1, <2>1 DEF ReplicaFits
  <2>. QED
    BY <1>10, <1>c, <2>1, <2>3, <2>4 DEF ReplicaFits
<1>15. tsk2.position \in Position /\ (~tsk2.snapshot => tsk2.position = rep2.position)
  BY <1>1, <1>c DEF TaskFits
<1>. QED
  BY <1>13, <1>14, <1>15, <1>c, PushStageFits

\* consumePushResults settles the batch in one transaction.
LEMMA OnPushFits ==
  ASSUME SyncInvariant, NEW c \in Devices, OnPush(c)
  PROVE  SyncInvariant'
<1> DEFINE batch == call[c].request.mutations
           results == call[c].response
           ids == {batch[i].id : i \in 1 .. Len(batch)}
           rejects == {batch[i] : i \in {j \in 1 .. Len(batch) : results[j] = "rejected"}}
           stale == \E i \in 1 .. Len(batch) : results[i] # "applied"
           rest == Without(replica[c].pending, ids)
<1>1. /\ Domains /\ \A r \in orphans : \E u \in Users : RequestFits(u, Offered, r)
      /\ DeviceFits(db, txn, c, replica[c], task[c], call[c], enqueued[c])
  BY DEF SyncInvariant
<1>2. task[c] \in Task /\ replica[c] \in Replica
  BY <1>1, SMTT(60) DEF DeviceFits, TaskFits
<1>3. /\ replica' = [replica EXCEPT ![c].pending = Without(@, ids), ![c].rejected = @ \cup rejects,
                                    ![c].position = IF stale THEN NoPosition ELSE @]
      /\ task' = [task EXCEPT ![c].snapshot = @ \/ stale]
  BY ZenonT(60) DEF OnPush
<1>4. /\ task[c].stage = "push" /\ call[c].kind = "push" /\ call[c].state = "done"
      /\ call' = [call EXCEPT ![c] = NoCall]
      /\ token' = token /\ enqueued' = enqueued /\ orphans' = orphans /\ faults' = faults
      /\ UNCHANGED <<db, txn>>
  BY DEF OnPush, Answered, serverVars
<1>5. stale \in BOOLEAN
  BY Zenon
<1>6. rejects \subseteq Mutation
  <2>1. batch \in Seq(enqueued[c]) /\ enqueued[c] \subseteq Wishes[c]
    BY <1>1, <1>4 DEF DeviceFits, CallFits, RequestFits, QueueFits
  <2>2. enqueued[c] \subseteq Mutation
    BY <2>1, DeviceShape, InputShape
  <2> HIDE DEF batch
  <2>. QED
    BY <2>1, <2>2
<1>7. rest \in Seq(Mutation)
  <2>1. replica[c].pending \in Seq(Mutation)
    BY <1>2 DEF Replica
  <2> HIDE DEF ids
  <2>2. Remains(replica[c].pending, ids, rest)
    BY <2>1, WithoutKeeps
  <2>. QED
    BY <2>2 DEF Remains
<1>8. stale <=> \E i \in 1 .. Len(batch) : results[i] # "applied"
  OBVIOUS
<1>9. /\ rest = Without(replica[c].pending, {batch[i].id : i \in 1 .. Len(batch)})
      /\ rejects = {batch[i] : i \in {j \in 1 .. Len(batch) : results[j] = "rejected"}}
  BY SMTT(60)
<1>10. replica' = [replica EXCEPT ![c].pending = rest, ![c].rejected = @ \cup rejects,
                                  ![c].position = IF stale THEN NoPosition ELSE @]
  BY <1>3
<1> HIDE DEF batch, results, ids, rejects, stale, rest
<1>11. /\ replica' = [e \in Devices |-> replica'[e]] /\ \A e \in Devices \ {c} : replica'[e] = replica[e]
       /\ replica'[c].rows = replica[c].rows /\ replica'[c].pending = rest
       /\ replica'[c].rejected = replica[c].rejected \cup rejects
       /\ replica'[c].position = IF stale THEN NoPosition ELSE replica[c].position
       /\ replica'[c] \in Replica
  BY <1>1, <1>2, <1>6, <1>7, <1>10 DEF Domains, Replica
<1>12. /\ DOMAIN task' = Devices /\ \A e \in Devices \ {c} : task'[e] = task[e]
       /\ task'[c] = [task[c] EXCEPT !.snapshot = @ \/ stale]
  BY <1>1, <1>3 DEF Domains
<1>13. /\ task'[c] \in Task /\ task'[c].stage = "push" /\ task'[c].position = task[c].position
       /\ ~task'[c].snapshot => ~stale /\ ~task[c].snapshot
  BY <1>2, <1>4, <1>5, <1>12 DEF Task
<1>14. /\ DOMAIN call' = Devices /\ call'[c] = NoCall /\ \A e \in Devices \ {c} : call'[e] = call[e]
  BY <1>1, <1>4 DEF Domains
<1>15. DeviceFits(db, txn, c, replica'[c], task'[c], NoCall, enqueued[c])
  <2>1. BatchSettled(replica[c], batch, results, stale, replica'[c])
    BY <1>8, <1>9, <1>11 DEF BatchSettled
  <2>. QED
    BY <1>1, <1>4, <1>5, <1>13, <2>1, SettleDevice DEF batch, results
<1>16. Domains'
  BY <1>1, <1>4, <1>11, <1>12, <1>14 DEF Domains
<1>. QED
  BY <1>1, <1>4, <1>11, <1>12, <1>14, <1>15, <1>16, OneDevice

\* The rows a snapshot leaves in a replica.
FreshRows(answer) ==
  [k \in Keys |-> IF k \in DOMAIN answer.rows THEN answer.rows[k] ELSE Absent]

\* A replica that took over a snapshot and shows its queue again is in order.
LEMMA SnapshotReplica ==
  ASSUME NEW d, NEW t, NEW c \in Devices, NEW rep, NEW tsk, NEW cl, NEW queued,
         DeviceFits(d, t, c, rep, tsk, cl, queued), NEW answer, SnapshotFits(d, UserOf[c], answer),
         NEW rep2, rep2.rows = Reapplied(FreshRows(answer), rep.pending),
         rep2.pending = rep.pending, rep2.rejected = rep.rejected, rep2.position = answer.position
  PROVE  /\ rep2.rows \in [Keys -> Entry] /\ rep2.position \in Position
         /\ QueueFits(d, c, rep2, queued) /\ ReplicaFits(d, UserOf[c], rep2)
<1>1. /\ rep \in Replica /\ QueueFits(d, c, rep, queued) /\ rep.pending \in Seq(Mutation)
  BY DEF DeviceFits, Replica
<1>2. /\ PositionFits(d, answer.position) /\ answer.position \in Position
      /\ answer.position.sequence \in Nat
      /\ \A k \in DOMAIN answer.rows :
           answer.rows[k] \in Entry /\ answer.rows[k].sequence <= answer.position.sequence
  BY DEF SnapshotFits, PositionFits, Position
<1>3. PICK fresh : fresh = FreshRows(answer)
  OBVIOUS
<1>4. Absent \in Entry /\ Absent.sequence = -1
  BY DEF Absent, Entry
<1>5. ASSUME NEW k \in Keys
      PROVE  /\ fresh[k] = IF k \in DOMAIN answer.rows THEN answer.rows[k] ELSE Absent
             /\ fresh[k] \in Entry /\ fresh[k].sequence <= answer.position.sequence
  <2>1. fresh[k] = IF k \in DOMAIN answer.rows THEN answer.rows[k] ELSE Absent
    BY <1>3 DEF FreshRows
  <2>2. -1 <= answer.position.sequence
    BY <1>2
  <2>. QED
    BY <1>2, <1>4, <2>1, <2>2
<1>6. fresh \in [Keys -> Entry]
  <2>1. fresh = [k \in Keys |-> fresh[k]]
    BY <1>3 DEF FreshRows
  <2>. QED
    BY <1>5, <2>1
<1>7. PICK rows : rows = Reapplied(fresh, rep.pending)
  OBVIOUS
<1>8. /\ rows \in [Keys -> Entry] /\ \A k \in Keys : rows[k].sequence <= answer.position.sequence
      /\ \A k \in Keys : Unqueued(rep.pending, k) => rows[k] = fresh[k]
  <2>1. \A k \in Keys : fresh[k].sequence <= answer.position.sequence
    BY <1>5
  <2>. QED
    BY <1>1, <1>2, <1>6, <1>7, <2>1, ReappliedFacts
<1>9. rep2.rows = rows
  BY <1>3, <1>7
<1>10. QueueFits(d, c, rep2, queued)
  BY <1>1 DEF QueueFits
<1>11. ASSUME answer.position.schema = d.schema, NEW k \in Keys, Unqueued(rep.pending, k),
              Untouched(d, k, answer.position.sequence)
       PROVE  Shows(d, UserOf[c], k, rows[k])
  <2>1. /\ k \in DOMAIN answer.rows <=> d.rows[k] \in Readable[d.policy][UserOf[c]]
        /\ k \in DOMAIN answer.rows => answer.rows[k].value = d.rows[k]
    BY <1>11 DEF SnapshotFits
  <2>2. rows[k] = IF k \in DOMAIN answer.rows THEN answer.rows[k] ELSE Absent
    BY <1>5, <1>8, <1>11
  <2>. QED
    BY <2>1, <2>2 DEF Shows
<1>12. ReplicaFits(d, UserOf[c], rep2)
  BY <1>2, <1>8, <1>9, <1>11 DEF ReplicaFits
<1>. QED
  BY <1>2, <1>8, <1>9, <1>10, <1>12

\* resnapshot replaces the rows, shows the queue again and stores the cursor.
LEMMA OnSnapshotFits ==
  ASSUME SyncInvariant, NEW c \in Devices, OnSnapshot(c)
  PROVE  SyncInvariant'
<1>1. /\ Domains /\ \A r \in orphans : \E u \in Users : RequestFits(u, Offered, r)
      /\ DeviceFits(db, txn, c, replica[c], task[c], call[c], enqueued[c])
  BY DEF SyncInvariant
<1>2. task[c] \in Task /\ replica[c] \in Replica /\ token[c] \in Tokens
  BY <1>1 DEF DeviceFits, TaskFits, Domains
<1>3. /\ token' = token /\ enqueued' = enqueued /\ orphans' = orphans /\ faults' = faults
      /\ UNCHANGED <<db, txn>>
      /\ SnapshotFits(db, UserOf[c], call[c].response)
  BY <1>1 DEF OnSnapshot, Answered, serverVars, DeviceFits, CallFits
<1>4. PICK answer : answer = call[c].response
  OBVIOUS
<1>5. replica' = [replica EXCEPT ![c].rows = Reapplied(FreshRows(answer), replica[c].pending),
                                 ![c].position = answer.position]
  <2>1. replica' = [replica EXCEPT ![c].rows = Reapplied(FreshRows(call[c].response), replica[c].pending),
                                   ![c].position = call[c].response.position]
    BY DEF OnSnapshot, FreshRows
  <2>. QED
    BY <1>4, <2>1
<1>6. PICK rows : rows = Reapplied(FreshRows(answer), replica[c].pending)
  OBVIOUS
<1>7. /\ replica' = [e \in Devices |-> replica'[e]] /\ \A e \in Devices \ {c} : replica'[e] = replica[e]
      /\ replica'[c].rows = rows /\ replica'[c].pending = replica[c].pending
      /\ replica'[c].rejected = replica[c].rejected /\ replica'[c].position = answer.position
      /\ replica'[c] = [replica[c] EXCEPT !.rows = rows, !.position = answer.position]
  BY <1>1, <1>2, <1>5, <1>6 DEF Domains, Replica
<1>8. /\ replica'[c].rows \in [Keys -> Entry] /\ replica'[c].position \in Position
      /\ QueueFits(db, c, replica'[c], enqueued[c]) /\ ReplicaFits(db, UserOf[c], replica'[c])
  <2>1. DeviceFits(db, txn, c, replica[c], task[c], call[c], enqueued[c])
    BY <1>1
  <2>2. SnapshotFits(db, UserOf[c], answer)
    BY <1>3, <1>4
  <2>3. /\ replica'[c].rows = Reapplied(FreshRows(answer), replica[c].pending)
        /\ replica'[c].pending = replica[c].pending /\ replica'[c].rejected = replica[c].rejected
        /\ replica'[c].position = answer.position
    BY <1>6, <1>7
  <2>. QED
    BY <2>1, <2>2, <2>3, SnapshotReplica
<1>9. replica'[c] \in Replica
  BY <1>2, <1>7, <1>8 DEF Replica
<1>10. replica'[c].position # NoPosition
  BY <1>8, NoPositionApart
<1>11. ASSUME task' = [task EXCEPT ![c].stage = "push", ![c].position = answer.position],
              call' = [call EXCEPT ![c] = NoCall]
       PROVE  SyncInvariant'
  <2>1. /\ task'[c] \in Task /\ task'[c].stage = "push" /\ DOMAIN task' = Devices
        /\ task'[c].position = replica'[c].position
        /\ \A e \in Devices \ {c} : task'[e] = task[e]
    BY <1>1, <1>2, <1>7, <1>8, <1>11 DEF Domains, Task, Stages
  <2>2. /\ call'[c] = NoCall /\ DOMAIN call' = Devices
        /\ \A e \in Devices \ {c} : call'[e] = call[e]
    BY <1>1, <1>11 DEF Domains
  <2>3. DeviceFits(db, txn, c, replica'[c], task'[c], NoCall, enqueued[c])
    BY <1>8, <1>9, <2>1, PushStageFits
  <2>4. Domains'
    BY <1>1, <1>3, <1>7, <2>1, <2>2 DEF Domains
  <2>. QED
    BY <1>1, <1>3, <1>7, <2>1, <2>2, <2>3, <2>4, OneDevice
<1>12. ASSUME task' = [task EXCEPT ![c].stage = "pull", ![c].position = answer.position],
              CallPull(c, answer.position)
       PROVE  SyncInvariant'
  <2>1. /\ task'[c] \in Task /\ task'[c].stage = "pull" /\ DOMAIN task' = Devices
        /\ task'[c].position = replica'[c].position
        /\ \A e \in Devices \ {c} : task'[e] = task[e]
    BY <1>1, <1>2, <1>7, <1>8, <1>12 DEF Domains, Task, Stages
  <2>2. /\ call'[c] = [kind |-> "pull", state |-> "sent", token |-> token[c],
                       request |-> replica'[c].position]
        /\ DOMAIN call' = Devices /\ \A e \in Devices \ {c} : call'[e] = call[e]
    BY <1>1, <1>7, <1>12 DEF Domains, CallPull, Call
  <2>3. DeviceFits(db, txn, c, replica'[c], task'[c], call'[c], enqueued[c])
    BY <1>2, <1>8, <1>9, <1>10, <2>1, <2>2, AskPageFits
  <2>4. Domains'
    BY <1>1, <1>3, <1>7, <2>1, <2>2 DEF Domains
  <2>. QED
    BY <1>1, <1>3, <1>7, <2>1, <2>2, <2>3, <2>4, OneDevice
<1>13. ASSUME task' = [task EXCEPT ![c] = Idle], call' = [call EXCEPT ![c] = NoCall]
       PROVE  SyncInvariant'
  <2>1. /\ task'[c] = Idle /\ call'[c] = NoCall /\ DOMAIN task' = Devices /\ DOMAIN call' = Devices
        /\ \A e \in Devices \ {c} : task'[e] = task[e] /\ call'[e] = call[e]
    BY <1>1, <1>13 DEF Domains
  <2>2. DeviceFits(db, txn, c, replica'[c], task'[c], call'[c], enqueued'[c])
    BY <1>3, <1>8, <1>9, <2>1, IdleFits
  <2>3. Domains'
    BY <1>1, <1>3, <1>7, <2>1 DEF Domains
  <2>. QED
    BY <1>1, <1>3, <1>7, <2>1, <2>2, <2>3, OneDevice
<1>. QED
  BY <1>4, <1>11, <1>12, <1>13 DEF OnSnapshot

\* A row that does not exist is not readable.
LEMMA NoRowUnreadable ==
  ASSUME NEW d \in Database, NEW u \in Users
  PROVE  NoRow \notin Readable[d.policy][u]
<1>1. d.policy \in Policies
  BY DEF Database
<1>. QED
  BY <1>1, PolicyShape, SentinelsDistinct

\* A page takes the replica from its old cursor to the new one: a row that
\* changed in between shows its last change, if that one may be seen, and the
\* other rows show what they showed.
LEMMA PageShows ==
  ASSUME NEW d \in Database, LogSound(d), NEW u \in Users, NEW rep \in Replica,
         ReplicaFits(d, u, rep), rep.position # NoPosition,
         NEW answer, PageFits(d, u, rep.position, answer), ~answer.control,
         NEW rows, rows = AppliedPage(rep.rows, answer.changes)
  PROVE  /\ rows \in [Keys -> Entry]
         /\ \A k \in Keys : rows[k].sequence <= answer.cursor.sequence
         /\ answer.cursor.schema = d.schema =>
              \A k \in Keys : Unqueued(rep.pending, k) /\ Untouched(d, k, answer.cursor.sequence)
                                => Shows(d, u, k, rows[k])
<1>1. /\ PositionFits(d, rep.position) /\ \A k \in Keys : rep.rows[k].sequence <= rep.position.sequence
      /\ rep.rows \in [Keys -> Entry]
  BY DEF ReplicaFits, Replica
<1>2. /\ PositionFits(d, answer.cursor) /\ answer.cursor.schema = rep.position.schema
      /\ rep.position.sequence <= answer.cursor.sequence
      /\ \A change \in answer.changes :
           change \in Change /\ change.sequence \in (rep.position.sequence + 1) .. answer.cursor.sequence
  BY DEF PageFits
<1>3. PICK from \in Nat : from = rep.position.sequence
  BY <1>1 DEF PositionFits, Position
<1>4. PICK to \in Nat : to = answer.cursor.sequence
  BY <1>2 DEF PositionFits, Position
<1>5. PICK changes : changes = answer.changes
  OBVIOUS
<1>6. PICK old : old = rep.rows
  OBVIOUS
<1>7. /\ from <= to /\ old \in [Keys -> Entry] /\ \A k \in Keys : old[k].sequence <= from
      /\ \A change \in changes : change \in Change /\ change.sequence \in (from + 1) .. to
      /\ rows = AppliedPage(old, changes)
  BY <1>1, <1>2, <1>3, <1>4, <1>5, <1>6
<1>8. /\ rows \in [Keys -> Entry]
      /\ \A k \in Keys : rows[k].sequence <= to
      /\ \A k \in Keys : (\A x \in changes : x.key # k) => rows[k] = old[k]
      /\ \A x \in changes : (\A y \in changes : y.key = x.key => y.sequence <= x.sequence
                                                 /\ (y.sequence = x.sequence => y = x))
           => rows[x.key] = IF x.op = "delete" THEN Absent
                            ELSE [value |-> x.value, sequence |-> x.sequence]
  BY <1>7, AppliedPageFacts
<1>9. ASSUME answer.cursor.schema = d.schema, NEW k \in Keys, Unqueued(rep.pending, k),
             Untouched(d, k, to)
      PROVE  Shows(d, u, k, rows[k])
  <2>1. /\ d.base_sequence <= from /\ d.base_sequence \in Nat /\ to <= Len(d.changes)
        /\ Len(d.changes) \in Nat
    BY <1>1, <1>2, <1>3, <1>4, <1>9 DEF PositionFits, Database
  <2>2. /\ \A x \in changes : x = d.changes[x.sequence] /\ Visible(d, u, x)
        /\ \A i \in (from + 1) .. to : Visible(d, u, d.changes[i]) => d.changes[i] \in changes
    BY <1>3, <1>4, <1>5, <1>9 DEF PageFits
  <2>3. \A i \in 1 .. Len(d.changes) : d.changes[i].sequence = i
    BY DEF LogSound, LedgerSound, LogDense
  <2>4. NoRow \notin Readable[d.policy][u]
    BY NoRowUnreadable
  <2>5. CASE \A i \in (from + 1) .. to : d.changes[i].key # k
    <3>1. Untouched(d, k, from)
      BY <1>9, <2>1, <2>5 DEF Untouched
    <3>2. Shows(d, u, k, rep.rows[k])
      BY <1>2, <1>3, <1>9, <3>1 DEF ReplicaFits
    <3>3. \A x \in changes : x.key # k
      BY <1>7, <2>2, <2>5
    <3>. QED
      BY <1>6, <1>8, <3>2, <3>3
  <2>6. CASE \E i \in (from + 1) .. to : d.changes[i].key = k
    <3> DEFINE S == {i \in (from + 1) .. to : d.changes[i].key = k}
    <3>1. S \subseteq Nat /\ S # {} /\ \A i \in S : i <= to
      BY <2>6
    <3>2. PICK i \in S : \A j \in S : j <= i
      BY <3>1, GreatestExists
    <3>3. /\ i \in (from + 1) .. to /\ d.changes[i].key = k /\ i \in Nat /\ i > from /\ i <= to
          /\ \A j \in (from + 1) .. to : d.changes[j].key = k => j <= i
      BY <3>2
    <3> HIDE DEF S
    <3>4. IsLastOf(d, k, i)
      BY <1>9, <2>1, <3>3 DEF IsLastOf, Untouched
    <3>5. i \in 1 .. Len(d.changes) /\ i > d.base_sequence
      BY <2>1, <3>3
    <3>6. d.rows[k] = RowAfter(d.changes[i])
      BY <3>4, <3>5 DEF LogSound, LedgerSound, RowsExplained
    <3>7. CASE Visible(d, u, d.changes[i])
      <4>1. d.changes[i] \in changes /\ d.changes[i].sequence = i
        BY <2>2, <2>3, <3>3, <3>5, <3>7
      <4>2. \A y \in changes : y.key = k => y.sequence <= i /\ (y.sequence = i => y = d.changes[i])
        BY <1>7, <2>2, <3>3
      <4>3. rows[k] = IF d.changes[i].op = "delete" THEN Absent
                      ELSE [value |-> d.changes[i].value, sequence |-> i]
        BY <1>8, <3>3, <4>1, <4>2
      <4>. QED
        BY <2>4, <3>6, <3>7, <4>3 DEF Shows, RowAfter, Visible
    <3>8. CASE ~Visible(d, u, d.changes[i])
      <4>1. d.rows[k] \notin Readable[d.policy][u]
        BY <2>4, <3>6, <3>8 DEF RowAfter, Visible
      <4>. QED
        BY <3>4, <3>5, <3>8, <4>1 DEF Shows
    <3>. QED
      BY <3>7, <3>8
  <2>. QED
    BY <2>5, <2>6
<1>. QED
  BY <1>4, <1>8, <1>9

\* What storing a page with its cursor makes of a replica.
PageStored(rep, tsk, answer, rep2) ==
  /\ ~answer.control
  /\ rep2.rows = AppliedPage(rep.rows, answer.changes)
  /\ rep2.pending = rep.pending /\ rep2.rejected = rep.rejected
  /\ rep2.position = [answer.cursor EXCEPT !.schemaVersion = tsk.position.schemaVersion]

\* A replica that stored a page with its cursor is in order.
LEMMA PageReplica ==
  ASSUME NEW d \in Database, LogSound(d), NEW t, NEW c \in Devices, NEW rep, NEW tsk, NEW cl,
         NEW queued, DeviceFits(d, t, c, rep, tsk, cl, queued),
         cl.kind = "pull", cl.state = "done", NEW rep2, PageStored(rep, tsk, cl.response, rep2)
  PROVE  /\ rep2.rows \in [Keys -> Entry] /\ rep2.position \in Position
         /\ QueueFits(d, c, rep2, queued) /\ ReplicaFits(d, UserOf[c], rep2)
<1>1. /\ rep \in Replica /\ QueueFits(d, c, rep, queued) /\ ReplicaFits(d, UserOf[c], rep)
      /\ rep.position # NoPosition /\ tsk.position = rep.position
      /\ PageFits(d, UserOf[c], rep.position, cl.response)
  BY DEF DeviceFits, TaskFits, CallFits
<1>2. PICK answer : answer = cl.response
  OBVIOUS
<1>2a. /\ ~answer.control
       /\ rep2.rows = AppliedPage(rep.rows, answer.changes)
       /\ rep2.pending = rep.pending /\ rep2.rejected = rep.rejected
       /\ rep2.position = [answer.cursor EXCEPT !.schemaVersion = tsk.position.schemaVersion]
  BY <1>2 DEF PageStored
<1>3. ~answer.control /\ PageFits(d, UserOf[c], rep.position, answer) /\ UserOf[c] \in Users
  BY <1>1, <1>2, <1>2a, DeviceShape
<1>4. /\ rep2.rows \in [Keys -> Entry]
      /\ \A k \in Keys : rep2.rows[k].sequence <= answer.cursor.sequence
      /\ answer.cursor.schema = d.schema =>
           \A k \in Keys : Unqueued(rep.pending, k) /\ Untouched(d, k, answer.cursor.sequence)
                             => Shows(d, UserOf[c], k, rep2.rows[k])
  <2>1. PICK rows : rows = AppliedPage(rep.rows, answer.changes)
    OBVIOUS
  <2>2. /\ rows \in [Keys -> Entry]
        /\ \A k \in Keys : rows[k].sequence <= answer.cursor.sequence
        /\ answer.cursor.schema = d.schema =>
             \A k \in Keys : Unqueued(rep.pending, k) /\ Untouched(d, k, answer.cursor.sequence)
                               => Shows(d, UserOf[c], k, rows[k])
    BY <1>1, <1>3, <2>1, PageShows
  <2>. QED
    BY <1>2a, <2>1, <2>2
<1>5. PositionFits(d, answer.cursor) /\ rep.position \in Position
  BY <1>1, <1>3 DEF PageFits, ReplicaFits, PositionFits
<1>6. tsk.position.schemaVersion \in Nat /\ answer.cursor \in Position
  BY <1>1, <1>5 DEF Position, PositionFits
<1>7. /\ rep2.position \in Position /\ rep2.position.schema = answer.cursor.schema
      /\ rep2.position.sequence = answer.cursor.sequence
  BY <1>2a, <1>6 DEF Position
<1>8. PositionFits(d, rep2.position)
  BY <1>5, <1>7 DEF PositionFits
<1>9. QueueFits(d, c, rep2, queued)
  BY <1>1, <1>2a DEF QueueFits
<1>10. ReplicaFits(d, UserOf[c], rep2)
  BY <1>2a, <1>4, <1>7, <1>8 DEF ReplicaFits
<1>. QED
  BY <1>4, <1>7, <1>9, <1>10

\* pullFrom stores a page with its cursor, or asks for a snapshot.
LEMMA OnPullFits ==
  ASSUME TypeOK, AllSound, SyncInvariant, NEW c \in Devices, OnPull(c)
  PROVE  SyncInvariant'
<1>1. /\ Domains /\ \A r \in orphans : \E u \in Users : RequestFits(u, Offered, r)
      /\ DeviceFits(db, txn, c, replica[c], task[c], call[c], enqueued[c])
  BY DEF SyncInvariant
<1>2. /\ task[c] \in Task /\ replica[c] \in Replica /\ token[c] \in Tokens
      /\ call[c].kind = "pull" /\ call[c].state = "done" /\ task[c].stage = "pull"
  BY <1>1 DEF DeviceFits, TaskFits, Domains, OnPull, Answered
<1>3. /\ token' = token /\ enqueued' = enqueued /\ orphans' = orphans /\ faults' = faults
      /\ UNCHANGED <<db, txn>>
  BY DEF OnPull, serverVars
<1>4. ASSUME task' = [task EXCEPT ![c].stage = "control"], CallSnapshot(c), UNCHANGED replica
      PROVE  SyncInvariant'
  <2>1. /\ task'[c] \in Task /\ task'[c].stage = "control" /\ DOMAIN task' = Devices
        /\ \A e \in Devices \ {c} : task'[e] = task[e]
    BY <1>1, <1>2, <1>4 DEF Domains, Task, Stages
  <2>2. /\ call'[c] = [kind |-> "snapshot", state |-> "sent", token |-> token[c], request |-> NoPosition]
        /\ DOMAIN call' = Devices /\ \A e \in Devices \ {c} : call'[e] = call[e]
    BY <1>1, <1>4 DEF Domains, CallSnapshot, Call
  <2>3. DeviceFits(db, txn, c, replica[c], task'[c], call'[c], enqueued[c])
    <3>1. "control" \in Snapshotting
      BY DEF Snapshotting
    <3>. QED
      BY <1>1, <1>2, <2>1, <2>2, <3>1, AskSnapshotFits
  <2>4. Domains'
    BY <1>1, <1>3, <1>4, <2>1, <2>2 DEF Domains
  <2>. QED
    BY <1>1, <1>3, <1>4, <2>1, <2>2, <2>3, <2>4, OneDevice
<1>5. ASSUME NEW answer, answer = call[c].response, ~answer.control, NEW position,
             position = [answer.cursor EXCEPT !.schemaVersion = task[c].position.schemaVersion],
             replica' = [replica EXCEPT ![c].rows = AppliedPage(@, answer.changes),
                                        ![c].position = position],
             \/ /\ CallPull(c, position)
                /\ task' = [task EXCEPT ![c].position = position]
             \/ /\ call' = [call EXCEPT ![c] = NoCall]
                /\ task' = [task EXCEPT ![c] = Idle]
      PROVE  SyncInvariant'
  <2>1. PICK rows : rows = AppliedPage(replica[c].rows, answer.changes)
    OBVIOUS
  <2>2. replica' = [replica EXCEPT ![c].rows = rows, ![c].position = position]
    BY <1>5, <2>1
  <2>3. /\ replica' = [e \in Devices |-> replica'[e]] /\ \A e \in Devices \ {c} : replica'[e] = replica[e]
        /\ replica'[c].rows = rows /\ replica'[c].pending = replica[c].pending
        /\ replica'[c].rejected = replica[c].rejected /\ replica'[c].position = position
        /\ replica'[c] = [replica[c] EXCEPT !.rows = rows, !.position = position]
    BY <1>1, <1>2, <2>2 DEF Domains, Replica
  <2>4. /\ replica'[c].rows \in [Keys -> Entry] /\ replica'[c].position \in Position
        /\ QueueFits(db, c, replica'[c], enqueued[c]) /\ ReplicaFits(db, UserOf[c], replica'[c])
    <3>1. DeviceFits(db, txn, c, replica[c], task[c], call[c], enqueued[c])
      BY <1>1
    <3>2. db \in Database /\ LogSound(db)
      BY DEF TypeOK, AllSound
    <3>3. PageStored(replica[c], task[c], call[c].response, replica'[c])
      BY <1>5, <2>1, <2>3 DEF PageStored
    <3>4. call[c].kind = "pull" /\ call[c].state = "done"
      BY <1>2
    <3>. QED
      BY <3>1, <3>2, <3>3, <3>4, PageReplica
  <2>5. replica'[c] \in Replica
    BY <1>2, <2>3, <2>4 DEF Replica
  <2>6. replica'[c].position # NoPosition
    BY <2>4, NoPositionApart
  <2>7. CASE CallPull(c, position) /\ task' = [task EXCEPT ![c].position = position]
    <3>1. /\ task'[c] \in Task /\ task'[c].stage = "pull" /\ DOMAIN task' = Devices
          /\ task'[c].position = replica'[c].position
          /\ \A e \in Devices \ {c} : task'[e] = task[e]
      BY <1>1, <1>2, <2>3, <2>4, <2>7 DEF Domains, Task
    <3>2. /\ call'[c] = [kind |-> "pull", state |-> "sent", token |-> token[c],
                         request |-> replica'[c].position]
          /\ DOMAIN call' = Devices /\ \A e \in Devices \ {c} : call'[e] = call[e]
      BY <1>1, <2>3, <2>7 DEF Domains, CallPull, Call
    <3>3. DeviceFits(db, txn, c, replica'[c], task'[c], call'[c], enqueued[c])
      BY <1>2, <2>4, <2>5, <2>6, <3>1, <3>2, AskPageFits
    <3>4. Domains'
      BY <1>1, <1>3, <2>3, <3>1, <3>2 DEF Domains
    <3>. QED
      BY <1>1, <1>3, <2>3, <3>1, <3>2, <3>3, <3>4, OneDevice
  <2>8. CASE call' = [call EXCEPT ![c] = NoCall] /\ task' = [task EXCEPT ![c] = Idle]
    <3>1. /\ task'[c] = Idle /\ call'[c] = NoCall /\ DOMAIN task' = Devices /\ DOMAIN call' = Devices
          /\ \A e \in Devices \ {c} : task'[e] = task[e] /\ call'[e] = call[e]
      BY <1>1, <2>8 DEF Domains
    <3>2. DeviceFits(db, txn, c, replica'[c], task'[c], call'[c], enqueued'[c])
      BY <1>3, <2>4, <2>5, <3>1, IdleFits
    <3>3. Domains'
      BY <1>1, <1>3, <2>3, <3>1 DEF Domains
    <3>. QED
      BY <1>1, <1>3, <2>3, <3>1, <3>2, <3>3, OneDevice
  <2>. QED
    BY <1>5, <2>7, <2>8
<1>. QED
  BY <1>4, <1>5 DEF OnPull

-----------------------------------------------------------------------------
(* Answers of the server.                                                    *)

\* What a snapshot hands out.
LEMMA SnapshotFacts ==
  ASSUME NEW d \in Database, LogSound(d), NEW u \in Users, NEW t \in Tokens, NEW answer,
         answer = [rows |-> SnapshotRows(d, u),
                   position |-> CursorAt(latest_sync_sequence(d), t, d.schema)]
  PROVE  SnapshotFits(d, u, answer)
<1>1. /\ Len(d.changes) \in Nat /\ d.schema \in Nat /\ d.base_sequence \in Nat
      /\ d.versions \in [Keys -> Version] /\ d.rows \in [Keys -> Values \cup {NoRow}]
  BY DEF Database, Rows
<1>2. /\ d.next_sequence = Len(d.changes) + 1 /\ d.base_sequence <= Len(d.changes)
      /\ \A k \in Keys : d.versions[k].last_sequence <= Len(d.changes)
  BY DEF LogSound, LedgerSound, LogDense, BaseBound, VersionsBound
<1>3. /\ answer.rows = SnapshotRows(d, u)
      /\ answer.position = [sequence |-> Len(d.changes), token |-> t, schema |-> d.schema,
                            schemaVersion |-> d.schema]
  BY <1>1, <1>2 DEF CursorAt, latest_sync_sequence
<1>4. /\ answer.position \in Position /\ answer.position.schema = d.schema
      /\ answer.position.sequence = Len(d.changes)
  BY <1>1, <1>3 DEF Position
<1>5. PositionFits(d, answer.position)
  BY <1>1, <1>2, <1>4 DEF PositionFits
<1>6. \A k \in Keys : k \in DOMAIN answer.rows <=> d.rows[k] \in Readable[d.policy][u]
  BY <1>3 DEF SnapshotRows
<1>7. DOMAIN answer.rows \subseteq Keys
  BY <1>3 DEF SnapshotRows
<1>8. ASSUME NEW k \in DOMAIN answer.rows
      PROVE  answer.rows[k] = [value |-> d.rows[k],
                               sequence |-> IF d.versions[k].deleted THEN 0
                                            ELSE d.versions[k].last_sequence]
  BY <1>3 DEF SnapshotRows
<1>9. ASSUME NEW k \in DOMAIN answer.rows
      PROVE  /\ answer.rows[k].value = d.rows[k] /\ answer.rows[k] \in Entry
             /\ answer.rows[k].sequence <= answer.position.sequence
  <2>1. k \in Keys /\ d.rows[k] \in Values \cup {NoRow}
    BY <1>1, <1>7
  <2>2. d.versions[k].last_sequence \in Nat /\ d.versions[k].last_sequence <= Len(d.changes)
    BY <1>1, <1>2, <2>1 DEF Version
  <2>3. PICK s \in Nat : /\ s = IF d.versions[k].deleted THEN 0 ELSE d.versions[k].last_sequence
                         /\ s <= Len(d.changes)
    BY <1>1, <2>2
  <2>4. answer.rows[k] = [value |-> d.rows[k], sequence |-> s]
    BY <1>8, <2>3
  <2>. QED
    BY <1>4, <2>1, <2>3, <2>4 DEF Entry
<1>. QED
  BY <1>4, <1>5, <1>6, <1>7, <1>9 DEF SnapshotFits

\* What a page of the log hands out.
LEMMA PageFacts ==
  ASSUME NEW d \in Database, LogSound(d), NEW u \in Users, NEW t \in Tokens, NEW p,
         PositionFits(d, p), p.schema = d.schema, NEW page, page = PullPage(d, u, p.sequence, PullBatch),
         NEW answer,
         answer = [control |-> FALSE, changes |-> page.changes, has_more |-> page.has_more,
                   cursor |-> CursorAt(page.sequence, t, d.schema)]
  PROVE  PageFits(d, u, p, answer)
<1>1. /\ Len(d.changes) \in Nat /\ d.schema \in Nat /\ d.base_sequence \in Nat
      /\ d.changes \in Seq(Change)
  BY DEF Database
<1>2. LogDense(d) /\ d.base_sequence <= Len(d.changes)
  BY DEF LogSound, LedgerSound, BaseBound
<1>3. latest_sync_sequence(d) = Len(d.changes)
  BY <1>1, <1>2 DEF latest_sync_sequence, LogDense
<1>4. PICK after \in Nat : after = p.sequence
  BY DEF PositionFits, Position
<1>5. after <= Len(d.changes) /\ d.base_sequence <= after
  BY <1>4 DEF PositionFits
<1>6. after \in 0 .. latest_sync_sequence(d) /\ PullBatch \in Nat \ {0}
  BY <1>3, <1>5, DeviceShape
<1>7. /\ \A i \in (after + 1) .. page.sequence :
           Visible(d, u, d.changes[i]) => d.changes[i] \in page.changes
      /\ \A change \in page.changes :
           Visible(d, u, change) /\ change.sequence \in (after + 1) .. page.sequence
      /\ page.sequence \in after .. latest_sync_sequence(d)
      /\ \A change \in page.changes : change = d.changes[change.sequence]
  <2>1. page = PullPage(d, u, after, PullBatch)
    BY <1>4
  <2>. QED
    BY <1>2, <1>6, <2>1, PageSound
<1>8. page.sequence \in Nat /\ after <= page.sequence /\ page.sequence <= Len(d.changes)
  BY <1>1, <1>3, <1>7
<1>9. \A change \in page.changes : change \in Change
  <2>1. ASSUME NEW change \in page.changes
        PROVE  change.sequence \in 1 .. Len(d.changes)
    BY <1>1, <1>7, <1>8
  <2>. QED
    BY <1>1, <1>7, <2>1
<1>10. /\ answer.control = FALSE /\ answer.changes = page.changes
       /\ answer.cursor = [sequence |-> page.sequence, token |-> t, schema |-> d.schema,
                           schemaVersion |-> d.schema]
  BY DEF CursorAt
<1>11. /\ answer.cursor \in Position /\ answer.cursor.schema = d.schema
       /\ answer.cursor.sequence = page.sequence
  BY <1>1, <1>8, <1>10 DEF Position
<1>12. PositionFits(d, answer.cursor)
  BY <1>1, <1>5, <1>8, <1>11 DEF PositionFits
<1>. QED
  BY <1>4, <1>7, <1>8, <1>9, <1>10, <1>11, <1>12 DEF PageFits

\* A call that got its answer keeps the task in step.
LEMMA AnswerKeepsTask ==
  ASSUME NEW rep, NEW tsk, NEW cl, NEW cl2, TaskFits(rep, tsk, cl),
         cl.kind \in {"snapshot", "pull", "push"}, cl2.kind = cl.kind
  PROVE  TaskFits(rep, tsk, cl2)
<1>1. cl # NoCall
  BY DEF NoCall
<1>. QED
  BY <1>1 DEF TaskFits

\* A snapshot is read in one transaction.
LEMMA ServeSnapshotFits ==
  ASSUME TypeOK, AllSound, SyncInvariant, NEW c \in Devices, ServeSnapshot(c)
  PROVE  SyncInvariant'
<1>1. /\ Domains /\ \A r \in orphans : \E u \in Users : RequestFits(u, Offered, r)
      /\ DeviceFits(db, txn, c, replica[c], task[c], call[c], enqueued[c])
  BY DEF SyncInvariant
<1>2. /\ call[c].kind = "snapshot" /\ call[c].state = "sent" /\ call[c].token \in Tokens
      /\ UserOf[c] \in Users /\ db \in Database /\ LogSound(db)
  BY <1>1, DeviceShape DEF ServeSnapshot, Awaiting, DeviceFits, CallFits, TypeOK, AllSound
<1>3. PICK answer : answer = [rows |-> SnapshotRows(db, UserOf[c]),
                              position |-> CursorAt(latest_sync_sequence(db), call[c].token, db.schema)]
  OBVIOUS
<1>4. SnapshotFits(db, UserOf[c], answer)
  BY <1>2, <1>3, SnapshotFacts
<1>5. /\ call'[c] = [kind |-> "snapshot", state |-> "done", response |-> answer]
      /\ DOMAIN call' = Devices /\ \A e \in Devices \ {c} : call'[e] = call[e]
  BY <1>1, <1>2, <1>3 DEF ServeSnapshot, Answer, Domains
<1>6. call'[c].kind = "snapshot" /\ call'[c].state = "done" /\ call'[c].response = answer
  BY <1>5
<1>7. TaskFits(replica[c], task[c], call'[c])
  BY <1>1, <1>2, <1>6, AnswerKeepsTask DEF DeviceFits
<1>8. CallFits(db, txn, UserOf[c], replica[c], call'[c], enqueued[c])
  BY <1>4, <1>6 DEF CallFits
<1>9. /\ replica' = replica /\ task' = task /\ token' = token /\ enqueued' = enqueued
      /\ orphans' = orphans /\ faults' = faults /\ UNCHANGED <<db, txn>>
  BY DEF ServeSnapshot, serverVars
<1>10. DeviceFits(db, txn, c, replica'[c], task'[c], call'[c], enqueued'[c])
  BY <1>1, <1>7, <1>8, <1>9 DEF DeviceFits
<1>11. Domains'
  BY <1>1, <1>5, <1>9 DEF Domains
<1>. QED
  BY <1>1, <1>5, <1>9, <1>10, <1>11, OneDevice

\* A pull answers with a page, or asks for a snapshot.
LEMMA ServePullFits ==
  ASSUME TypeOK, AllSound, SyncInvariant, NEW c \in Devices, ServePull(c)
  PROVE  SyncInvariant'
<1>1. /\ Domains /\ \A r \in orphans : \E u \in Users : RequestFits(u, Offered, r)
      /\ DeviceFits(db, txn, c, replica[c], task[c], call[c], enqueued[c])
  BY DEF SyncInvariant
<1>2. /\ call[c].kind = "pull" /\ call[c].state = "sent" /\ call[c].token \in Tokens
      /\ call[c].request = replica[c].position
      /\ UserOf[c] \in Users /\ db \in Database /\ LogSound(db)
  BY <1>1, DeviceShape DEF ServePull, Awaiting, DeviceFits, CallFits, TypeOK, AllSound
<1>3. PositionFits(db, replica[c].position)
  BY <1>1, <1>2 DEF DeviceFits, TaskFits, ReplicaFits
<1>4. /\ replica' = replica /\ task' = task /\ token' = token /\ enqueued' = enqueued
      /\ orphans' = orphans /\ UNCHANGED <<db, txn>>
  BY DEF ServePull, serverVars
<1>5. PICK p : p = replica[c].position
  OBVIOUS
<1>6. ASSUME NEW answer, PageFits(db, UserOf[c], p, answer), Answer(c, "done", answer),
             faults' \in 0 .. MaxFaults
      PROVE  SyncInvariant'
  <2>1. /\ call'[c] = [kind |-> "pull", state |-> "done", response |-> answer]
        /\ DOMAIN call' = Devices /\ \A e \in Devices \ {c} : call'[e] = call[e]
    BY <1>1, <1>2, <1>6 DEF Answer, Domains
  <2>2. call'[c].kind = "pull" /\ call'[c].state = "done" /\ call'[c].response = answer
    BY <2>1
  <2>3. TaskFits(replica[c], task[c], call'[c])
    BY <1>1, <1>2, <2>2, AnswerKeepsTask DEF DeviceFits
  <2>4. CallFits(db, txn, UserOf[c], replica[c], call'[c], enqueued[c])
    BY <1>5, <1>6, <2>2 DEF CallFits
  <2>5. DeviceFits(db, txn, c, replica'[c], task'[c], call'[c], enqueued'[c])
    BY <1>1, <1>4, <2>3, <2>4 DEF DeviceFits
  <2>6. Domains'
    BY <1>1, <1>4, <1>6, <2>1 DEF Domains
  <2>. QED
    BY <1>1, <1>4, <2>1, <2>5, <2>6, OneDevice
<1>7. faults \in 0 .. MaxFaults
  BY <1>1 DEF Domains
<1>8. ASSUME NEW page, page = PullPage(db, UserOf[c], p.sequence, PullBatch), NEW answer,
             CursorValid(c, p), UNCHANGED faults, Answer(c, "done", answer),
             answer = [control |-> FALSE, changes |-> page.changes, has_more |-> page.has_more,
                       cursor |-> CursorAt(page.sequence, call[c].token, db.schema)]
      PROVE  SyncInvariant'
  <2>1. p.schema = db.schema /\ PositionFits(db, p)
    BY <1>3, <1>5, <1>8 DEF CursorValid
  <2>2. PageFits(db, UserOf[c], p, answer)
    BY <1>2, <1>8, <2>1, PageFacts
  <2>. QED
    BY <1>6, <1>7, <1>8, <2>2
<1>9. ASSUME NEW answer, answer = [control |-> TRUE], Answer(c, "done", answer),
             CursorValid(c, p) => faults < MaxFaults,
             faults' = IF CursorValid(c, p) THEN faults + 1 ELSE faults
      PROVE  SyncInvariant'
  <2>1. PageFits(db, UserOf[c], p, answer)
    BY <1>9 DEF PageFits
  <2>2. faults' \in 0 .. MaxFaults
    BY <1>7, <1>9, DeviceShape
  <2>. QED
    BY <1>6, <1>9, <2>1, <2>2
<1>10. call[c].request = p
  BY <1>2, <1>5
<1>. QED
  BY <1>8, <1>9, <1>10 DEF ServePull

\* A push for another schema version fails as a whole.
LEMMA RefusePushFits ==
  ASSUME SyncInvariant, NEW c \in Devices, RefusePush(c)
  PROVE  SyncInvariant'
<1>1. /\ Domains /\ \A r \in orphans : \E u \in Users : RequestFits(u, Offered, r)
      /\ DeviceFits(db, txn, c, replica[c], task[c], call[c], enqueued[c])
  BY DEF SyncInvariant
<1>2. call[c].kind = "push" /\ call[c].state = "sent"
  BY DEF RefusePush, Awaiting
<1>3. /\ call'[c] = [kind |-> "push", state |-> "failed", response |-> <<>>]
      /\ DOMAIN call' = Devices /\ \A e \in Devices \ {c} : call'[e] = call[e]
  BY <1>1, <1>2 DEF RefusePush, Answer, Domains
<1>4. call'[c].kind = "push" /\ call'[c].state = "failed"
  BY <1>3
<1>5. TaskFits(replica[c], task[c], call'[c])
  BY <1>1, <1>2, <1>4, AnswerKeepsTask DEF DeviceFits
<1>6. CallFits(db, txn, UserOf[c], replica[c], call'[c], enqueued[c])
  BY <1>4 DEF CallFits
<1>7. /\ replica' = replica /\ task' = task /\ token' = token /\ enqueued' = enqueued
      /\ orphans' = orphans /\ faults' = faults /\ UNCHANGED <<db, txn>>
  BY DEF RefusePush, serverVars
<1>8. DeviceFits(db, txn, c, replica'[c], task'[c], call'[c], enqueued'[c])
  BY <1>1, <1>5, <1>6, <1>7 DEF DeviceFits
<1>9. Domains'
  BY <1>1, <1>3, <1>7 DEF Domains
<1>. QED
  BY <1>1, <1>3, <1>7, <1>8, <1>9, OneDevice

-----------------------------------------------------------------------------
(* Transactions of the server.                                               *)

\* A device that is not being served does not depend on the transaction.
LEMMA DeviceAnyTxn ==
  ASSUME NEW d, NEW t, NEW t2, NEW c, NEW rep, NEW tsk, NEW cl, NEW queued,
         DeviceFits(d, t, c, rep, tsk, cl, queued), t.kind # "push" \/ cl.state # "serving"
  PROVE  DeviceFits(d, t2, c, rep, tsk, cl, queued)
BY DEF DeviceFits, CallFits

\* A device that is being served depends on the request alone.
LEMMA DeviceSameRequest ==
  ASSUME NEW d, NEW t, NEW t2, NEW c, NEW rep, NEW tsk, NEW cl, NEW queued,
         DeviceFits(d, t, c, rep, tsk, cl, queued), t2.kind = t.kind, t2.request = t.request
  PROVE  DeviceFits(d, t2, c, rep, tsk, cl, queued)
BY DEF DeviceFits, CallFits

\* A step of the server alone.
LEMMA ServerAlone ==
  ASSUME SyncInvariant, UNCHANGED clientVars, TxnFits(db', txn'),
         \A c \in Devices : DeviceFits(db', txn', c, replica[c], task[c], call[c], enqueued[c])
  PROVE  SyncInvariant'
<1>1. /\ replica' = replica /\ task' = task /\ call' = call /\ token' = token
      /\ enqueued' = enqueued /\ orphans' = orphans /\ faults' = faults
  BY DEF clientVars
<1>. QED
  BY <1>1 DEF SyncInvariant, Domains

\* A push that just began found the committed database.
LEMMA BeginPushFits ==
  ASSUME NEW d \in Database, NEW t, NEW request,
         t = [kind |-> "push", request |-> request, work |-> d, results |-> <<>>]
  PROVE  TxnFits(d, t)
<1>1. t.kind = "push" /\ t.work = d /\ t.results = <<>> /\ t.request = request
  OBVIOUS
<1>2. Grows(d, d)
  BY GrowsFromItself
<1>. QED
  BY <1>1, <1>2 DEF TxnFits

\* The fields of a request the devices send.
LEMMA RequestFields ==
  ASSUME NEW u \in Users, NEW r, RequestFits(u, Offered, r)
  PROVE  /\ r \in PushRequest /\ r.token \in Tokens /\ r.user = u
         /\ r.mutations \in [1 .. Len(r.mutations) -> Offered]
         /\ r = [user |-> u, token |-> r.token, schema |-> r.schema, mutations |-> r.mutations]
<1>1. /\ r.token \in Tokens /\ r.user = u /\ r.mutations \in Seq(Offered) /\ r.schema \in Nat
      /\ r = [user |-> u, token |-> r.token, schema |-> r.schema, mutations |-> r.mutations]
  BY DEF RequestFits
<1>2. r.mutations \in Seq(Mutation)
  BY <1>1, InputShape, SeqWidens
<1>3. r.mutations \in [1 .. Len(r.mutations) -> Offered]
  BY <1>1
<1>. QED
  BY <1>1, <1>2, <1>3 DEF PushRequest

\* The server begins the push a device waits for.
LEMMA ServePushFits ==
  ASSUME TypeOK, SyncInvariant, NEW c \in Devices, ServePush(c)
  PROVE  SyncInvariant'
<1>1. /\ Domains /\ \A r \in orphans : \E u \in Users : RequestFits(u, Offered, r)
      /\ \A e \in Devices : DeviceFits(db, txn, e, replica[e], task[e], call[e], enqueued[e])
  BY DEF SyncInvariant
<1>2. /\ call[c].kind = "push" /\ call[c].state = "sent" /\ txn.kind = "none"
      /\ txn' = [kind |-> "push", request |-> call[c].request, work |-> db, results |-> <<>>]
      /\ db' = db /\ db \in Database
  BY DEF ServePush, Awaiting, BeginPush, TypeOK
<1>3. TxnFits(db', txn')
  BY <1>2, BeginPushFits
<1>4. RequestFits(UserOf[c], enqueued[c], call[c].request)
  BY <1>1, <1>2 DEF DeviceFits, CallFits
<1>5. DOMAIN call[c] = {"kind", "state", "token", "request"}
  BY <1>1, <1>2 DEF DeviceFits, CallFits
<1>6. /\ call'[c] = [call[c] EXCEPT !.state = "serving"] /\ DOMAIN call' = Devices
      /\ \A e \in Devices \ {c} : call'[e] = call[e]
  BY <1>1 DEF ServePush, Domains
<1>7. call'[c].kind = "push" /\ call'[c].state = "serving" /\ call'[c].request = call[c].request
  BY <1>2, <1>5, <1>6
<1>8. /\ replica' = replica /\ task' = task /\ token' = token /\ enqueued' = enqueued
      /\ orphans' = orphans /\ faults' = faults
  BY DEF ServePush
<1>9. txn'.kind = "push" /\ txn'.request = call[c].request
  BY <1>2
<1>10. ASSUME NEW e \in Devices
       PROVE  DeviceFits(db', txn', e, replica'[e], task'[e], call'[e], enqueued'[e])
  <2>1. CASE e # c
    BY <1>1, <1>2, <1>6, <1>8, <2>1, DeviceAnyTxn
  <2>2. CASE e = c
    <3>1. TaskFits(replica[c], task[c], call'[c])
      BY <1>1, <1>2, <1>7, AnswerKeepsTask DEF DeviceFits
    <3>2. CallFits(db, txn', UserOf[c], replica[c], call'[c], enqueued[c])
      BY <1>4, <1>7, <1>9 DEF CallFits
    <3>. QED
      BY <1>1, <1>2, <1>8, <2>2, <3>1, <3>2 DEF DeviceFits
  <2>. QED
    BY <2>1, <2>2
<1>11. Domains'
  BY <1>1, <1>6, <1>8 DEF Domains
<1>. QED
  BY <1>1, <1>3, <1>8, <1>10, <1>11 DEF SyncInvariant

\* A late push finds no device waiting.
LEMMA ServeOrphanFits ==
  ASSUME TypeOK, SyncInvariant, NEW request \in orphans, ServeOrphan(request)
  PROVE  SyncInvariant'
<1>1. /\ Domains /\ \A r \in orphans : \E u \in Users : RequestFits(u, Offered, r)
      /\ \A e \in Devices : DeviceFits(db, txn, e, replica[e], task[e], call[e], enqueued[e])
  BY DEF SyncInvariant
<1>2. /\ replica' = replica /\ task' = task /\ call' = call /\ token' = token
      /\ enqueued' = enqueued /\ faults' = faults /\ orphans' = orphans \ {request}
  BY DEF ServeOrphan
<1>3. Domains'
  BY <1>1, <1>2 DEF Domains
<1>4. CASE BeginPush(request)
  <2>1. /\ txn.kind = "none" /\ db' = db /\ db \in Database
        /\ txn' = [kind |-> "push", request |-> request, work |-> db, results |-> <<>>]
    BY <1>4 DEF BeginPush, TypeOK
  <2>2. TxnFits(db', txn')
    BY <2>1, BeginPushFits
  <2>3. ASSUME NEW e \in Devices
        PROVE  DeviceFits(db', txn', e, replica'[e], task'[e], call'[e], enqueued'[e])
    BY <1>1, <1>2, <2>1, DeviceAnyTxn
  <2>. QED
    BY <1>1, <1>2, <1>3, <2>2, <2>3 DEF SyncInvariant
<1>5. CASE UNCHANGED serverVars
  <2>1. db' = db /\ txn' = txn
    BY <1>5 DEF serverVars
  <2>. QED
    BY <1>1, <1>2, <1>3, <2>1 DEF SyncInvariant
<1>. QED
  BY <1>4, <1>5 DEF ServeOrphan

\* The results of a committed push, for the device that waits for them.
LEMMA CommittedFits ==
  ASSUME NEW d \in Database, NEW t, t.kind = "push", t.work \in Database, TxnFits(d, t),
         Len(t.results) = Len(t.request.mutations), NEW u, NEW rep, ReplicaFits(d, u, rep)
  PROVE  PushFits(t.work, rep, t.request, t.results)
<1>1. Grows(d, t.work) /\ Len(d.changes) \in Nat
  BY DEF TxnFits, Database
<1>2. ASSUME NEW i \in 1 .. Len(t.results)
      PROVE  /\ t.results[i] # "rejected" => Received(t.work, t.request.user, t.request.mutations[i])
             /\ t.results[i] = "applied" => Touched(t.work, t.request.mutations[i].key, Len(d.changes))
  BY DEF TxnFits, ResultFits
<1>3. ASSUME NEW k, rep.position # NoPosition, rep.position.schema = t.work.schema,
             Touched(t.work, k, Len(d.changes))
      PROVE  Touched(t.work, k, rep.position.sequence)
  <2>1. rep.position.sequence \in Nat /\ rep.position.sequence <= Len(d.changes)
    BY <1>1, <1>3 DEF ReplicaFits, PositionFits, Position, Grows
  <2>2. Len(t.work.changes) \in Nat
    BY DEF Database
  <2>. QED
    BY <1>1, <1>3, <2>1, <2>2 DEF Touched
<1>. QED
  BY <1>2, <1>3 DEF PushFits

\* The commit of a push answers the device that still waits.
LEMMA AnswerPushFits ==
  ASSUME TypeOK, SyncInvariant, AnswerPush
  PROVE  SyncInvariant'
<1>1. /\ Domains /\ \A r \in orphans : \E u \in Users : RequestFits(u, Offered, r)
      /\ \A e \in Devices : DeviceFits(db, txn, e, replica[e], task[e], call[e], enqueued[e])
      /\ TxnFits(db, txn)
  BY DEF SyncInvariant
<1>2. /\ txn.kind = "push" /\ Len(txn.results) = Len(txn.request.mutations)
      /\ db' = txn.work /\ txn' = NoTxn
  BY DEF AnswerPush, CommitPush
<1>3. db \in Database /\ txn.work \in Database
  BY <1>2 DEF TypeOK, NoTxn, PushTxn, AppTxn
<1>4. Grows(db, txn.work)
  BY <1>1, <1>2 DEF TxnFits
<1>5. TxnFits(db', txn')
  BY <1>2 DEF TxnFits, NoTxn
<1>6. /\ replica' = replica /\ task' = task /\ token' = token /\ enqueued' = enqueued
      /\ orphans' = orphans /\ faults' = faults /\ DOMAIN call' = Devices
  BY DEF AnswerPush
<1>7. ASSUME NEW e \in Devices
      PROVE  DeviceFits(db', txn', e, replica'[e], task'[e], call'[e], enqueued'[e])
  <2>1. DeviceFits(txn.work, txn, e, replica[e], task[e], call[e], enqueued[e])
    BY <1>1, <1>3, <1>4, DeviceGrows
  <2>2. CASE call[e].state # "serving"
    <3>1. call'[e] = call[e]
      BY <2>2 DEF AnswerPush
    <3>2. DeviceFits(txn.work, NoTxn, e, replica[e], task[e], call[e], enqueued[e])
      BY <2>1, <2>2, DeviceAnyTxn
    <3>. QED
      BY <1>2, <1>6, <3>1, <3>2
  <2>3. CASE call[e].state = "serving"
    <3>1. call'[e] = [kind |-> "push", state |-> "done", response |-> txn.results,
                      request |-> txn.request]
      BY <2>3 DEF AnswerPush
    <3>2. /\ call'[e].kind = "push" /\ call'[e].state = "done"
          /\ call'[e].response = txn.results /\ call'[e].request = txn.request
      BY <3>1
    <3>3. /\ call[e].kind = "push" /\ txn.request = call[e].request
          /\ RequestFits(UserOf[e], enqueued[e], call[e].request)
      BY <1>1, <2>3 DEF DeviceFits, CallFits, NoCall
    <3>4. ReplicaFits(db, UserOf[e], replica[e])
      BY <1>1 DEF DeviceFits
    <3>5. PushFits(txn.work, replica[e], txn.request, txn.results)
      BY <1>1, <1>2, <1>3, <3>4, CommittedFits
    <3>6. CallFits(txn.work, NoTxn, UserOf[e], replica[e], call'[e], enqueued[e])
      BY <3>2, <3>3, <3>5 DEF CallFits
    <3>7. TaskFits(replica[e], task[e], call'[e])
      BY <2>1, <3>2, <3>3, AnswerKeepsTask DEF DeviceFits
    <3>. QED
      BY <1>2, <1>6, <2>1, <3>6, <3>7 DEF DeviceFits
  <2>. QED
    BY <2>2, <2>3
<1>8. Domains'
  BY <1>1, <1>6 DEF Domains
<1>. QED
  BY <1>1, <1>5, <1>6, <1>7, <1>8 DEF SyncInvariant

\* A transaction that is rolled back fails the call of the device that waits.
LEMMA FailTransactionFits ==
  ASSUME SyncInvariant, FailTransaction
  PROVE  SyncInvariant'
<1>1. /\ Domains /\ \A r \in orphans : \E u \in Users : RequestFits(u, Offered, r)
      /\ \A e \in Devices : DeviceFits(db, txn, e, replica[e], task[e], call[e], enqueued[e])
  BY DEF SyncInvariant
<1>2. txn' = NoTxn /\ db' = db
  BY DEF FailTransaction, Rollback
<1>3. TxnFits(db', txn')
  BY <1>2 DEF TxnFits, NoTxn
<1>4. /\ replica' = replica /\ task' = task /\ token' = token /\ enqueued' = enqueued
      /\ orphans' = orphans /\ DOMAIN call' = Devices
  BY DEF FailTransaction
<1>5. faults' \in 0 .. MaxFaults
  BY <1>1, DeviceShape DEF FailTransaction, Domains
<1>6. ASSUME NEW e \in Devices
      PROVE  DeviceFits(db', txn', e, replica'[e], task'[e], call'[e], enqueued'[e])
  <2>1. DeviceFits(db, txn, e, replica[e], task[e], call[e], enqueued[e])
    BY <1>1
  <2>2. CASE call[e].state # "serving"
    <3>1. call'[e] = call[e]
      BY <2>2 DEF FailTransaction
    <3>2. DeviceFits(db, NoTxn, e, replica[e], task[e], call[e], enqueued[e])
      BY <2>1, <2>2, DeviceAnyTxn
    <3>. QED
      BY <1>2, <1>4, <3>1, <3>2
  <2>3. CASE call[e].state = "serving"
    <3>1. call'[e] = [kind |-> "push", state |-> "failed", response |-> <<>>]
      BY <2>3 DEF FailTransaction
    <3>2. call'[e].kind = "push" /\ call'[e].state = "failed"
      BY <3>1
    <3>3. call[e].kind = "push"
      BY <2>1, <2>3 DEF DeviceFits, CallFits, NoCall
    <3>4. CallFits(db, NoTxn, UserOf[e], replica[e], call'[e], enqueued[e])
      BY <3>2 DEF CallFits
    <3>5. TaskFits(replica[e], task[e], call'[e])
      BY <2>1, <3>2, <3>3, AnswerKeepsTask DEF DeviceFits
    <3>. QED
      BY <1>2, <1>4, <2>1, <3>4, <3>5 DEF DeviceFits
  <2>. QED
    BY <2>2, <2>3
<1>7. Domains'
  BY <1>1, <1>4, <1>5 DEF Domains
<1>. QED
  BY <1>1, <1>3, <1>4, <1>6, <1>7 DEF SyncInvariant

\* One more mutation of a push: its result is what happened to the copy.
LEMMA ApplyFits ==
  ASSUME TypeOK, AllSound, TxnFits(db, txn), ApplyNextMutation
  PROVE  TxnFits(db', txn') /\ txn'.kind = txn.kind /\ txn'.request = txn.request /\ db' = db
<1> DEFINE n == Len(txn.results)
           m == txn.request.mutations[n + 1]
           u == txn.request.user
           t == txn.request.token
           status == MutationStatus(txn.work, u, t, m)
           after == ApplySyncMutation(txn.work, u, t, m)
<1>1. txn.kind = "push" /\ n < Len(txn.request.mutations)
  BY DEF ApplyNextMutation
<1>2. txn \in PushTxn /\ db \in Database
  BY <1>1 DEF TypeOK, NoTxn, AppTxn
<1>3. /\ txn.work \in Database /\ txn.results \in Seq(Status)
      /\ u \in Users /\ t \in Tokens /\ txn.request.mutations \in Seq(Mutation)
  BY <1>2 DEF PushTxn, PushRequest
<1>4. n \in Nat /\ m \in Mutation
  BY <1>1, <1>3
<1>5. txn' = [txn EXCEPT !.work = ApplySyncMutation(@, u, t, m), !.results = Append(@, status)]
  BY DEF ApplyNextMutation
<1>6. LogDense(txn.work)
  BY <1>1 DEF AllSound, LogSound, LedgerSound
<1> HIDE DEF n, m, u, t
<1>7. Grows(txn.work, after) /\ ResultFits(after, Len(txn.work.changes), u, m, status)
  BY <1>3, <1>4, <1>6, ApplyGrows
<1>8. after \in Database /\ status \in Status
  BY <1>3, <1>4, ApplyType
<1>9. txn' = [txn EXCEPT !.work = after, !.results = Append(@, status)]
  BY <1>5
<1> HIDE DEF after, status
<1>10. /\ txn'.kind = "push" /\ txn'.request = txn.request /\ txn'.work = after
       /\ txn'.results = Append(txn.results, status)
  BY <1>1, <1>2, <1>9 DEF PushTxn
<1>11. /\ Len(txn'.results) = n + 1 /\ txn'.results[n + 1] = status
       /\ \A i \in 1 .. n : txn'.results[i] = txn.results[i]
  BY <1>3, <1>10 DEF n
<1>12. Grows(db, txn.work) /\ Grows(db, after)
  <2>1. Grows(db, txn.work)
    BY <1>1 DEF TxnFits
  <2>. QED
    BY <1>2, <1>3, <1>7, <1>8, <2>1, GrowsTwice
<1>13. ASSUME NEW i \in 1 .. n
       PROVE  ResultFits(after, Len(db.changes), u, txn.request.mutations[i], txn.results[i])
  <2>1. ResultFits(txn.work, Len(db.changes), u, txn.request.mutations[i], txn.results[i])
    BY <1>1, <1>13 DEF TxnFits, n, u
  <2>. QED
    BY <1>3, <1>7, <1>8, <2>1, ResultGrows
<1>14. ResultFits(after, Len(db.changes), u, m, status)
  <2>1. /\ Len(db.changes) \in Nat /\ Len(txn.work.changes) \in Nat /\ Len(after.changes) \in Nat
        /\ Len(db.changes) <= Len(txn.work.changes)
    BY <1>2, <1>3, <1>8, <1>12 DEF Database, Grows
  <2>2. Touched(after, m.key, Len(txn.work.changes)) => Touched(after, m.key, Len(db.changes))
    BY <2>1 DEF Touched
  <2>. QED
    BY <1>7, <2>2 DEF ResultFits
<1>15. ASSUME NEW i \in 1 .. n + 1
       PROVE  ResultFits(after, Len(db.changes), u, txn.request.mutations[i], txn'.results[i])
  <2>1. i \in 1 .. n \/ i = n + 1
    BY <1>4
  <2>2. txn.request.mutations[n + 1] = m
    BY DEF m
  <2>. QED
    BY <1>11, <1>13, <1>14, <2>1, <2>2
<1>16. db' = db
  BY DEF ApplyNextMutation
<1>17. n + 1 <= Len(txn.request.mutations)
  BY <1>1, <1>3, <1>4
<1>. QED
  BY <1>1, <1>10, <1>11, <1>12, <1>15, <1>16, <1>17 DEF TxnFits, u

\* A push works on in its transaction.
LEMMA ApplyNextFits ==
  ASSUME TypeOK, AllSound, SyncInvariant, ApplyNextMutation, UNCHANGED clientVars
  PROVE  SyncInvariant'
<1>1. TxnFits(db', txn') /\ txn'.kind = txn.kind /\ txn'.request = txn.request /\ db' = db
  BY ApplyFits DEF SyncInvariant
<1>2. ASSUME NEW c \in Devices
      PROVE  DeviceFits(db', txn', c, replica[c], task[c], call[c], enqueued[c])
  <2>1. DeviceFits(db, txn, c, replica[c], task[c], call[c], enqueued[c])
    BY DEF SyncInvariant
  <2>. QED
    BY <1>1, <2>1, DeviceSameRequest
<1>. QED
  BY <1>1, <1>2, ServerAlone

\* Ordinary statements begin with the committed database.
LEMMA BeginStatementsFits ==
  ASSUME TypeOK, SyncInvariant, NEW actor, BeginStatements(actor), UNCHANGED clientVars
  PROVE  SyncInvariant'
<1>1. /\ txn.kind = "none" /\ txn' = [kind |-> "app", actor |-> actor, work |-> db]
      /\ db' = db /\ db \in Database
  BY DEF BeginStatements, TypeOK
<1>2. txn'.kind = "app" /\ txn'.work = db
  BY <1>1
<1>3. TxnFits(db', txn')
  BY <1>1, <1>2, GrowsFromItself DEF TxnFits
<1>4. ASSUME NEW c \in Devices
      PROVE  DeviceFits(db', txn', c, replica[c], task[c], call[c], enqueued[c])
  BY <1>1, DeviceAnyTxn DEF SyncInvariant
<1>. QED
  BY <1>3, <1>4, ServerAlone

\* A captured statement grows the copy inside its transaction.
LEMMA StatementFits ==
  ASSUME TypeOK, AllSound, SyncInvariant, NEW m \in Offered, Statement(m), UNCHANGED clientVars
  PROVE  SyncInvariant'
<1> DEFINE new == IF m.op = "delete" THEN NoRow ELSE m.value
           after == Write(txn.work, m.key, new, txn.actor, NoMutation)
<1>1. /\ txn.kind = "app" /\ db' = db
      /\ txn' = [txn EXCEPT !.work = Write(@, m.key, new, txn.actor, NoMutation)]
  BY DEF Statement
<1>2. txn \in AppTxn /\ db \in Database
  BY <1>1 DEF TypeOK, NoTxn, PushTxn
<1>3. txn.work \in Database /\ txn.actor \in Actors /\ LogDense(txn.work)
  BY <1>1, <1>2 DEF AppTxn, AllSound, LogSound, LedgerSound
<1>4. m.key \in Keys /\ new \in Values \cup {NoRow}
  BY InputShape DEF Mutation
<1> HIDE DEF new
<1>5. Grows(txn.work, after)
  BY <1>3, <1>4, WriteGrows
<1>6. after \in Database
  BY <1>3, <1>4, WriteType
<1>7. txn' = [txn EXCEPT !.work = after]
  BY <1>1
<1> HIDE DEF after
<1>8. txn'.kind = "app" /\ txn'.work = after
  BY <1>1, <1>2, <1>7 DEF AppTxn
<1>9. Grows(db, after)
  <2>1. Grows(db, txn.work)
    BY <1>1 DEF SyncInvariant, TxnFits
  <2>. QED
    BY <1>2, <1>3, <1>5, <1>6, <2>1, GrowsTwice
<1>10. TxnFits(db', txn')
  BY <1>1, <1>8, <1>9 DEF TxnFits
<1>11. ASSUME NEW c \in Devices
       PROVE  DeviceFits(db', txn', c, replica[c], task[c], call[c], enqueued[c])
  BY <1>1, DeviceAnyTxn DEF SyncInvariant
<1>. QED
  BY <1>10, <1>11, ServerAlone

\* Ordinary statements commit.
LEMMA CommitStatementsFits ==
  ASSUME TypeOK, SyncInvariant, CommitStatements, UNCHANGED clientVars
  PROVE  SyncInvariant'
<1>1. txn.kind = "app" /\ db' = txn.work /\ txn' = NoTxn
  BY DEF CommitStatements
<1>2. db \in Database /\ txn.work \in Database
  BY <1>1 DEF TypeOK, NoTxn, PushTxn, AppTxn
<1>3. Grows(db, txn.work)
  BY <1>1 DEF SyncInvariant, TxnFits
<1>4. TxnFits(db', txn')
  BY <1>1 DEF TxnFits, NoTxn
<1>5. ASSUME NEW c \in Devices
      PROVE  DeviceFits(db', txn', c, replica[c], task[c], call[c], enqueued[c])
  <2>1. DeviceFits(db, txn, c, replica[c], task[c], call[c], enqueued[c])
    BY DEF SyncInvariant
  <2>2. DeviceFits(txn.work, txn, c, replica[c], task[c], call[c], enqueued[c])
    BY <1>2, <1>3, <2>1, DeviceGrows
  <2>3. DeviceFits(txn.work, NoTxn, c, replica[c], task[c], call[c], enqueued[c])
    BY <1>1, <2>2, DeviceAnyTxn
  <2>. QED
    BY <1>1, <2>3
<1>. QED
  BY <1>4, <1>5, ServerAlone

\* A migration leaves every replica with a cursor of an older schema.
LEMMA MigrateFits ==
  ASSUME TypeOK, SyncInvariant, NEW rows \in Rewrites, NEW p \in Policies, Migrate(rows, p),
         UNCHANGED clientVars
  PROVE  SyncInvariant'
<1>1. txn.kind = "none" /\ txn' = txn /\ db' = Migrated(db, rows, p) /\ db \in Database
  BY DEF Migrate, TypeOK
<1>2. db' \in Database
  BY <1>1, MigrateType, InputShape
<1>3. db'.schema = db.schema + 1 /\ db'.mutations = db.mutations
  BY <1>1 DEF Migrated, Database
<1>4. TxnFits(db', txn')
  BY <1>1 DEF TxnFits
<1>5. ASSUME NEW c \in Devices
      PROVE  DeviceFits(db', txn', c, replica[c], task[c], call[c], enqueued[c])
  <2>1. DeviceFits(db, txn, c, replica[c], task[c], call[c], enqueued[c])
    BY DEF SyncInvariant
  <2>. QED
    BY <1>1, <1>2, <1>3, <2>1, DeviceMigrates
<1>. QED
  BY <1>4, <1>5, ServerAlone

-----------------------------------------------------------------------------
(* The system.                                                               *)

\* The invariant holds of empty replicas and an empty database.
LEMMA SyncInitFits ==
  ASSUME SyncInit
  PROVE  SyncInvariant
<1>1. txn.kind = "none"
  BY DEF SyncInit, Init, NoTxn
<1>2. TxnFits(db, txn)
  BY <1>1 DEF TxnFits
<1>3. (CHOOSE t \in Tokens : \A s \in Tokens : t <= s) \in Tokens
  <2>1. Tokens \subseteq Nat /\ Tokens # {}
    BY DeviceShape
  <2>2. Min(Tokens) \in Tokens /\ \A y \in Tokens : Min(Tokens) <= y
    BY <2>1, MinOfNaturals
  <2>. QED
    BY <2>2
<1>4. token \in [Devices -> Tokens]
  BY <1>3 DEF SyncInit
<1>5. Domains
  BY <1>4, DeviceShape DEF SyncInit, Domains
<1>6. ASSUME NEW c \in Devices
      PROVE  DeviceFits(db, txn, c, replica[c], task[c], call[c], enqueued[c])
  <2>1. /\ replica[c] = [rows |-> [k \in Keys |-> Absent], pending |-> <<>>,
                         rejected |-> {}, position |-> NoPosition]
        /\ task[c] = Idle /\ call[c] = NoCall /\ enqueued[c] = {}
    BY DEF SyncInit
  <2>2. replica[c].pending = <<>> /\ replica[c].position = NoPosition
    BY <2>1
  <2>3. Absent \in Entry
    BY DEF Absent, Entry
  <2>4. replica[c] \in Replica
    BY <2>1, <2>3 DEF Replica
  <2>5. QueueFits(db, c, replica[c], enqueued[c])
    BY <2>1, <2>2 DEF QueueFits
  <2>6. ReplicaFits(db, UserOf[c], replica[c])
    BY <2>2 DEF ReplicaFits
  <2>. QED
    BY <2>1, <2>4, <2>5, <2>6, IdleFits
<1>7. orphans = {}
  BY DEF SyncInit
<1>. QED
  BY <1>2, <1>5, <1>6, <1>7 DEF SyncInvariant

\* Every step of the system keeps the invariant.
LEMMA SyncStep ==
  ASSUME TypeOK, AllSound, SyncInvariant, [SyncNext]_allVars
  PROVE  SyncInvariant'
<1>1. ASSUME NEW c \in Devices, DeviceNext(c)
      PROVE  SyncInvariant'
  BY <1>1, StartSyncFits, PushOrPullFits, OnPushFits, OnSnapshotFits, OnPullFits, OnFailureFits
     DEF DeviceNext
<1>2. CASE ServeNext
  BY <1>2, ServeSnapshotFits, ServePullFits, ServePushFits, RefusePushFits, ApplyNextFits,
     AnswerPushFits, ServeOrphanFits DEF ServeNext
<1>3. CASE OtherNext
  BY <1>3, BeginStatementsFits, StatementFits, CommitStatementsFits, MigrateFits DEF OtherNext
<1>4. CASE EnvironmentNext
  BY <1>4, FailTransactionFits, EnqueueFits, StartWatchFits, AbandonFits, RefreshTokenFits
     DEF EnvironmentNext
<1>5. CASE UNCHANGED allVars
  <2>1. /\ db' = db /\ txn' = txn /\ replica' = replica /\ task' = task /\ call' = call
        /\ token' = token /\ enqueued' = enqueued /\ orphans' = orphans /\ faults' = faults
    BY <1>5 DEF allVars, serverVars, clientVars
  <2>. QED
    BY <2>1 DEF SyncInvariant, Domains
<1>. QED
  BY <1>1, <1>2, <1>3, <1>4, <1>5 DEF SyncNext

\* A push that devices send is one the server's specification offers.
LEMMA PushAllowed ==
  ASSUME NEW u \in Users, NEW r, RequestFits(u, Offered, r), BeginPush(r)
  PROVE  Next
<1>1. /\ r.token \in Tokens /\ r.mutations \in [1 .. Len(r.mutations) -> Offered]
      /\ r = [user |-> u, token |-> r.token, schema |-> r.schema, mutations |-> r.mutations]
  BY RequestFields
<1>2. r.schema = db.schema /\ Len(r.mutations) \in 1 .. BatchLimit
  BY DEF BeginPush
<1>3. BeginPush([user |-> u, token |-> r.token, schema |-> db.schema, mutations |-> r.mutations])
  BY <1>1, <1>2
<1>. QED
  BY <1>1, <1>2, <1>3 DEF Next, PushNext

\* Every step of the system is a step of the server, or leaves it alone.
LEMMA ServerStep ==
  ASSUME TypeOK, SyncInvariant, [SyncNext]_allVars
  PROVE  [Next]_serverVars
<1>1. ASSUME NEW c \in Devices, DeviceNext(c)
      PROVE  UNCHANGED serverVars
  BY <1>1 DEF DeviceNext, StartSync, PushOrPull, OnPush, OnSnapshot, OnPull, OnFailure
<1>2. ASSUME NEW c \in Devices, ServePush(c)
      PROVE  Next
  <2>1. DeviceFits(db, txn, c, replica[c], task[c], call[c], enqueued[c])
    BY DEF SyncInvariant
  <2>2. RequestFits(UserOf[c], enqueued[c], call[c].request) /\ enqueued[c] \subseteq Wishes[c]
    BY <1>2, <2>1 DEF ServePush, Awaiting, DeviceFits, CallFits, QueueFits
  <2>3. enqueued[c] \subseteq Offered /\ UserOf[c] \in Users
    BY <2>2, DeviceShape
  <2>4. RequestFits(UserOf[c], Offered, call[c].request)
    BY <2>2, <2>3, RequestWidens
  <2>. QED
    BY <1>2, <2>3, <2>4, PushAllowed DEF ServePush
<1>3. ASSUME NEW r \in orphans, ServeOrphan(r)
      PROVE  [Next]_serverVars
  <2>1. PICK u \in Users : RequestFits(u, Offered, r)
    BY DEF SyncInvariant
  <2>. QED
    BY <1>3, <2>1, PushAllowed DEF ServeOrphan
<1>4. CASE ServeNext
  BY <1>2, <1>3, <1>4 DEF ServeNext, ServeSnapshot, ServePull, RefusePush, AnswerPush, Next, PushNext
<1>5. CASE OtherNext
  <2>1. Developer \in Actors
    BY DEF Actors
  <2>. QED
    BY <1>5, <2>1 DEF OtherNext, Next, StatementNext, OperatorNext
<1>6. CASE EnvironmentNext
  BY <1>6 DEF EnvironmentNext, FailTransaction, Enqueue, StartWatch, Abandon, RefreshToken, Next
<1>7. CASE UNCHANGED allVars
  BY <1>7 DEF allVars
<1>. QED
  BY <1>1, <1>4, <1>5, <1>6, <1>7, SMTT(60) DEF SyncNext

\* The server and the devices together keep the invariant.
LEMMA SystemInvariant == SyncSpec => [](TypeOK /\ AllSound /\ SyncInvariant)
<1>1. SyncInit => TypeOK /\ AllSound /\ SyncInvariant
  <2> SUFFICES ASSUME SyncInit
               PROVE  TypeOK /\ AllSound /\ SyncInvariant
    OBVIOUS
  <2>1. db = EmptyDatabase /\ txn = NoTxn /\ backup = db
    BY DEF SyncInit, Init
  <2>2. TypeOK
    BY <2>1, EmptyType DEF TypeOK
  <2>3. AllSound
    BY <2>1, EmptySound DEF AllSound, NoTxn
  <2>. QED
    BY <2>2, <2>3, SyncInitFits
<1>2. TypeOK /\ AllSound /\ SyncInvariant /\ [SyncNext]_allVars
        => (TypeOK /\ AllSound /\ SyncInvariant)'
  <2> SUFFICES ASSUME TypeOK, AllSound, SyncInvariant, [SyncNext]_allVars
               PROVE  (TypeOK /\ AllSound /\ SyncInvariant)'
    OBVIOUS
  <2>1. [Next]_serverVars
    BY ServerStep
  <2>2. TypeOK'
    BY <2>1, TypeStep
  <2>3. AllSound'
    BY <2>1, SoundStep
  <2>4. SyncInvariant'
    BY SyncStep
  <2>. QED
    BY <2>2, <2>3, <2>4
<1>. QED
  BY <1>1, <1>2, PTL DEF SyncSpec

\* The devices, their lost and late calls included, drive the project database
\* only through steps the server's own specification allows: every property of
\* SyncServer holds of the whole system.
THEOREM DevicesImplementServer == SyncSpec => Spec
<1>1. SyncInit => Init
  BY DEF SyncInit
<1>2. TypeOK /\ AllSound /\ SyncInvariant /\ [SyncNext]_allVars => [Next]_serverVars
  BY ServerStep
<1>. QED
  BY <1>1, <1>2, SystemInvariant, PTL DEF SyncSpec, Spec

\* A mutation handed to mutate() stays queued until the server executed it or
\* it is recorded as rejected, whatever fails on the way.
THEOREM PendingNotLostHolds == SyncSpec => []PendingNotLost
<1>1. SyncInvariant => PendingNotLost
  BY DEF SyncInvariant, DeviceFits, QueueFits, Received, PendingNotLost
<1>. QED
  BY <1>1, SystemInvariant, PTL

\* The invariant says what a faithful replica is.
LEMMA InvariantImplies ==
  ASSUME SyncInvariant
  PROVE  ReplicaFaithful
<1>1. SyncTypeOK
  <2>1. \A c \in Devices : replica[c] \in Replica /\ TaskFits(replica[c], task[c], call[c])
    BY DEF SyncInvariant, DeviceFits
  <2>2. replica = [c \in Devices |-> replica[c]] /\ token \in [Devices -> Tokens]
        /\ faults \in 0 .. MaxFaults
    BY DEF SyncInvariant, Domains
  <2>3. replica \in [Devices -> Replica]
    BY <2>1, <2>2
  <2>4. ASSUME NEW c \in Devices
        PROVE  /\ task[c].stage \in Stages /\ task[c].position \in Position \cup {NoPosition}
               /\ task[c].stage = "idle" => call[c] = NoCall
    BY <2>1 DEF TaskFits, Task
  <2>5. ASSUME NEW c \in Devices
        PROVE  CallType(c)
    BY DEF SyncInvariant, DeviceFits, CallFits, CallType
  <2>6. orphans \subseteq PushRequest
    BY RequestFields DEF SyncInvariant
  <2>. QED
    BY <2>2, <2>3, <2>4, <2>5, <2>6 DEF SyncTypeOK
<1>2. ASSUME NEW c \in Devices, Current(c), NEW k \in Settled(c)
      PROVE  k \in Keys /\ Shows(db, UserOf[c], k, replica[c].rows[k])
  <2>1. ReplicaFits(db, UserOf[c], replica[c])
    BY DEF SyncInvariant, DeviceFits
  <2>2. /\ k \in Keys /\ Unqueued(replica[c].pending, k)
        /\ Untouched(db, k, replica[c].position.sequence)
    BY <1>2 DEF Settled, Unqueued, Untouched
  <2>. QED
    BY <1>2, <2>1, <2>2 DEF Current, ReplicaFits
<1>3. ReplicaComplete
  BY <1>2 DEF ReplicaComplete, Shows, CanRead
<1>4. NoGhostRows
  BY <1>2 DEF NoGhostRows, Shows, CanRead
<1>. QED
  BY <1>1, <1>3, <1>4 DEF ReplicaFaithful

\* Behind its cursor a replica shows every row its user may read, and none the
\* server took away in the user's sight, for any number of devices, faults and
\* migrations: #resnapshot, applyChange and consumePushResults leave no gap.
THEOREM ReplicaFaithfulHolds == SyncSpec => []ReplicaFaithful
<1>1. SyncInvariant => ReplicaFaithful
  BY InvariantImplies
<1>. QED
  BY <1>1, SystemInvariant, PTL

=============================================================================
