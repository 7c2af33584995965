-------------------------- MODULE SyncWorkerProofs --------------------------
(***************************************************************************)
(* Proofs about the sync worker and the engine it runs: what it stores can *)
(* be restored, its history above the minimum has no gap and applies a     *)
(* mutation once, and what it answered is on the disk, for every number of *)
(* subjects, rows and mutations, every retention and every bound.          *)
(***************************************************************************)
EXTENDS SyncWorker, FiniteSetTheorems, WellFoundedInduction, TLAPS

-----------------------------------------------------------------------------
(* Recursion over the positions of a sequence *)

\* A nonempty set of naturals has a least element.
LEMMA LeastNatural ==
  ASSUME NEW S, S \subseteq Nat, S # {}
  PROVE  \E x \in S : \A y \in S : x <= y
<1>1. PICK x \in S : \A y \in S : ~(<<y, x>> \in OpToRel(<, Nat))
  BY NatLessThanWellFounded, WFMin, Zenon
<1>2. \A p, q \in Nat : <<q, p>> \in OpToRel(<, Nat) <=> q < p
  BY Zenon DEF OpToRel
<1>3. \A y \in S : ~(y < x) /\ y \in Nat /\ x \in Nat
  BY <1>1, <1>2, Zenon
<1>4. \A y \in S : x <= y
  BY <1>3
<1>. QED
  BY <1>4

\* The function Applied is defined by, up to a position.
AppliedTo(f, e, u, batch, now, n) ==
  f = [k \in 0 .. n |-> IF k = 0 THEN e ELSE ApplyMutation(f[k - 1], u, batch[k], now)]

\* The engines after the first mutations of a batch exist: the recursion of
\* apply_batch is well founded.
LEMMA AppliedExists ==
  ASSUME NEW e, NEW u, NEW batch, NEW now, NEW n \in Nat
  PROVE  \E f : AppliedTo(f, e, u, batch, now, n)
<1> DEFINE Bad == {k \in Nat : ~\E f : AppliedTo(f, e, u, batch, now, k)}
<1>1. SUFFICES ASSUME Bad # {} PROVE FALSE
  OBVIOUS
<1>2. PICK k \in Bad : \A y \in Bad : k <= y
  BY <1>1, LeastNatural, Zenon
<1>3. CASE k = 0
  <2>1. PICK f : f = [q \in 0 .. 0 |-> e]
    OBVIOUS
  <2>2. AppliedTo(f, e, u, batch, now, 0)
    BY <2>1 DEF AppliedTo
  <2>. QED
    BY <1>2, <1>3, <2>2
<1>4. CASE k # 0
  <2>1. k \in Nat /\ k - 1 \in Nat /\ k - 1 \notin Bad
    BY <1>2, <1>4
  <2>2. PICK f : AppliedTo(f, e, u, batch, now, k - 1)
    BY <2>1
  <2>3. PICK g : g = [q \in 0 .. k |-> IF q = k THEN ApplyMutation(f[k - 1], u, batch[k], now)
                                       ELSE f[q]]
    OBVIOUS
  <2>4. \A q \in 0 .. k - 1 : g[q] = f[q]
    BY <2>1, <2>3
  <2>5. \A q \in 0 .. k - 1 :
          f[q] = IF q = 0 THEN e ELSE ApplyMutation(f[q - 1], u, batch[q], now)
    BY <2>2 DEF AppliedTo
  <2>6. \A q \in 0 .. k :
          g[q] = IF q = 0 THEN e ELSE ApplyMutation(g[q - 1], u, batch[q], now)
    <3>. TAKE q \in 0 .. k
    <3>1. CASE q = k
      <4>1. k - 1 \in 0 .. k - 1 /\ q # 0 /\ q \in 0 .. k
        BY <2>1, <3>1, <1>4
      <4>2. g[k - 1] = f[k - 1] /\ g[q] = ApplyMutation(f[k - 1], u, batch[k], now)
        BY <4>1, <2>4, <2>3, <3>1
      <4>. QED
        BY <4>1, <4>2, <3>1
    <3>2. CASE q # k /\ q # 0
      <4>1. q \in 0 .. k - 1 /\ q - 1 \in 0 .. k - 1
        BY <3>2, <2>1
      <4>2. g[q] = f[q] /\ g[q - 1] = f[q - 1]
        BY <4>1, <2>4
      <4>. QED
        BY <4>1, <4>2, <2>5, <3>2
    <3>3. CASE q # k /\ q = 0
      <4>1. q \in 0 .. k - 1
        BY <3>3, <2>1
      <4>. QED
        BY <4>1, <2>4, <2>5, <3>3
    <3>. QED
      BY <3>1, <3>2, <3>3
  <2>7. g = [q \in 0 .. k |-> g[q]]
    BY <2>3
  <2>8. AppliedTo(g, e, u, batch, now, k)
    BY <2>6, <2>7 DEF AppliedTo
  <2>. QED
    BY <1>2, <2>8
<1>. QED
  BY <1>3, <1>4

\* What Applied computes: the engine itself, then one mutation after another.
LEMMA AppliedSteps ==
  ASSUME NEW e, NEW u, NEW batch, Len(batch) \in Nat, NEW now
  PROVE  /\ Applied(e, u, batch, now)[0] = e
         /\ \A n \in 1 .. Len(batch) :
              Applied(e, u, batch, now)[n] =
                ApplyMutation(Applied(e, u, batch, now)[n - 1], u, batch[n], now)
<1>1. Applied(e, u, batch, now) =
        CHOOSE f : f = [k \in 0 .. Len(batch) |->
                          IF k = 0 THEN e ELSE ApplyMutation(f[k - 1], u, batch[k], now)]
  BY DEF Applied
<1>2. \E f : f = [k \in 0 .. Len(batch) |->
                    IF k = 0 THEN e ELSE ApplyMutation(f[k - 1], u, batch[k], now)]
  <2>1. PICK f : AppliedTo(f, e, u, batch, now, Len(batch))
    BY AppliedExists
  <2>. QED
    BY <2>1, Zenon DEF AppliedTo
<1>3. PICK f : f = Applied(e, u, batch, now)
  OBVIOUS
<1>4. f = [k \in 0 .. Len(batch) |->
             IF k = 0 THEN e ELSE ApplyMutation(f[k - 1], u, batch[k], now)]
  BY <1>1, <1>2, <1>3, Zenon
<1>5. \A k \in 0 .. Len(batch) :
        f[k] = IF k = 0 THEN e ELSE ApplyMutation(f[k - 1], u, batch[k], now)
  BY <1>4
<1>6. f[0] = e
  BY <1>5
<1>7. \A n \in 1 .. Len(batch) : f[n] = ApplyMutation(f[n - 1], u, batch[n], now)
  BY <1>5
<1>. QED
  BY <1>3, <1>6, <1>7, Zenon

KeptTo(f, events, cutoff, n) ==
  f = [k \in 0 .. n |-> IF k = 0 THEN <<>>
                        ELSE IF events[k].committed >= cutoff THEN Append(f[k - 1], events[k])
                        ELSE f[k - 1]]

\* The sequences retain goes through exist.
LEMMA KeptExists ==
  ASSUME NEW events, NEW cutoff, NEW n \in Nat
  PROVE  \E f : KeptTo(f, events, cutoff, n)
<1> DEFINE Bad == {k \in Nat : ~\E f : KeptTo(f, events, cutoff, k)}
           Next1(before, k) == IF events[k].committed >= cutoff THEN Append(before, events[k])
                               ELSE before
<1>1. SUFFICES ASSUME Bad # {} PROVE FALSE
  OBVIOUS
<1>2. PICK k \in Bad : \A y \in Bad : k <= y
  BY <1>1, LeastNatural, Zenon
<1>3. CASE k = 0
  <2>1. PICK f : f = [q \in 0 .. 0 |-> <<>>]
    OBVIOUS
  <2>2. KeptTo(f, events, cutoff, 0)
    BY <2>1 DEF KeptTo
  <2>. QED
    BY <1>2, <1>3, <2>2
<1>4. CASE k # 0
  <2>1. k \in Nat /\ k - 1 \in Nat /\ k - 1 \notin Bad
    BY <1>2, <1>4
  <2>2. PICK f : KeptTo(f, events, cutoff, k - 1)
    BY <2>1
  <2>3. PICK g : g = [q \in 0 .. k |-> IF q = k THEN Next1(f[k - 1], k) ELSE f[q]]
    OBVIOUS
  <2>4. \A q \in 0 .. k - 1 : g[q] = f[q]
    BY <2>1, <2>3
  <2>5. \A q \in 0 .. k - 1 : f[q] = IF q = 0 THEN <<>> ELSE Next1(f[q - 1], q)
    BY <2>2 DEF KeptTo
  <2>6. \A q \in 0 .. k : g[q] = IF q = 0 THEN <<>> ELSE Next1(g[q - 1], q)
    <3>. TAKE q \in 0 .. k
    <3>1. CASE q = k
      <4>1. k - 1 \in 0 .. k - 1 /\ q # 0 /\ q \in 0 .. k
        BY <2>1, <3>1, <1>4
      <4>2. g[k - 1] = f[k - 1] /\ g[q] = Next1(f[k - 1], k)
        BY <4>1, <2>4, <2>3, <3>1
      <4>. QED
        BY <4>1, <4>2, <3>1
    <3>2. CASE q # k /\ q # 0
      <4>1. q \in 0 .. k - 1 /\ q - 1 \in 0 .. k - 1
        BY <3>2, <2>1
      <4>2. g[q] = f[q] /\ g[q - 1] = f[q - 1]
        BY <4>1, <2>4
      <4>. QED
        BY <4>1, <4>2, <2>5, <3>2
    <3>3. CASE q # k /\ q = 0
      <4>1. q \in 0 .. k - 1
        BY <3>3, <2>1
      <4>. QED
        BY <4>1, <2>4, <2>5, <3>3
    <3>. QED
      BY <3>1, <3>2, <3>3
  <2>7. g = [q \in 0 .. k |-> g[q]]
    BY <2>3
  <2>8. KeptTo(g, events, cutoff, k)
    BY <2>6, <2>7 DEF KeptTo
  <2>. QED
    BY <1>2, <2>8
<1>. QED
  BY <1>3, <1>4

\* t holds the events among the first n that are not older than the cutoff, in
\* their order.
IsKept(t, events, cutoff, n, S) ==
  /\ t \in Seq(S)
  /\ \A i \in 1 .. Len(t) : \E k \in 1 .. n : t[i] = events[k]
  /\ \A i, j \in 1 .. Len(t) :
       i < j => \E k, l \in 1 .. n : k < l /\ t[i] = events[k] /\ t[j] = events[l]
  /\ \A k \in 1 .. n : events[k].committed >= cutoff => \E i \in 1 .. Len(t) : t[i] = events[k]

\* One step of retain.
LEMMA IsKeptStep ==
  ASSUME NEW S, NEW events, Len(events) \in Nat, \A k \in 1 .. Len(events) : events[k] \in S,
         NEW cutoff, NEW n \in 1 .. Len(events), NEW t, IsKept(t, events, cutoff, n - 1, S),
         NEW t2, t2 = IF events[n].committed >= cutoff THEN Append(t, events[n]) ELSE t
  PROVE  IsKept(t2, events, cutoff, n, S)
<1>0. n \in Nat /\ n \in 1 .. n /\ \A k \in 1 .. n - 1 : k \in 1 .. n /\ k < n
  OBVIOUS
<1>1. CASE events[n].committed >= cutoff
  <2>1. t \in Seq(S) /\ events[n] \in S
    BY DEF IsKept
  <2>2. PICK ev : ev = events[n]
    OBVIOUS
  <2>3. t2 = Append(t, ev)
    BY <1>1, <2>2
  <2>4. /\ t2 \in Seq(S) /\ Len(t2) = Len(t) + 1 /\ Len(t) \in Nat
        /\ t2[Len(t) + 1] = ev /\ \A i \in 1 .. Len(t) : t2[i] = t[i]
    BY <2>1, <2>2, <2>3
  <2>5. \A i \in 1 .. Len(t2) : i \in 1 .. Len(t) \/ i = Len(t) + 1
    BY <2>4
  <2>6. \A i \in 1 .. Len(t2) : \E k \in 1 .. n : t2[i] = events[k]
    BY <1>0, <2>2, <2>4, <2>5 DEF IsKept
  <2>7. \A i, j \in 1 .. Len(t2) :
          i < j => \E k, l \in 1 .. n : k < l /\ t2[i] = events[k] /\ t2[j] = events[l]
    <3>. SUFFICES ASSUME NEW i \in 1 .. Len(t2), NEW j \in 1 .. Len(t2), i < j
                  PROVE  \E k, l \in 1 .. n : k < l /\ t2[i] = events[k] /\ t2[j] = events[l]
      OBVIOUS
    <3>1. i \in 1 .. Len(t)
      BY <2>4, <2>5
    <3>2. CASE j \in 1 .. Len(t)
      <4>1. PICK k, l \in 1 .. n - 1 : k < l /\ t[i] = events[k] /\ t[j] = events[l]
        BY <3>1, <3>2 DEF IsKept
      <4>. QED
        BY <4>1, <3>1, <3>2, <1>0, <2>4
    <3>3. CASE j = Len(t) + 1
      <4>1. PICK k \in 1 .. n - 1 : t[i] = events[k]
        BY <3>1 DEF IsKept
      <4>2. k \in 1 .. n /\ k < n /\ t2[i] = events[k] /\ t2[j] = events[n]
        BY <4>1, <3>1, <3>3, <1>0, <2>2, <2>4
      <4>. QED
        BY <4>2, <1>0
    <3>. QED
      BY <3>2, <3>3, <2>5
  <2>8. \A k \in 1 .. n : events[k].committed >= cutoff =>
          \E i \in 1 .. Len(t2) : t2[i] = events[k]
    <3>. SUFFICES ASSUME NEW k \in 1 .. n, events[k].committed >= cutoff
                  PROVE  \E i \in 1 .. Len(t2) : t2[i] = events[k]
      OBVIOUS
    <3>1. CASE k = n
      <4>1. Len(t) + 1 \in 1 .. Len(t2)
        BY <2>4
      <4>. QED
        BY <3>1, <4>1, <2>2, <2>4
    <3>2. CASE k # n
      <4>1. k \in 1 .. n - 1
        BY <3>2, <1>0
      <4>2. PICK i \in 1 .. Len(t) : t[i] = events[k]
        BY <4>1 DEF IsKept
      <4>. QED
        BY <4>2, <2>4
    <3>. QED
      BY <3>1, <3>2
  <2>. QED
    BY <2>4, <2>6, <2>7, <2>8 DEF IsKept
<1>2. CASE ~(events[n].committed >= cutoff)
  <2>1. t2 = t
    BY <1>2
  <2>2. t \in Seq(S) /\ \A i \in 1 .. Len(t) : \E k \in 1 .. n : t[i] = events[k]
    BY <1>0 DEF IsKept
  <2>3. \A i, j \in 1 .. Len(t) :
          i < j => \E k, l \in 1 .. n : k < l /\ t[i] = events[k] /\ t[j] = events[l]
    BY <1>0 DEF IsKept
  <2>4. \A k \in 1 .. n : events[k].committed >= cutoff =>
          k \in 1 .. n - 1
    BY <1>0, <1>2
  <2>5. \A k \in 1 .. n : events[k].committed >= cutoff =>
          \E i \in 1 .. Len(t) : t[i] = events[k]
    BY <2>4 DEF IsKept
  <2>. QED
    BY <2>1, <2>2, <2>3, <2>5 DEF IsKept
<1>. QED
  BY <1>1, <1>2

\* What compaction keeps of the events: those that are young enough, in order.
LEMMA KeptIsKept ==
  ASSUME NEW S, NEW events \in Seq(S), NEW cutoff
  PROVE  IsKept(Kept(events, cutoff), events, cutoff, Len(events), S)
<1>0. Len(events) \in Nat /\ \A k \in 1 .. Len(events) : events[k] \in S
  OBVIOUS
<1>1. PICK f : f = CHOOSE g : g = [k \in 0 .. Len(events) |->
                        IF k = 0 THEN <<>>
                        ELSE IF events[k].committed >= cutoff THEN Append(g[k - 1], events[k])
                        ELSE g[k - 1]]
  OBVIOUS
<1>2. Kept(events, cutoff) = f[Len(events)]
  BY <1>1 DEF Kept
<1>3. KeptTo(f, events, cutoff, Len(events))
  <2>1. PICK g : KeptTo(g, events, cutoff, Len(events))
    BY <1>0, KeptExists
  <2>. QED
    BY <2>1, <1>1, Zenon DEF KeptTo
<1>4. /\ f[0] = <<>>
      /\ \A n \in 1 .. Len(events) :
           f[n] = IF events[n].committed >= cutoff THEN Append(f[n - 1], events[n]) ELSE f[n - 1]
  <2>1. \A n \in 0 .. Len(events) :
          f[n] = IF n = 0 THEN <<>>
                 ELSE IF events[n].committed >= cutoff THEN Append(f[n - 1], events[n])
                 ELSE f[n - 1]
    BY <1>3, Zenon DEF KeptTo
  <2>2. 0 \in 0 .. Len(events) /\ \A n \in 1 .. Len(events) : n \in 0 .. Len(events) /\ n # 0
    BY <1>0
  <2>. QED
    BY <2>1, <2>2, Zenon
<1> DEFINE Bad == {k \in 0 .. Len(events) : ~IsKept(f[k], events, cutoff, k, S)}
<1>5. Bad = {}
  <2>1. SUFFICES ASSUME Bad # {} PROVE FALSE
    OBVIOUS
  <2>a. Bad \subseteq Nat
    BY <1>0
  <2>2. PICK k \in Bad : \A y \in Bad : k <= y
    BY <2>a, <2>1, LeastNatural, Zenon
  <2>3. CASE k = 0
    <3>1. <<>> \in Seq(S) /\ Len(<<>>) = 0 /\ 1 .. 0 = {}
      OBVIOUS
    <3>2. IsKept(<<>>, events, cutoff, 0, S)
      BY <3>1 DEF IsKept
    <3>. QED
      BY <2>2, <2>3, <3>2, <1>4
  <2>4. CASE k # 0
    <3>1. k \in 1 .. Len(events) /\ k - 1 \in 0 .. Len(events) /\ k - 1 \notin Bad
      BY <1>0, <2>2, <2>4
    <3>2. IsKept(f[k - 1], events, cutoff, k - 1, S)
      BY <3>1
    <3>3. IsKept(f[k], events, cutoff, k, S)
      BY <1>0, <1>4, <3>1, <3>2, IsKeptStep
    <3>. QED
      BY <2>2, <3>3
  <2>. QED
    BY <2>3, <2>4
<1>6. Len(events) \in 0 .. Len(events)
  BY <1>0
<1>. QED
  BY <1>2, <1>5, <1>6

-----------------------------------------------------------------------------
(* What holds of every engine the worker holds, stores or goes back to *)

Event == ChangeEvent \cup ControlEvent
IsChange(event) == event.kind # "resnapshot"

\* Events are numbered upwards, and none is missing above the minimum.
HistorySound(e) ==
  /\ e.next_sequence # 0 /\ e.minimum <= latest_sequence(e)
  /\ \A i \in 1 .. Len(e.events) : e.events[i].sequence \in 1 .. latest_sequence(e)
  /\ \A i, j \in 1 .. Len(e.events) : i < j => e.events[i].sequence < e.events[j].sequence
  /\ \A sequence \in (e.minimum + 1) .. latest_sequence(e) :
       \E i \in 1 .. Len(e.events) : e.events[i].sequence = sequence

RowsSound(e) ==
  \A k \in Keys : e.rows[k] # NoRow =>
    e.rows[k].server_sequence \in 1 .. latest_sequence(e) /\ e.rows[k].row_version > 0

\* The engine holds the event of a record, or retention has dropped it.
Backs(e, r) ==
  \/ r.sequence <= e.minimum
  \/ \E i \in 1 .. Len(e.events) :
       /\ e.events[i].sequence = r.sequence
       /\ e.events[i].subject = r.subject
       /\ e.events[i].mutation = r.mutation.id
       /\ e.events[i].row_version = r.row_version

RecordsSound(e) ==
  /\ IsFiniteSet(e.records) /\ Cardinality(e.records) <= MaxReceipts
  /\ \A r \in e.records : r.sequence \in 1 .. latest_sequence(e) /\ Backs(e, r)

\* A change within the retention still has its record.
Remembered(e, latest) ==
  \A i \in 1 .. Len(e.events) :
    IsChange(e.events[i]) /\ e.events[i].committed >= latest - IdempotencyRetention =>
      \E r \in e.records : /\ r.subject = e.events[i].subject
                           /\ r.mutation.id = e.events[i].mutation
                           /\ r.committed = e.events[i].committed

OnceIn(e, latest) ==
  \A i, j \in 1 .. Len(e.events) :
    /\ i < j
    /\ IsChange(e.events[i]) /\ IsChange(e.events[j])
    /\ e.events[i].subject = e.events[j].subject
    /\ e.events[i].mutation = e.events[j].mutation
    => e.events[i].committed < latest - IdempotencyRetention

EngineOK(e, latest) ==
  /\ e \in Engine
  /\ HistorySound(e) /\ RowsSound(e) /\ RecordsSound(e)
  /\ Remembered(e, latest) /\ OnceIn(e, latest)

\* Every record the first engine backs is backed by the second.
Continues(e, n) == \A r \in Record : Backs(e, r) => Backs(n, r)

\* The parts of an engine.
LEMMA EngineParts ==
  ASSUME NEW e \in Engine
  PROVE  /\ e.schema \in Nat /\ e.next_sequence \in Nat /\ e.minimum \in Nat
         /\ e.rows \in [Keys -> Row \cup {NoRow}] /\ e.events \in Seq(Event)
         /\ e.records \subseteq Record
         /\ latest_sequence(e) = e.next_sequence - 1 /\ latest_sequence(e) \in Int
BY DEF Engine, Event, latest_sequence

\* The parts of an event, a record and a row that the proofs count with.
LEMMA EventParts ==
  ASSUME NEW v \in Event
  PROVE  /\ v.sequence \in Nat /\ v.committed \in Int /\ v.committed \in Nat
         /\ IsChange(v) <=> v \in ChangeEvent
BY EngineConfiguration DEF Event, ChangeEvent, ControlEvent, IsChange, Times

LEMMA RecordParts ==
  ASSUME NEW r \in Record
  PROVE  /\ r.subject \in Subjects /\ r.mutation \in Mutation /\ r.sequence \in Nat
         /\ r.row_version \in Nat /\ r.committed \in Nat /\ r.mutation.id \in Nat
BY EngineConfiguration DEF Record, Mutation, Times

\* Such an engine can be restored.
LEMMA SoundIsValid ==
  ASSUME NEW e, NEW latest, EngineOK(e, latest)
  PROVE  ValidState(e)
<1>1. e.next_sequence # 0 /\ e.minimum <= latest_sequence(e)
  BY DEF EngineOK, HistorySound
<1>2. Cardinality(e.records) <= MaxReceipts
      /\ \A r \in e.records : r.sequence \in 1 .. latest_sequence(e)
  BY DEF EngineOK, RecordsSound
<1>3. Len(e.events) \in Nat
  BY EngineParts DEF EngineOK
<1>4. \A i \in 1 .. Len(e.events) : e.events[i].sequence \in 1 .. latest_sequence(e)
  BY DEF EngineOK, HistorySound
<1>5. \A i \in 1 .. Len(e.events) : i > 1 => e.events[i - 1].sequence < e.events[i].sequence
  <2>1. \A i \in 1 .. Len(e.events) : i > 1 => i - 1 \in 1 .. Len(e.events) /\ i - 1 < i
    BY <1>3
  <2>. QED
    BY <2>1 DEF EngineOK, HistorySound
<1>6. RowsSound(e)
  BY DEF EngineOK
<1>. QED
  BY <1>1, <1>2, <1>4, <1>5, <1>6 DEF ValidState, RowsSound

\* A later clock forgives more.
LEMMA LaterClock ==
  ASSUME NEW e, NEW a \in Times, NEW b \in Times, a <= b, EngineOK(e, a)
  PROVE  EngineOK(e, b)
<1>0. a \in Int /\ b \in Int /\ IdempotencyRetention \in Int
  BY EngineConfiguration DEF Times
<1>1. \A i \in 1 .. Len(e.events) : e.events[i] \in Event /\ e.events[i].committed \in Int
  BY EngineParts, EventParts DEF EngineOK
<1>2. Remembered(e, b)
  <2>1. \A i \in 1 .. Len(e.events) : e.events[i].committed >= b - IdempotencyRetention
          => e.events[i].committed >= a - IdempotencyRetention
    BY <1>0, <1>1
  <2>. QED
    BY <2>1 DEF EngineOK, Remembered
<1>3. OnceIn(e, b)
  <2>1. \A i \in 1 .. Len(e.events) : e.events[i].committed < a - IdempotencyRetention
          => e.events[i].committed < b - IdempotencyRetention
    BY <1>0, <1>1
  <2>. QED
    BY <2>1 DEF EngineOK, OnceIn
<1>. QED
  BY <1>2, <1>3 DEF EngineOK

-----------------------------------------------------------------------------
(* Appending an event: push and invalidate *)

\* n is e with one more event, under the next number.
Appends(e, n, v) ==
  /\ n.events = Append(e.events, v)
  /\ n.next_sequence = e.next_sequence + 1
  /\ n.minimum = e.minimum

LEMMA AppendFacts ==
  ASSUME NEW e \in Engine, NEW n \in Engine, NEW v \in Event, v.sequence = e.next_sequence,
         Appends(e, n, v), HistorySound(e)
  PROVE  /\ Len(n.events) = Len(e.events) + 1 /\ Len(e.events) \in Nat
         /\ \A i \in 1 .. Len(e.events) : n.events[i] = e.events[i] /\ i \in 1 .. Len(n.events)
         /\ n.events[Len(n.events)] = v /\ Len(n.events) \in 1 .. Len(n.events)
         /\ \A i \in 1 .. Len(n.events) : i \in 1 .. Len(e.events) \/ i = Len(n.events)
         /\ latest_sequence(n) = latest_sequence(e) + 1
         /\ latest_sequence(n) = v.sequence /\ latest_sequence(e) \in Nat
<1>1. e.events \in Seq(Event) /\ e.next_sequence \in Nat /\ e.next_sequence # 0
  BY EngineParts DEF HistorySound
<1>2. PICK s : s = e.events
  OBVIOUS
<1>3. PICK t : t = n.events
  OBVIOUS
<1>4. s \in Seq(Event) /\ t = Append(s, v)
  BY <1>1, <1>2, <1>3 DEF Appends
<1>5. /\ Len(t) = Len(s) + 1 /\ Len(s) \in Nat
      /\ \A i \in 1 .. Len(s) : t[i] = s[i]
      /\ t[Len(s) + 1] = v
  BY <1>4
<1>6. /\ \A i \in 1 .. Len(s) : i \in 1 .. Len(t)
      /\ Len(t) \in 1 .. Len(t)
      /\ \A i \in 1 .. Len(t) : i \in 1 .. Len(s) \/ i = Len(t)
  BY <1>5
<1>7. /\ latest_sequence(n) = latest_sequence(e) + 1
      /\ latest_sequence(n) = v.sequence /\ latest_sequence(e) \in Nat
  BY <1>1 DEF latest_sequence, Appends
<1>. QED
  BY <1>2, <1>3, <1>5, <1>6, <1>7

LEMMA AppendHistory ==
  ASSUME NEW e \in Engine, NEW n \in Engine, NEW v \in Event, v.sequence = e.next_sequence,
         Appends(e, n, v), HistorySound(e)
  PROVE  HistorySound(n) /\ Continues(e, n)
<1>1. /\ Len(n.events) = Len(e.events) + 1 /\ Len(e.events) \in Nat
      /\ \A i \in 1 .. Len(e.events) : n.events[i] = e.events[i] /\ i \in 1 .. Len(n.events)
      /\ n.events[Len(n.events)] = v /\ Len(n.events) \in 1 .. Len(n.events)
      /\ \A i \in 1 .. Len(n.events) : i \in 1 .. Len(e.events) \/ i = Len(n.events)
      /\ latest_sequence(n) = latest_sequence(e) + 1
      /\ latest_sequence(n) = v.sequence /\ latest_sequence(e) \in Nat
  BY AppendFacts
<1>2. n.minimum = e.minimum /\ e.minimum \in Nat /\ n.next_sequence = e.next_sequence + 1
      /\ e.next_sequence \in Nat
  BY EngineParts DEF Appends
<1>3. \A i \in 1 .. Len(e.events) : e.events[i].sequence \in 1 .. latest_sequence(e)
  BY DEF HistorySound
<1>4. n.next_sequence # 0 /\ n.minimum <= latest_sequence(n)
  BY <1>1, <1>2 DEF HistorySound
<1>5. \A i \in 1 .. Len(n.events) : n.events[i].sequence \in 1 .. latest_sequence(n)
  <2>. TAKE i \in 1 .. Len(n.events)
  <2>1. CASE i \in 1 .. Len(e.events)
    BY <2>1, <1>1, <1>3
  <2>2. CASE i = Len(n.events)
    BY <2>2, <1>1
  <2>. QED
    BY <2>1, <2>2, <1>1
<1>6. \A i, j \in 1 .. Len(n.events) : i < j => n.events[i].sequence < n.events[j].sequence
  <2>. SUFFICES ASSUME NEW i \in 1 .. Len(n.events), NEW j \in 1 .. Len(n.events), i < j
                PROVE  n.events[i].sequence < n.events[j].sequence
    OBVIOUS
  <2>1. i \in 1 .. Len(e.events)
    BY <1>1
  <2>2. CASE j \in 1 .. Len(e.events)
    BY <2>1, <2>2, <1>1 DEF HistorySound
  <2>3. CASE j = Len(n.events)
    <3>1. n.events[i].sequence \in 1 .. latest_sequence(e)
      BY <2>1, <1>1, <1>3
    <3>2. n.events[j].sequence = latest_sequence(e) + 1 /\ latest_sequence(e) \in Nat
      BY <2>3, <1>1
    <3>. QED
      BY <3>1, <3>2
  <2>. QED
    BY <2>2, <2>3, <1>1
<1>7. \A sequence \in (n.minimum + 1) .. latest_sequence(n) :
        \E i \in 1 .. Len(n.events) : n.events[i].sequence = sequence
  <2>. TAKE sequence \in (n.minimum + 1) .. latest_sequence(n)
  <2>1. CASE sequence = latest_sequence(n)
    BY <2>1, <1>1
  <2>2. CASE sequence # latest_sequence(n)
    <3>1. sequence \in (e.minimum + 1) .. latest_sequence(e)
      BY <2>2, <1>1, <1>2
    <3>2. PICK i \in 1 .. Len(e.events) : e.events[i].sequence = sequence
      BY <3>1 DEF HistorySound
    <3>. QED
      BY <3>2, <1>1
  <2>. QED
    BY <2>1, <2>2
<1>8. Continues(e, n)
  BY <1>1, <1>2 DEF Continues, Backs
<1>. QED
  BY <1>4, <1>5, <1>6, <1>7, <1>8 DEF HistorySound

-----------------------------------------------------------------------------
(* push *)

\* The records that survive a push or a compaction at `now` still cover every
\* change within the retention of a clock that is at least `now`.
LEMMA RetainedCovers ==
  ASSUME NEW e \in Engine, NEW now \in Times, NEW latest \in Times, now <= latest,
         Remembered(e, latest)
  PROVE  \A i \in 1 .. Len(e.events) :
           IsChange(e.events[i]) /\ e.events[i].committed >= latest - IdempotencyRetention =>
             \E r \in Retained(e.records, now) :
               /\ r.subject = e.events[i].subject
               /\ r.mutation.id = e.events[i].mutation
               /\ r.committed = e.events[i].committed
<1>. SUFFICES ASSUME NEW i \in 1 .. Len(e.events), IsChange(e.events[i]),
                     e.events[i].committed >= latest - IdempotencyRetention
              PROVE  \E r \in Retained(e.records, now) :
                       /\ r.subject = e.events[i].subject
                       /\ r.mutation.id = e.events[i].mutation
                       /\ r.committed = e.events[i].committed
  OBVIOUS
<1>1. PICK r \in e.records : /\ r.subject = e.events[i].subject
                             /\ r.mutation.id = e.events[i].mutation
                             /\ r.committed = e.events[i].committed
  BY DEF Remembered
<1>2. r \in Record /\ r.committed \in Nat
  BY EngineParts, RecordParts
<1>3. r.committed >= latest - IdempotencyRetention
  BY <1>1
<1>4. now \in Int /\ latest \in Int /\ IdempotencyRetention \in Int
  BY EngineConfiguration DEF Times
<1>5. r.committed >= now - IdempotencyRetention
  BY <1>2, <1>3, <1>4
<1>6. r \in Retained(e.records, now)
  BY <1>5 DEF Retained
<1>. QED
  BY <1>1, <1>6

\* Dropping records that are too old keeps an engine sound.
LEMMA RetainSound ==
  ASSUME NEW e, NEW now \in Times, NEW latest \in Times, now <= latest, EngineOK(e, latest)
  PROVE  /\ Retained(e.records, now) \subseteq e.records
         /\ IsFiniteSet(Retained(e.records, now))
         /\ Cardinality(Retained(e.records, now)) <= MaxReceipts
         /\ Cardinality(Retained(e.records, now)) \in Nat
<1>1. Retained(e.records, now) \subseteq e.records
  BY DEF Retained
<1>2. IsFiniteSet(e.records) /\ Cardinality(e.records) <= MaxReceipts
  BY DEF EngineOK, RecordsSound
<1>3. IsFiniteSet(Retained(e.records, now))
      /\ Cardinality(Retained(e.records, now)) <= Cardinality(e.records)
  BY <1>1, <1>2, FS_Subset
<1>4. Cardinality(Retained(e.records, now)) \in Nat /\ Cardinality(e.records) \in Nat
  BY <1>2, <1>3, FS_CardinalityType
<1>. QED
  BY <1>1, <1>2, <1>3, <1>4, EngineConfiguration

\* n is e with the mutation's event, row and record.
AppliedWith(e, n, u, m, now, v, row, rec) ==
  /\ n \in Engine
  /\ Appends(e, n, v) /\ v.sequence = e.next_sequence
  /\ v.subject = u /\ v.mutation = m.id /\ v.committed = now
  /\ rec.subject = u /\ rec.mutation = m /\ rec.committed = now
  /\ rec.sequence = v.sequence /\ rec.row_version = v.row_version
  /\ n.records = Retained(e.records, now) \cup {rec}
  /\ n.rows = [e.rows EXCEPT ![m.key] = row]
  /\ row.server_sequence = e.next_sequence /\ row.row_version > 0

\* What an applied mutation does to the engine.
LEMMA AppliedFacts ==
  ASSUME NEW e, NEW u \in Subjects, NEW m \in Mutations, NEW now \in Times, NEW latest \in Times,
         now <= latest, EngineOK(e, latest), Outcome(e, u, m, now) = "applied",
         NEW n, n = ApplyMutation(e, u, m, now)
  PROVE  \E v \in ChangeEvent, row \in Row, rec \in Record :
           AppliedWith(e, n, u, m, now, v, row, rec)
<1>0. e \in Engine
  BY DEF EngineOK
<1>1. /\ e.schema \in Nat /\ e.next_sequence \in Nat /\ e.minimum \in Nat
      /\ e.rows \in [Keys -> Row \cup {NoRow}] /\ e.events \in Seq(Event)
      /\ e.records \subseteq Record
  BY <1>0, EngineParts
<1>2. m \in Mutation /\ m.id \in Nat /\ m.key \in Keys /\ m.op \in {"upsert", "delete"}
      /\ m.value \in Values
  BY EngineInputs DEF Mutation
<1>3. PICK version : version = NextVersion(e, m.key)
  OBVIOUS
<1>4. PICK value : value = StoredValue(e, m)
  OBVIOUS
<1>5. version \in Nat /\ version > 0
  <2>1. e.rows[m.key] \in Row \cup {NoRow}
    BY <1>1, <1>2
  <2>2. e.rows[m.key] # NoRow => e.rows[m.key].row_version \in Nat
    BY <2>1 DEF Row
  <2>. QED
    BY <2>2, <1>3 DEF NextVersion
<1>6. value \in Values \cup {EmptyRow}
  <2>1. e.rows[m.key] \in Row \cup {NoRow}
    BY <1>1, <1>2
  <2>2. e.rows[m.key] # NoRow => e.rows[m.key].value \in Values \cup {EmptyRow}
    BY <2>1 DEF Row
  <2>. QED
    BY <2>2, <1>2, <1>4 DEF StoredValue
<1>7. PICK v : v = [kind |-> m.op, sequence |-> e.next_sequence,
                    key |-> m.key, value |-> value, row_version |-> version,
                    subject |-> u, mutation |-> m.id, schema |-> e.schema,
                    committed |-> now]
  OBVIOUS
<1>8. PICK row : row = [value |-> value, row_version |-> version,
                        server_sequence |-> e.next_sequence,
                        deleted_at |-> IF m.op = "delete" THEN now ELSE NotDeleted]
  OBVIOUS
<1>9. PICK rec : rec = [subject |-> u, mutation |-> m, sequence |-> e.next_sequence,
                        row_version |-> version, committed |-> now]
  OBVIOUS
<1>10. v \in ChangeEvent
  BY <1>1, <1>2, <1>5, <1>6, <1>7 DEF ChangeEvent
<1>11. row \in Row
  BY <1>1, <1>2, <1>5, <1>6, <1>8 DEF Row
<1>12. rec \in Record
  BY <1>1, <1>2, <1>5, <1>9 DEF Record
<1>13. n = [e EXCEPT !.next_sequence = e.next_sequence + 1,
                     !.rows = [e.rows EXCEPT ![m.key] = row],
                     !.events = Append(e.events, v),
                     !.records = Retained(e.records, now) \cup {rec}]
  BY <1>3, <1>4, <1>7, <1>8, <1>9 DEF ApplyMutation
<1>14. PICK rows : rows = [e.rows EXCEPT ![m.key] = row]
  OBVIOUS
<1>15. PICK events : events = Append(e.events, v)
  OBVIOUS
<1>16. PICK records : records = Retained(e.records, now) \cup {rec}
  OBVIOUS
<1>17. /\ rows \in [Keys -> Row \cup {NoRow}]
       /\ events \in Seq(Event)
       /\ records \in SUBSET Record
  <2>1. rows \in [Keys -> Row \cup {NoRow}]
    BY <1>1, <1>2, <1>11, <1>14
  <2>2. v \in Event
    BY <1>10 DEF Event
  <2>3. events \in Seq(Event)
    BY <1>1, <2>2, <1>15
  <2>4. records \in SUBSET Record
    BY <1>1, <1>12, <1>16 DEF Retained
  <2>. QED
    BY <2>1, <2>3, <2>4
<1>18. n = [schema |-> e.schema, next_sequence |-> e.next_sequence + 1, minimum |-> e.minimum,
            rows |-> rows, events |-> events, records |-> records]
  BY <1>0, <1>13, <1>14, <1>15, <1>16 DEF Engine
<1>19. /\ n.next_sequence = e.next_sequence + 1 /\ n.minimum = e.minimum /\ n.rows = rows
       /\ n.events = events /\ n.records = records
  BY <1>18
<1>20. n \in Engine
  <2>1. e.next_sequence + 1 \in Nat
    BY <1>1
  <2>. QED
    BY <2>1, <1>1, <1>17, <1>18 DEF Engine, Event
<1>21. Appends(e, n, v)
  BY <1>15, <1>19 DEF Appends
<1>22. /\ v.sequence = e.next_sequence /\ v.subject = u /\ v.mutation = m.id /\ v.committed = now
       /\ v.row_version = version
  BY <1>7
<1>23. /\ rec.subject = u /\ rec.mutation = m /\ rec.committed = now
       /\ rec.sequence = e.next_sequence /\ rec.row_version = version
  BY <1>9
<1>24. row.server_sequence = e.next_sequence /\ row.row_version > 0
  BY <1>5, <1>8
<1>. QED
  <2>1. AppliedWith(e, n, u, m, now, v, row, rec)
    BY <1>14, <1>16, <1>19, <1>20, <1>21, <1>22, <1>23, <1>24 DEF AppliedWith
  <2>. QED
    BY <1>10, <1>11, <1>12, <2>1

\* An applied mutation keeps the engine sound and every backed record backed.
LEMMA ApplyAppliedSound ==
  ASSUME NEW e, NEW u \in Subjects, NEW m \in Mutations, NEW now \in Times, NEW latest \in Times,
         now <= latest, EngineOK(e, latest), Outcome(e, u, m, now) = "applied",
         NEW n, n = ApplyMutation(e, u, m, now)
  PROVE  EngineOK(n, latest) /\ Continues(e, n)
<1>a. PICK v \in ChangeEvent, row \in Row, rec \in Record :
        AppliedWith(e, n, u, m, now, v, row, rec)
  BY AppliedFacts
<1>1. /\ n \in Engine
      /\ Appends(e, n, v) /\ v.sequence = e.next_sequence
      /\ v.subject = u /\ v.mutation = m.id /\ v.committed = now
      /\ rec.subject = u /\ rec.mutation = m /\ rec.committed = now
      /\ rec.sequence = v.sequence /\ rec.row_version = v.row_version
      /\ n.records = Retained(e.records, now) \cup {rec}
      /\ n.rows = [e.rows EXCEPT ![m.key] = row]
      /\ row.server_sequence = e.next_sequence /\ row.row_version > 0
  BY <1>a DEF AppliedWith
<1>2. e \in Engine /\ HistorySound(e) /\ v \in Event
  BY DEF EngineOK, Event
<1>3. /\ Len(n.events) = Len(e.events) + 1 /\ Len(e.events) \in Nat
      /\ \A i \in 1 .. Len(e.events) : n.events[i] = e.events[i] /\ i \in 1 .. Len(n.events)
      /\ n.events[Len(n.events)] = v /\ Len(n.events) \in 1 .. Len(n.events)
      /\ \A i \in 1 .. Len(n.events) : i \in 1 .. Len(e.events) \/ i = Len(n.events)
      /\ latest_sequence(n) = latest_sequence(e) + 1
      /\ latest_sequence(n) = v.sequence /\ latest_sequence(e) \in Nat
  BY <1>1, <1>2, AppendFacts
<1>4. HistorySound(n) /\ Continues(e, n)
  BY <1>1, <1>2, AppendHistory
<1>5. RowsSound(n)
  <2>. SUFFICES ASSUME NEW k \in Keys, n.rows[k] # NoRow
                PROVE  n.rows[k].server_sequence \in 1 .. latest_sequence(n)
                       /\ n.rows[k].row_version > 0
    BY DEF RowsSound
  <2>0. e.rows \in [Keys -> Row \cup {NoRow}] /\ m.key \in Keys
    BY <1>2, EngineParts, EngineInputs DEF Mutation
  <2>1. CASE k = m.key
    <3>1. n.rows[k] = row
      BY <1>1, <2>0, <2>1
    <3>. QED
      BY <3>1, <1>1, <1>3
  <2>2. CASE k # m.key
    <3>1. n.rows[k] = e.rows[k]
      BY <1>1, <2>0, <2>2
    <3>2. e.rows[k].server_sequence \in 1 .. latest_sequence(e) /\ e.rows[k].row_version > 0
      BY <3>1 DEF EngineOK, RowsSound
    <3>. QED
      BY <3>1, <3>2, <1>3
  <2>. QED
    BY <2>1, <2>2
<1>6. /\ Retained(e.records, now) \subseteq e.records
      /\ IsFiniteSet(Retained(e.records, now))
      /\ Cardinality(Retained(e.records, now)) \in Nat
  BY RetainSound
<1>7. Stored(e, u, m) = {} /\ Cardinality(Retained(e.records, now)) < MaxReceipts
  <2>1. AuthorizationRow(e, m) \in CanWrite[u]
    BY DEF Outcome
  <2>2. Stored(e, u, m) = {}
    <3>1. SUFFICES ASSUME Stored(e, u, m) # {} PROVE FALSE
      OBVIOUS
    <3>2. Outcome(e, u, m, now) = IF \E r \in Stored(e, u, m) : r.mutation = m
                                  THEN "already_applied" ELSE "id_reused"
      BY <2>1, <3>1 DEF Outcome
    <3>. QED
      BY <3>2
  <2>3. Outcome(e, u, m, now) =
          IF Cardinality(Retained(e.records, now)) >= MaxReceipts THEN "capacity" ELSE "applied"
    BY <2>1, <2>2 DEF Outcome
  <2>4. ~(Cardinality(Retained(e.records, now)) >= MaxReceipts)
    BY <2>3
  <2>5. MaxReceipts \in Nat
    BY EngineConfiguration
  <2>. QED
    BY <2>2, <2>4, <2>5, <1>6
<1>8. RecordsSound(n)
  <2>1. IsFiniteSet(n.records) /\ Cardinality(n.records) <= MaxReceipts
    <3>1. PICK kept : kept = Retained(e.records, now)
      OBVIOUS
    <3>2. IsFiniteSet(kept) /\ Cardinality(kept) \in Nat /\ n.records = kept \cup {rec}
      BY <1>1, <1>6, <3>1
    <3>3. /\ IsFiniteSet(kept \cup {rec})
          /\ Cardinality(kept \cup {rec}) =
               IF rec \in kept THEN Cardinality(kept) ELSE Cardinality(kept) + 1
      BY <3>2, FS_AddElement
    <3>4. Cardinality(kept) < MaxReceipts /\ MaxReceipts \in Nat
      BY <1>7, <3>1, EngineConfiguration
    <3>. QED
      BY <3>2, <3>3, <3>4
  <2>2. ASSUME NEW r \in n.records
        PROVE  r.sequence \in 1 .. latest_sequence(n) /\ Backs(n, r)
    <3>1. CASE r = rec
      <4>1. r.sequence = latest_sequence(n) /\ r.sequence \in 1 .. latest_sequence(n)
        BY <3>1, <1>1, <1>3
      <4>2. Backs(n, r)
        BY <3>1, <1>1, <1>3, SMTT(40) DEF Backs
      <4>. QED
        BY <4>1, <4>2
    <3>2. CASE r # rec
      <4>1. r \in e.records
        BY <2>2, <3>2, <1>1, <1>6
      <4>2. r \in Record /\ r.sequence \in 1 .. latest_sequence(e) /\ Backs(e, r)
        BY <4>1, <1>2, EngineParts DEF EngineOK, RecordsSound
      <4>. QED
        BY <4>2, <1>3, <1>4 DEF Continues
    <3>. QED
      BY <3>1, <3>2
  <2>. QED
    BY <2>1, <2>2 DEF RecordsSound
<1>9. Remembered(n, latest)
  <2>. SUFFICES ASSUME NEW i \in 1 .. Len(n.events), IsChange(n.events[i]),
                       n.events[i].committed >= latest - IdempotencyRetention
                PROVE  \E r \in n.records : /\ r.subject = n.events[i].subject
                                            /\ r.mutation.id = n.events[i].mutation
                                            /\ r.committed = n.events[i].committed
    BY DEF Remembered
  <2>1. CASE i = Len(n.events)
    BY <2>1, <1>1, <1>3
  <2>2. CASE i \in 1 .. Len(e.events)
    <3>1. n.events[i] = e.events[i]
      BY <2>2, <1>3
    <3>2. PICK r \in Retained(e.records, now) : /\ r.subject = e.events[i].subject
                                                /\ r.mutation.id = e.events[i].mutation
                                                /\ r.committed = e.events[i].committed
      BY <2>2, <3>1, <1>2, RetainedCovers DEF EngineOK
    <3>3. r \in n.records
      BY <1>1, <3>2
    <3>. QED
      BY <3>1, <3>2, <3>3
  <2>. QED
    BY <2>1, <2>2, <1>3
<1>10. OnceIn(n, latest)
  <2>. SUFFICES ASSUME NEW i \in 1 .. Len(n.events), NEW j \in 1 .. Len(n.events), i < j,
                       IsChange(n.events[i]), IsChange(n.events[j]),
                       n.events[i].subject = n.events[j].subject,
                       n.events[i].mutation = n.events[j].mutation
                PROVE  n.events[i].committed < latest - IdempotencyRetention
    BY DEF OnceIn
  <2>1. i \in 1 .. Len(e.events) /\ n.events[i] = e.events[i]
    BY <1>3, SMTT(40)
  <2>2. CASE j \in 1 .. Len(e.events)
    BY <2>1, <2>2, <1>3 DEF EngineOK, OnceIn
  <2>3. CASE j = Len(n.events)
    <3>1. e.events[i].subject = u /\ e.events[i].mutation = m.id
      BY <2>1, <2>3, <1>1, <1>3
    <3>2. ~(e.events[i].committed >= latest - IdempotencyRetention)
      <4>1. SUFFICES ASSUME e.events[i].committed >= latest - IdempotencyRetention PROVE FALSE
        OBVIOUS
      <4>2. PICK r \in e.records : r.subject = u /\ r.mutation.id = m.id
        BY <4>1, <2>1, <3>1 DEF EngineOK, Remembered
      <4>. QED
        BY <4>2, <1>7 DEF Stored
    <3>3. e.events[i].committed \in Nat /\ latest \in Int /\ IdempotencyRetention \in Int
      BY <1>2, <2>1, EngineParts, EventParts, EngineConfiguration DEF Times
    <3>. QED
      BY <3>2, <3>3, <2>1
  <2>. QED
    BY <2>2, <2>3, <1>3
<1>. QED
  BY <1>1, <1>4, <1>5, <1>8, <1>9, <1>10 DEF EngineOK

\* Nothing but the records of an engine changes.
OnlyRecords(e, n) ==
  /\ n.next_sequence = e.next_sequence /\ n.minimum = e.minimum
  /\ n.events = e.events /\ n.rows = e.rows

\* A push that finds no room for its record still drops the old ones.
LEMMA ApplyCapacitySound ==
  ASSUME NEW e, NEW u \in Subjects, NEW m \in Mutations, NEW now \in Times, NEW latest \in Times,
         now <= latest, EngineOK(e, latest), Outcome(e, u, m, now) = "capacity",
         NEW n, n = ApplyMutation(e, u, m, now)
  PROVE  EngineOK(n, latest) /\ Continues(e, n)
<1>1. e \in Engine /\ e.records \subseteq Record
  BY EngineParts DEF EngineOK
<1>2. PICK kept : kept = Retained(e.records, now)
  OBVIOUS
<1>3. n = [e EXCEPT !.records = kept]
  BY <1>2 DEF ApplyMutation
<1>4. /\ kept \subseteq e.records /\ IsFiniteSet(kept) /\ Cardinality(kept) <= MaxReceipts
  BY <1>2, RetainSound
<1>5. n.records = kept /\ OnlyRecords(e, n) /\ n \in Engine
  <2>1. kept \in SUBSET Record
    BY <1>1, <1>4
  <2>2. n.records = kept /\ OnlyRecords(e, n)
    BY <1>1, <1>3 DEF Engine, OnlyRecords
  <2>3. n \in Engine
    BY <1>1, <1>3, <2>1 DEF Engine
  <2>. QED
    BY <2>2, <2>3
<1>6. latest_sequence(n) = latest_sequence(e)
  BY <1>5 DEF latest_sequence, OnlyRecords
<1>7. HistorySound(n) /\ RowsSound(n)
  BY <1>5, <1>6 DEF EngineOK, HistorySound, RowsSound, OnlyRecords
<1>8. \A r : Backs(n, r) <=> Backs(e, r)
  BY <1>5 DEF Backs, OnlyRecords
<1>9. RecordsSound(n)
  BY <1>4, <1>5, <1>6, <1>8 DEF EngineOK, RecordsSound
<1>10. Remembered(n, latest)
  BY <1>1, <1>2, <1>5, RetainedCovers DEF EngineOK, Remembered, OnlyRecords
<1>11. OnceIn(n, latest)
  BY <1>5 DEF EngineOK, OnceIn, OnlyRecords
<1>. QED
  BY <1>5, <1>7, <1>8, <1>9, <1>10, <1>11 DEF EngineOK, Continues

\* One mutation of a push, whatever its outcome.
LEMMA ApplySound ==
  ASSUME NEW e, NEW u \in Subjects, NEW m \in Mutations, NEW now \in Times, NEW latest \in Times,
         now <= latest, EngineOK(e, latest)
  PROVE  /\ EngineOK(ApplyMutation(e, u, m, now), latest)
         /\ Continues(e, ApplyMutation(e, u, m, now))
<1>1. CASE Outcome(e, u, m, now) = "applied"
  BY <1>1, ApplyAppliedSound
<1>2. CASE Outcome(e, u, m, now) = "capacity"
  BY <1>2, ApplyCapacitySound
<1>3. CASE Outcome(e, u, m, now) \notin {"applied", "capacity"}
  <2>1. ApplyMutation(e, u, m, now) = e
    BY <1>3 DEF ApplyMutation
  <2>. QED
    BY <2>1 DEF Continues
<1>. QED
  BY <1>1, <1>2, <1>3

\* A whole batch: every engine on the way is sound.
LEMMA BatchSound ==
  ASSUME NEW e, NEW u \in Subjects, NEW batch, Len(batch) \in Nat,
         \A i \in 1 .. Len(batch) : batch[i] \in Mutations,
         NEW now \in Times, NEW latest \in Times, now <= latest, EngineOK(e, latest)
  PROVE  \A n \in 0 .. Len(batch) : /\ EngineOK(Applied(e, u, batch, now)[n], latest)
                                    /\ Continues(e, Applied(e, u, batch, now)[n])
<1>1. PICK f : f = Applied(e, u, batch, now)
  OBVIOUS
<1>2. /\ f[0] = e
      /\ \A n \in 1 .. Len(batch) : f[n] = ApplyMutation(f[n - 1], u, batch[n], now)
  BY <1>1, AppliedSteps
<1> DEFINE Good(k) == EngineOK(f[k], latest) /\ Continues(e, f[k])
           Bad == {k \in 0 .. Len(batch) : ~Good(k)}
<1>3. SUFFICES ASSUME Bad # {} PROVE FALSE
  BY <1>1
<1>4. Bad \subseteq Nat
  OBVIOUS
<1>5. PICK k \in Bad : \A y \in Bad : k <= y
  BY <1>3, <1>4, LeastNatural, Zenon
<1>6. CASE k = 0
  <2>1. Good(0)
    BY <1>2 DEF Continues
  <2>. QED
    BY <2>1, <1>5, <1>6
<1>7. CASE k # 0
  <2>1. k \in 1 .. Len(batch) /\ k - 1 \in 0 .. Len(batch) /\ k - 1 \notin Bad
    BY <1>5, <1>7
  <2>2. Good(k - 1)
    BY <2>1
  <2>3. EngineOK(f[k], latest) /\ Continues(f[k - 1], f[k])
    BY <2>1, <2>2, <1>2, ApplySound
  <2>4. Good(k)
    BY <2>2, <2>3 DEF Continues
  <2>. QED
    BY <2>4, <1>5
<1>. QED
  BY <1>6, <1>7

-----------------------------------------------------------------------------
(* invalidate and compact *)

\* A resnapshot event, under the next number.
LEMMA InvalidateSound ==
  ASSUME NEW e, NEW schema \in Nat, NEW now \in Times, NEW latest \in Times, EngineOK(e, latest)
  PROVE  EngineOK(Invalidate(e, schema, now), latest) /\ Continues(e, Invalidate(e, schema, now))
<1>1. e \in Engine /\ HistorySound(e)
  BY DEF EngineOK
<1>2. /\ e.schema \in Nat /\ e.next_sequence \in Nat /\ e.minimum \in Nat
      /\ e.rows \in [Keys -> Row \cup {NoRow}] /\ e.events \in Seq(Event)
      /\ e.records \in SUBSET Record
  BY <1>1, EngineParts
<1>3. PICK v : v = [kind |-> "resnapshot", sequence |-> e.next_sequence, schema |-> schema,
                    committed |-> now]
  OBVIOUS
<1>4. v \in ControlEvent /\ v \in Event /\ v.sequence = e.next_sequence /\ ~IsChange(v)
  BY <1>2, <1>3 DEF ControlEvent, Event, IsChange
<1>5. PICK events : events = Append(e.events, v)
  OBVIOUS
<1>6. events \in Seq(Event) /\ e.next_sequence + 1 \in Nat
  BY <1>2, <1>4, <1>5
<1>7. PICK n : n = Invalidate(e, schema, now)
  OBVIOUS
<1>8. n = [schema |-> schema, next_sequence |-> e.next_sequence + 1, minimum |-> e.minimum,
           rows |-> e.rows, events |-> events, records |-> e.records]
  BY <1>1, <1>3, <1>5, <1>7 DEF Invalidate, Engine
<1>9. n \in Engine
  BY <1>2, <1>6, <1>8 DEF Engine, Event
<1>10. Appends(e, n, v) /\ n.rows = e.rows /\ n.records = e.records
  BY <1>5, <1>8 DEF Appends
<1>11. /\ Len(n.events) = Len(e.events) + 1 /\ Len(e.events) \in Nat
       /\ \A i \in 1 .. Len(e.events) : n.events[i] = e.events[i] /\ i \in 1 .. Len(n.events)
       /\ n.events[Len(n.events)] = v /\ Len(n.events) \in 1 .. Len(n.events)
       /\ \A i \in 1 .. Len(n.events) : i \in 1 .. Len(e.events) \/ i = Len(n.events)
       /\ latest_sequence(n) = latest_sequence(e) + 1
       /\ latest_sequence(n) = v.sequence /\ latest_sequence(e) \in Nat
  BY <1>1, <1>4, <1>9, <1>10, AppendFacts
<1>12. HistorySound(n) /\ Continues(e, n)
  BY <1>1, <1>4, <1>9, <1>10, AppendHistory
<1>13. \A q \in 1 .. latest_sequence(e) : q \in 1 .. latest_sequence(n)
  BY <1>11
<1>14. RowsSound(n)
  BY <1>10, <1>13 DEF EngineOK, RowsSound
<1>15. RecordsSound(n)
  BY <1>2, <1>10, <1>12, <1>13 DEF EngineOK, RecordsSound, Continues
<1>16. \A i \in 1 .. Len(n.events) : IsChange(n.events[i]) =>
         i \in 1 .. Len(e.events) /\ n.events[i] = e.events[i]
  BY <1>4, <1>11
<1>17. Remembered(n, latest)
  BY <1>10, <1>16 DEF EngineOK, Remembered
<1>18. OnceIn(n, latest)
  BY <1>16 DEF EngineOK, OnceIn
<1>. QED
  BY <1>7, <1>9, <1>12, <1>14, <1>15, <1>17, <1>18 DEF EngineOK

\* A nonempty set of naturals below a bound has a greatest element.
LEMMA GreatestNatural ==
  ASSUME NEW S, S \subseteq Nat, S # {}, NEW n \in Nat, \A i \in S : i <= n
  PROVE  Max(S) \in S /\ \A i \in S : i <= Max(S)
<1> DEFINE D == {n - i : i \in S}
<1>1. D \subseteq Nat /\ D # {}
  <2>1. \A i \in S : n - i \in Nat
    OBVIOUS
  <2>. QED
    BY <2>1
<1>2. PICK x \in D : \A y \in D : x <= y
  BY <1>1, LeastNatural, Zenon
<1>3. PICK m \in S : x = n - m
  BY <1>2
<1>4. \A i \in S : n - i \in D /\ i \in Nat /\ m \in Nat
  OBVIOUS
<1> HIDE DEF D
<1>5. \A i \in S : n - m <= n - i
  BY <1>2, <1>3, <1>4
<1>6. \A i \in S : m >= i
  BY <1>4, <1>5
<1>7. Max(S) \in S /\ \A i \in S : Max(S) >= i
  BY <1>6 DEF Max
<1>. QED
  BY <1>7

\* What compaction does to the minimum: it covers every event it drops.
LEMMA CompactMinimum ==
  ASSUME NEW e, NEW cutoff, NEW latest, EngineOK(e, latest),
         NEW old, old = {i \in 1 .. Len(e.events) : e.events[i].committed < cutoff},
         NEW minimum, minimum = Max({e.minimum} \cup {e.events[i].sequence : i \in old})
  PROVE  /\ minimum \in Nat /\ e.minimum <= minimum /\ minimum <= latest_sequence(e)
         /\ \A i \in old : e.events[i].sequence <= minimum
<1>1. e \in Engine
  BY DEF EngineOK
<1>2. e.minimum \in Nat /\ latest_sequence(e) \in Int /\ e.minimum <= latest_sequence(e)
  BY <1>1, EngineParts DEF EngineOK, HistorySound
<1>3. PICK S : S = {e.minimum} \cup {e.events[i].sequence : i \in old}
  OBVIOUS
<1>4. \A i \in old : e.events[i].sequence \in 1 .. latest_sequence(e)
  BY DEF EngineOK, HistorySound
<1>5. latest_sequence(e) \in Nat /\ S \subseteq Nat /\ S # {}
      /\ \A q \in S : q <= latest_sequence(e)
  BY <1>2, <1>3, <1>4, SMTT(40)
<1>6. Max(S) \in S /\ \A q \in S : q <= Max(S)
  BY <1>5, GreatestNatural
<1>. QED
  BY <1>3, <1>5, <1>6

\* Compaction keeps the engine sound, whatever the commit times are.
LEMMA CompactSound ==
  ASSUME NEW e, NEW now \in Times, NEW latest \in Times, now <= latest, EngineOK(e, latest)
  PROVE  EngineOK(Compact(e, now), latest) /\ Continues(e, Compact(e, now))
<1>1. e \in Engine /\ HistorySound(e)
  BY DEF EngineOK
<1>2. /\ e.schema \in Nat /\ e.next_sequence \in Nat /\ e.minimum \in Nat
      /\ e.rows \in [Keys -> Row \cup {NoRow}] /\ e.events \in Seq(Event)
      /\ e.records \in SUBSET Record
  BY <1>1, EngineParts
<1>3. PICK cutoff : cutoff = now - ChangeRetention
  OBVIOUS
<1>4. PICK old : old = {i \in 1 .. Len(e.events) : e.events[i].committed < cutoff}
  OBVIOUS
<1>5. PICK minimum : minimum = Max({e.minimum} \cup {e.events[i].sequence : i \in old})
  OBVIOUS
<1>6. PICK events : events = Kept(e.events, cutoff)
  OBVIOUS
<1>7. PICK kept : kept = Retained(e.records, now)
  OBVIOUS
<1>8. PICK rows : rows = [k \in Keys |->
                            IF /\ e.rows[k] # NoRow /\ e.rows[k].deleted_at # NotDeleted
                               /\ e.rows[k].deleted_at < now - TombstoneRetention
                            THEN NoRow ELSE e.rows[k]]
  OBVIOUS
<1>9. PICK n : n = Compact(e, now)
  OBVIOUS
<1>10. n = [schema |-> e.schema, next_sequence |-> e.next_sequence, minimum |-> minimum,
            rows |-> rows, events |-> events, records |-> kept]
  BY <1>1, <1>3, <1>4, <1>5, <1>6, <1>7, <1>8, <1>9 DEF Compact, Engine
<1>11. /\ minimum \in Nat /\ e.minimum <= minimum /\ minimum <= latest_sequence(e)
       /\ \A i \in old : e.events[i].sequence <= minimum
  BY <1>4, <1>5, CompactMinimum
<1>12. IsKept(events, e.events, cutoff, Len(e.events), Event)
  BY <1>2, <1>6, KeptIsKept
<1>13. kept \subseteq e.records /\ IsFiniteSet(kept) /\ Cardinality(kept) <= MaxReceipts
  BY <1>7, RetainSound
<1>14. rows \in [Keys -> Row \cup {NoRow}] /\ \A k \in Keys : rows[k] = NoRow \/ rows[k] = e.rows[k]
  BY <1>2, <1>8
<1>15. events \in Seq(Event) /\ kept \in SUBSET Record
  BY <1>2, <1>12, <1>13 DEF IsKept
<1>16. n \in Engine
  BY <1>2, <1>10, <1>11, <1>14, <1>15 DEF Engine, Event
<1>17. n.minimum = minimum /\ n.rows = rows /\ n.events = events /\ n.records = kept
       /\ latest_sequence(n) = latest_sequence(e) /\ n.next_sequence = e.next_sequence
  BY <1>10 DEF latest_sequence
<1>18. \A i \in 1 .. Len(e.events) :
         e.events[i].sequence <= minimum \/ \E j \in 1 .. Len(events) : events[j] = e.events[i]
  <2>. TAKE i \in 1 .. Len(e.events)
  <2>1. e.events[i].committed \in Nat /\ cutoff \in Int
    BY <1>2, <1>3, EventParts, EngineConfiguration DEF Times
  <2>2. CASE e.events[i].committed < cutoff
    BY <2>2, <1>4, <1>11
  <2>3. CASE e.events[i].committed >= cutoff
    BY <2>3, <1>12 DEF IsKept
  <2>. QED
    BY <2>1, <2>2, <2>3
<1>19. HistorySound(n)
  <2>1. \A i \in 1 .. Len(events) : events[i].sequence \in 1 .. latest_sequence(e)
    BY <1>1, <1>12 DEF IsKept, HistorySound
  <2>2. ASSUME NEW i \in 1 .. Len(events), NEW j \in 1 .. Len(events), i < j
        PROVE  events[i].sequence < events[j].sequence
    <3>1. PICK k, l \in 1 .. Len(e.events) :
            k < l /\ events[i] = e.events[k] /\ events[j] = e.events[l]
      BY <2>2, <1>12 DEF IsKept
    <3>2. e.events[k].sequence < e.events[l].sequence
      BY <3>1, <1>1 DEF HistorySound
    <3>. QED
      BY <3>1, <3>2
  <2>3. ASSUME NEW sequence \in (minimum + 1) .. latest_sequence(e)
        PROVE  \E i \in 1 .. Len(events) : events[i].sequence = sequence
    <3>1. sequence \in (e.minimum + 1) .. latest_sequence(e) /\ ~(sequence <= minimum)
      BY <1>2, <1>11, EngineParts, <1>1
    <3>2. PICK k \in 1 .. Len(e.events) : e.events[k].sequence = sequence
      BY <3>1, <1>1 DEF HistorySound
    <3>. QED
      BY <3>1, <3>2, <1>18
  <2>4. n.next_sequence # 0 /\ n.minimum <= latest_sequence(n)
    BY <1>1, <1>11, <1>17 DEF HistorySound
  <2>. QED
    BY <2>1, <2>2, <2>3, <2>4, <1>17 DEF HistorySound
<1>20. RowsSound(n)
  BY <1>14, <1>17 DEF EngineOK, RowsSound
<1>21. Continues(e, n)
  <2>. SUFFICES ASSUME NEW r \in Record, Backs(e, r) PROVE Backs(n, r)
    BY DEF Continues
  <2>1. r.sequence \in Nat
    BY RecordParts
  <2>2. CASE r.sequence <= e.minimum
    BY <2>1, <2>2, <1>2, <1>11, <1>17 DEF Backs
  <2>3. CASE ~(r.sequence <= e.minimum)
    <3>1. PICK i \in 1 .. Len(e.events) : /\ e.events[i].sequence = r.sequence
                                          /\ e.events[i].subject = r.subject
                                          /\ e.events[i].mutation = r.mutation.id
                                          /\ e.events[i].row_version = r.row_version
      BY <2>3 DEF Backs
    <3>. QED
      BY <3>1, <1>17, <1>18 DEF Backs
  <2>. QED
    BY <2>2, <2>3
<1>22. RecordsSound(n)
  BY <1>2, <1>13, <1>17, <1>21 DEF EngineOK, RecordsSound, Continues
<1>23. Remembered(n, latest)
  <2>. SUFFICES ASSUME NEW i \in 1 .. Len(events), IsChange(events[i]),
                       events[i].committed >= latest - IdempotencyRetention
                PROVE  \E r \in kept : /\ r.subject = events[i].subject
                                       /\ r.mutation.id = events[i].mutation
                                       /\ r.committed = events[i].committed
    BY <1>17 DEF Remembered
  <2>1. PICK k \in 1 .. Len(e.events) : events[i] = e.events[k]
    BY <1>12 DEF IsKept
  <2>. QED
    BY <2>1, <1>1, <1>7, RetainedCovers DEF EngineOK
<1>24. OnceIn(n, latest)
  <2>. SUFFICES ASSUME NEW i \in 1 .. Len(events), NEW j \in 1 .. Len(events), i < j,
                       IsChange(events[i]), IsChange(events[j]),
                       events[i].subject = events[j].subject,
                       events[i].mutation = events[j].mutation
                PROVE  events[i].committed < latest - IdempotencyRetention
    BY <1>17 DEF OnceIn
  <2>1. PICK k, l \in 1 .. Len(e.events) :
          k < l /\ events[i] = e.events[k] /\ events[j] = e.events[l]
    BY <1>12 DEF IsKept
  <2>. QED
    BY <2>1 DEF EngineOK, OnceIn
<1>. QED
  BY <1>9, <1>16, <1>19, <1>20, <1>21, <1>22, <1>23, <1>24 DEF EngineOK

\* A new engine.
LEMMA NewEngineSound ==
  ASSUME NEW schema \in Nat, NEW latest \in Times
  PROVE  EngineOK([NewEngine EXCEPT !.schema = schema], latest)
<1>1. PICK n : n = [NewEngine EXCEPT !.schema = schema]
  OBVIOUS
<1>2. PICK rows : rows = [k \in Keys |-> NoRow]
  OBVIOUS
<1>3. n = [schema |-> schema, next_sequence |-> 1, minimum |-> 0, rows |-> rows,
           events |-> <<>>, records |-> {}]
  BY <1>1, <1>2 DEF NewEngine
<1>4. rows \in [Keys -> Row \cup {NoRow}] /\ \A k \in Keys : rows[k] = NoRow
  BY <1>2
<1>5. <<>> \in Seq(ChangeEvent \cup ControlEvent) /\ Len(<<>>) = 0 /\ 1 .. 0 = {} /\ 0 + 1 = 1
  OBVIOUS
<1>6. n \in Engine
  BY <1>3, <1>4, <1>5 DEF Engine
<1>7. n.next_sequence = 1 /\ n.minimum = 0 /\ n.rows = rows /\ n.events = <<>> /\ n.records = {}
      /\ latest_sequence(n) = 0
  BY <1>3 DEF latest_sequence
<1>8. HistorySound(n) /\ RowsSound(n)
  BY <1>4, <1>5, <1>7 DEF HistorySound, RowsSound
<1>9. RecordsSound(n)
  <2>1. IsFiniteSet({}) /\ Cardinality({}) = 0 /\ 0 <= MaxReceipts
    BY FS_EmptySet, EngineConfiguration
  <2>. QED
    BY <2>1, <1>7 DEF RecordsSound
<1>10. Remembered(n, latest) /\ OnceIn(n, latest)
  BY <1>5, <1>7 DEF Remembered, OnceIn
<1>. QED
  BY <1>1, <1>6, <1>8, <1>9, <1>10 DEF EngineOK

-----------------------------------------------------------------------------
(* The actor and its store *)

\* Every engine that is held, stored or gone back to is sound.
EnginesSound ==
  /\ visible # NoFile => EngineOK(visible.engine, clock)
  /\ durable # NoFile => EngineOK(durable.engine, clock)
  /\ open.kind = "open" => EngineOK(open.engine, clock)
  /\ job.phase # "none" => EngineOK(job.checkpoint.engine, clock)
  /\ job.phase # "none" /\ open.kind = "open" => EngineOK(job.original, clock)

\* A checkpoint that is being stored follows the file that is there; once it is
\* renamed it is the file.
JobSound ==
  job.phase # "none" =>
    /\ job.accepted \subseteq job.checkpoint.engine.records
    /\ job.phase = "sync" => visible = job.checkpoint
    /\ open.kind = "closed" /\ job.phase # "sync" => visible = NoFile
    /\ open.kind = "open" =>
         /\ job.checkpoint.revision = open.revision + 1
         /\ job.phase # "sync" => /\ visible.engine = job.original
                                  /\ visible.revision = open.revision

\* An open project has a file, and its memory is the file's or lags behind it.
StoreKnown ==
  open.kind = "open" =>
    /\ visible # NoFile
    /\ job.phase = "none" =>
         \/ open.engine = visible.engine /\ open.revision = visible.revision
         \/ stranded /\ visible.revision = open.revision + 1

\* Every engine the worker may be left with backs what was answered.
AnswersBacked ==
  \A r \in acked :
    /\ durable # NoFile /\ Backs(durable.engine, r)
    /\ visible # NoFile /\ Backs(visible.engine, r)
    /\ open.kind = "open" => Backs(open.engine, r)
    /\ job.phase # "none" => Backs(job.checkpoint.engine, r)
    /\ job.phase # "none" /\ open.kind = "open" => Backs(job.original, r)

\* The inductive invariant of the worker.
WorkerInv ==
  /\ WorkerTypeOK /\ stranded \in BOOLEAN
  /\ EnginesSound /\ JobSound /\ StoreKnown /\ AnswersBacked

\* The shapes of the worker's variables.
LEMMA WorkerShapes ==
  ASSUME WorkerTypeOK
  PROVE  /\ open.kind \in {"open", "closed"}
         /\ open.kind = "open" => open \in OpenEngine
         /\ open.kind = "closed" => open = NotOpen
         /\ job.phase \in {"none", "write", "rename", "sync"}
         /\ job.phase = "none" => job = NoJob
         /\ job.phase # "none" => job \in Job
         /\ visible # NoFile => visible \in Checkpoint
         /\ durable # NoFile => durable \in Checkpoint
         /\ \A f \in Checkpoint : f # NoFile /\ f.revision \in Nat \ {0} /\ f.engine \in Engine
<1>1. /\ open.kind \in {"open", "closed"}
      /\ open.kind = "open" => open \in OpenEngine
      /\ open.kind = "closed" => open = NotOpen
  BY DEF WorkerTypeOK, OpenEngine, NotOpen
<1>2. /\ job.phase \in {"none", "write", "rename", "sync"}
      /\ job.phase = "none" => job = NoJob
      /\ job.phase # "none" => job \in Job
  BY DEF WorkerTypeOK, Job, NoJob
<1>3. \A f \in Checkpoint : f # NoFile /\ f.revision \in Nat \ {0} /\ f.engine \in Engine
  BY DEF Checkpoint, NoFile
<1>4. (visible # NoFile => visible \in Checkpoint) /\ (durable # NoFile => durable \in Checkpoint)
  BY DEF WorkerTypeOK
<1>. QED
  BY <1>1, <1>2, <1>3, <1>4

\* The clock only moves forward.
LEMMA ClockForward ==
  ASSUME NEW a \in Times, NEW b \in Times
  PROVE  Max({a, b}) \in Times /\ a <= Max({a, b}) /\ b <= Max({a, b})
<1>1. {a, b} \subseteq Nat /\ {a, b} # {} /\ MaxTime \in Nat /\ \A i \in {a, b} : i <= MaxTime
  BY EngineConfiguration DEF Times
<1>2. Max({a, b}) \in {a, b} /\ \A i \in {a, b} : i <= Max({a, b})
  BY <1>1, GreatestNatural
<1>. QED
  BY <1>2

LEMMA WorkerInit ==
  Init => WorkerInv
<1>. SUFFICES ASSUME Init PROVE WorkerInv
  OBVIOUS
<1>1. /\ open.kind = "closed" /\ job.phase = "none" /\ visible = NoFile /\ durable = NoFile
      /\ acked = {} /\ clock = 0
  BY DEF Init, NotOpen, NoJob
<1>2. WorkerTypeOK /\ stranded \in BOOLEAN
  <2>1. 0 \in Times
    BY EngineConfiguration DEF Times
  <2>2. WorkerTypeOK
    BY <2>1 DEF Init, WorkerTypeOK
  <2>. QED
    BY <2>2, Zenon DEF Init
<1>3. EnginesSound /\ JobSound /\ StoreKnown /\ AnswersBacked
  BY <1>1 DEF EnginesSound, JobSound, StoreKnown, AnswersBacked
<1>. QED
  BY <1>2, <1>3 DEF WorkerInv

\* A command that changed its engine and hands it to the store.
LEMMA StoreKeeps ==
  ASSUME WorkerInv, Ready, NEW now \in Times, clock' = Max({clock, now}),
         NEW n, EngineOK(n, clock'), Continues(open.engine, n),
         NEW accepted, accepted \subseteq n.records,
         Store(n, open.engine, open.revision, accepted),
         UNCHANGED <<visible, durable, acked, stranded>>
  PROVE  WorkerInv'
<1>1. WorkerTypeOK
  BY DEF WorkerInv
<1>2. open.kind = "open" /\ job.phase = "none" /\ job = NoJob /\ open \in OpenEngine
  BY <1>1, WorkerShapes DEF Ready, Idle
<1>3. clock \in Times /\ clock' \in Times /\ clock <= clock'
  BY <1>1, ClockForward DEF WorkerTypeOK
<1>4. n \in Engine /\ n.records \subseteq Record
  BY EngineParts DEF EngineOK
<1>5. open.engine \in Engine /\ open.revision \in Nat
  BY <1>2 DEF OpenEngine
<1>6. /\ visible # NoFile => EngineOK(visible.engine, clock')
      /\ durable # NoFile => EngineOK(durable.engine, clock')
      /\ EngineOK(open.engine, clock')
  BY <1>2, <1>3, LaterClock DEF WorkerInv, EnginesSound
<1>7. visible' = visible /\ durable' = durable /\ acked' = acked /\ stranded' = stranded
  OBVIOUS
<1>8. CASE visible.revision # open.revision
  <2>1. open' = open /\ job' = job
    BY <1>8 DEF Store
  <2>2. WorkerTypeOK' /\ stranded' \in BOOLEAN
    BY <1>1, <1>3, <1>7, <2>1 DEF WorkerTypeOK, WorkerInv
  <2>3. EnginesSound'
    BY <1>2, <1>6, <1>7, <2>1 DEF EnginesSound
  <2>4. JobSound' /\ StoreKnown' /\ AnswersBacked'
    BY <1>2, <1>7, <2>1 DEF WorkerInv, JobSound, StoreKnown, AnswersBacked
  <2>. QED
    BY <2>2, <2>3, <2>4 DEF WorkerInv
<1>9. CASE visible.revision = open.revision
  <2>1. PICK checkpoint : checkpoint = [revision |-> open.revision + 1, engine |-> n]
    OBVIOUS
  <2>2. /\ job' = [phase |-> "write", original |-> open.engine, accepted |-> accepted,
                   checkpoint |-> checkpoint]
        /\ open' = [open EXCEPT !.engine = n]
    BY <1>2, <1>9, <2>1 DEF Store
  <2>3. checkpoint \in Checkpoint /\ checkpoint.engine = n
        /\ checkpoint.revision = open.revision + 1
    BY <1>4, <1>5, <2>1 DEF Checkpoint
  <2>4. /\ job' \in Job /\ job'.phase = "write" /\ job'.original = open.engine
        /\ job'.accepted = accepted /\ job'.checkpoint = checkpoint
    BY <1>4, <1>5, <2>2, <2>3 DEF Job
  <2>5. open' \in OpenEngine /\ open'.kind = "open" /\ open'.engine = n
        /\ open'.revision = open.revision
    BY <1>2, <1>4, <2>2 DEF OpenEngine
  <2>6. WorkerTypeOK' /\ stranded' \in BOOLEAN
    BY <1>1, <1>3, <1>7, <2>4, <2>5 DEF WorkerTypeOK, WorkerInv
  <2>7. visible # NoFile /\ visible.engine = open.engine
    <3>1. visible # NoFile
          /\ \/ open.engine = visible.engine /\ open.revision = visible.revision
             \/ visible.revision = open.revision + 1
      BY <1>2 DEF WorkerInv, StoreKnown
    <3>2. visible.revision # open.revision + 1
      BY <1>5, <1>9
    <3>. QED
      BY <3>1, <3>2
  <2>8. EnginesSound'
    BY <1>6, <1>7, <2>3, <2>4, <2>5 DEF EnginesSound
  <2>9. JobSound'
    BY <1>7, <1>9, <2>3, <2>4, <2>5, <2>7 DEF JobSound
  <2>10. StoreKnown'
    BY <1>7, <2>4, <2>5, <2>7 DEF StoreKnown
  <2>11. AnswersBacked'
    <3>. SUFFICES ASSUME NEW r \in acked
                  PROVE  /\ durable # NoFile /\ Backs(durable.engine, r)
                         /\ visible # NoFile /\ Backs(visible.engine, r)
                         /\ Backs(n, r) /\ Backs(open.engine, r)
      BY <1>7, <2>3, <2>4, <2>5 DEF AnswersBacked
    <3>1. /\ durable # NoFile /\ Backs(durable.engine, r)
          /\ visible # NoFile /\ Backs(visible.engine, r) /\ Backs(open.engine, r)
      BY <1>2 DEF WorkerInv, AnswersBacked
    <3>2. r \in Record
      BY <1>1 DEF WorkerTypeOK
    <3>. QED
      BY <3>1, <3>2 DEF Continues
  <2>. QED
    BY <2>6, <2>8, <2>9, <2>10, <2>11 DEF WorkerInv
<1>. QED
  BY <1>8, <1>9

-----------------------------------------------------------------------------
(* The steps of the store and of the system underneath *)

LEMMA WriteTemporaryKeeps ==
  ASSUME WorkerInv, WriteTemporary
  PROVE  WorkerInv'
<1>1. WorkerTypeOK /\ job \in Job
  BY WorkerShapes DEF WorkerInv, WriteTemporary
<1>2. /\ job' \in Job /\ job'.phase = "rename" /\ job.phase = "write"
      /\ job'.original = job.original /\ job'.accepted = job.accepted
      /\ job'.checkpoint = job.checkpoint
  BY <1>1 DEF WriteTemporary, Job
<1>3. UNCHANGED <<open, visible, durable, clock, acked, stranded>>
  BY DEF WriteTemporary
<1>4. WorkerTypeOK' /\ stranded' \in BOOLEAN
  BY <1>1, <1>2, <1>3 DEF WorkerTypeOK, WorkerInv
<1>5. EnginesSound' /\ JobSound'
  BY <1>2, <1>3 DEF WorkerInv, EnginesSound, JobSound
<1>6. StoreKnown' /\ AnswersBacked'
  BY <1>2, <1>3 DEF WorkerInv, StoreKnown, AnswersBacked
<1>. QED
  BY <1>4, <1>5, <1>6 DEF WorkerInv

LEMMA RenameKeeps ==
  ASSUME WorkerInv, Rename
  PROVE  WorkerInv'
<1>1. WorkerTypeOK /\ job \in Job
  BY WorkerShapes DEF WorkerInv, Rename
<1>2. /\ job' \in Job /\ job'.phase = "sync" /\ job.phase = "rename"
      /\ job'.original = job.original /\ job'.accepted = job.accepted
      /\ job'.checkpoint = job.checkpoint
  BY <1>1 DEF Rename, Job
<1>3. visible' = job.checkpoint /\ UNCHANGED <<open, durable, clock, acked, stranded>>
  BY DEF Rename
<1>4. job.checkpoint \in Checkpoint /\ job.checkpoint # NoFile
  BY <1>1, WorkerShapes DEF Job
<1>5. WorkerTypeOK' /\ stranded' \in BOOLEAN
  BY <1>1, <1>2, <1>3, <1>4 DEF WorkerTypeOK, WorkerInv
<1>6. EnginesSound' /\ JobSound'
  BY <1>2, <1>3, <1>4 DEF WorkerInv, EnginesSound, JobSound
<1>7. StoreKnown' /\ AnswersBacked'
  BY <1>2, <1>3, <1>4 DEF WorkerInv, StoreKnown, AnswersBacked
<1>. QED
  BY <1>5, <1>6, <1>7 DEF WorkerInv

LEMMA SyncDirectoryKeeps ==
  ASSUME WorkerInv, SyncDirectory
  PROVE  WorkerInv'
<1>1. WorkerTypeOK /\ job \in Job /\ job.phase = "sync"
  BY WorkerShapes DEF WorkerInv, SyncDirectory
<1>2. /\ job.checkpoint \in Checkpoint /\ job.checkpoint # NoFile /\ job.accepted \subseteq Record
      /\ visible = job.checkpoint /\ job.accepted \subseteq job.checkpoint.engine.records
  BY <1>1, WorkerShapes DEF Job, WorkerInv, JobSound
<1>3. /\ durable' = visible /\ visible' = visible /\ clock' = clock /\ stranded' = stranded
      /\ acked' = acked \cup job.accepted
      /\ open' = [kind |-> "open", engine |-> visible.engine, revision |-> visible.revision]
      /\ job' = NoJob
  BY <1>2 DEF SyncDirectory, Opened
<1>4. /\ open' \in OpenEngine /\ open'.kind = "open" /\ open'.engine = visible.engine
      /\ open'.revision = visible.revision /\ job'.phase = "none"
  BY <1>2, <1>3 DEF Checkpoint, OpenEngine, NoJob
<1>5. WorkerTypeOK' /\ stranded' \in BOOLEAN
  BY <1>1, <1>2, <1>3, <1>4 DEF WorkerTypeOK, WorkerInv
<1>6. EngineOK(visible.engine, clock)
  BY <1>2 DEF WorkerInv, EnginesSound
<1>7. EnginesSound' /\ JobSound' /\ StoreKnown'
  BY <1>2, <1>3, <1>4, <1>6 DEF EnginesSound, JobSound, StoreKnown
<1>8. AnswersBacked'
  <2>1. ASSUME NEW r \in acked' PROVE Backs(visible.engine, r)
    <3>1. CASE r \in acked
      BY <3>1 DEF WorkerInv, AnswersBacked
    <3>2. CASE r \in job.accepted
      BY <3>2, <1>2, <1>6 DEF EngineOK, RecordsSound
    <3>. QED
      BY <2>1, <3>1, <3>2, <1>3
  <2>. QED
    BY <2>1, <1>2, <1>3, <1>4 DEF AnswersBacked
<1>. QED
  BY <1>5, <1>7, <1>8 DEF WorkerInv

LEMMA StoreFailsKeeps ==
  ASSUME WorkerInv, StoreFails
  PROVE  WorkerInv'
<1>1. WorkerTypeOK /\ job \in Job /\ job.phase # "none"
  BY WorkerShapes DEF WorkerInv, StoreFails
<1>2. /\ job' = NoJob /\ job'.phase = "none" /\ stranded' = (stranded \/ job.phase = "sync")
      /\ UNCHANGED <<visible, durable, clock, acked>>
  BY DEF StoreFails, NoJob
<1>3. CASE open.kind = "closed"
  <2>1. open' = open
    BY <1>3 DEF StoreFails
  <2>2. WorkerTypeOK'
    BY <1>1, <1>2, <2>1 DEF WorkerTypeOK
  <2>3. stranded' \in BOOLEAN
    BY <1>2, Zenon
  <2>4. EnginesSound' /\ JobSound' /\ StoreKnown' /\ AnswersBacked'
    BY <1>2, <1>3, <2>1 DEF WorkerInv, EnginesSound, JobSound, StoreKnown, AnswersBacked
  <2>. QED
    BY <2>2, <2>3, <2>4 DEF WorkerInv
<1>4. CASE open.kind = "open"
  <2>1. open \in OpenEngine /\ EngineOK(job.original, clock)
    BY <1>1, <1>4, WorkerShapes DEF WorkerInv, EnginesSound
  <2>2. open' = [open EXCEPT !.engine = job.original] /\ job.original \in Engine
    BY <1>4, <2>1 DEF StoreFails, EngineOK
  <2>3. /\ open' \in OpenEngine /\ open'.kind = "open" /\ open'.engine = job.original
        /\ open'.revision = open.revision
    BY <2>1, <2>2 DEF OpenEngine
  <2>4. WorkerTypeOK'
    BY <1>1, <1>2, <2>3 DEF WorkerTypeOK
  <2>5. stranded' \in BOOLEAN
    BY <1>2, Zenon
  <2>6. EnginesSound' /\ JobSound' /\ AnswersBacked'
    BY <1>1, <1>2, <1>4, <2>1, <2>3 DEF WorkerInv, EnginesSound, JobSound, AnswersBacked
  <2>7. visible # NoFile
    BY <1>4 DEF WorkerInv, StoreKnown
  <2>8. CASE job.phase = "sync"
    <3>1. visible.revision = open.revision + 1 /\ stranded'
      BY <2>8, <1>1, <1>2, <1>4 DEF WorkerInv, JobSound
    <3>. QED
      BY <3>1, <2>3, <2>4, <2>5, <2>6, <2>7, <1>2 DEF WorkerInv, StoreKnown
  <2>9. CASE job.phase # "sync"
    <3>1. visible.engine = job.original /\ visible.revision = open.revision
      BY <2>9, <1>1, <1>4 DEF WorkerInv, JobSound
    <3>. QED
      BY <3>1, <2>3, <2>4, <2>5, <2>6, <2>7, <1>2 DEF WorkerInv, StoreKnown
  <2>. QED
    BY <2>8, <2>9
<1>. QED
  BY <1>1, <1>3, <1>4, WorkerShapes

\* The process is gone: what is left is the file.
LEMMA ClosedKeeps ==
  ASSUME WorkerInv, open' = NotOpen, job' = NoJob,
         visible' \in {visible, durable},
         UNCHANGED <<durable, clock, acked, stranded>>
  PROVE  WorkerInv'
<1>1. open'.kind = "closed" /\ job'.phase = "none"
  BY DEF NotOpen, NoJob
<1>2. WorkerTypeOK' /\ stranded' \in BOOLEAN
  BY DEF WorkerInv, WorkerTypeOK
<1>3. EnginesSound' /\ JobSound' /\ StoreKnown'
  BY <1>1 DEF WorkerInv, EnginesSound, JobSound, StoreKnown
<1>4. AnswersBacked'
  BY <1>1 DEF WorkerInv, AnswersBacked
<1>. QED
  BY <1>2, <1>3, <1>4 DEF WorkerInv

LEMMA WriteBackKeeps ==
  ASSUME WorkerInv, WriteBack
  PROVE  WorkerInv'
<1>1. durable' = visible /\ UNCHANGED <<open, job, visible, clock, acked, stranded>>
  BY DEF WriteBack
<1>2. WorkerTypeOK' /\ stranded' \in BOOLEAN
  BY <1>1 DEF WorkerInv, WorkerTypeOK
<1>3. EnginesSound' /\ JobSound' /\ StoreKnown'
  BY <1>1 DEF WorkerInv, EnginesSound, JobSound, StoreKnown
<1>4. AnswersBacked'
  BY <1>1 DEF WorkerInv, AnswersBacked
<1>. QED
  BY <1>2, <1>3, <1>4 DEF WorkerInv

LEMMA SystemKeeps ==
  ASSUME WorkerInv, SystemNext \/ Shutdown
  PROVE  WorkerInv'
<1>1. CASE WriteBack
  BY <1>1, WriteBackKeeps
<1>2. CASE KillProcess
  BY <1>2, ClosedKeeps DEF KillProcess
<1>3. CASE PowerFailure
  BY <1>3, ClosedKeeps DEF PowerFailure
<1>4. CASE Shutdown
  <2>1. job = NoJob
    BY <1>4, WorkerShapes DEF WorkerInv, Shutdown, Ready, Idle
  <2>. QED
    BY <1>4, <2>1, ClosedKeeps DEF Shutdown
<1>. QED
  BY <1>1, <1>2, <1>3, <1>4 DEF SystemNext

-----------------------------------------------------------------------------
(* The commands *)

LEMMA CreateProjectKeeps ==
  ASSUME WorkerInv, NEW schema \in 1 .. MaxSchema, CreateProject(schema)
  PROVE  WorkerInv'
<1>1. WorkerTypeOK /\ job = NoJob /\ job.phase = "none" /\ open.kind = "closed" /\ open = NotOpen
  BY WorkerShapes DEF WorkerInv, CreateProject, Idle
<1>2. UNCHANGED <<visible, durable, clock, acked>>
  BY DEF CreateProject
<1>3. CASE /\ visible # NoFile
           /\ open' = Opened(visible.engine, visible.revision)
           /\ stranded' = FALSE
           /\ UNCHANGED job
  <2>1. visible \in Checkpoint /\ EngineOK(visible.engine, clock)
    BY <1>1, <1>3, WorkerShapes DEF WorkerInv, EnginesSound
  <2>2. /\ open' \in OpenEngine /\ open'.kind = "open" /\ open'.engine = visible.engine
        /\ open'.revision = visible.revision /\ job'.phase = "none"
    BY <1>1, <1>3, <2>1 DEF Checkpoint, OpenEngine, Opened
  <2>3. WorkerTypeOK'
    BY <1>1, <1>2, <1>3, <2>2 DEF WorkerTypeOK
  <2>4. stranded' \in BOOLEAN
    BY <1>3, Zenon
  <2>5. EnginesSound' /\ JobSound' /\ StoreKnown'
    BY <1>2, <1>3, <2>1, <2>2 DEF WorkerInv, EnginesSound, JobSound, StoreKnown
  <2>6. AnswersBacked'
    BY <1>2, <1>3, <2>2 DEF WorkerInv, AnswersBacked
  <2>. QED
    BY <2>3, <2>4, <2>5, <2>6 DEF WorkerInv
<1>4. CASE /\ visible = NoFile
           /\ Store([NewEngine EXCEPT !.schema = schema], NoFile, 0, {})
           /\ stranded' = FALSE
  <2>1. PICK n : n = [NewEngine EXCEPT !.schema = schema]
    OBVIOUS
  <2>2. schema \in Nat /\ clock \in Times
    BY <1>1, WorkerBounds DEF WorkerTypeOK
  <2>3. EngineOK(n, clock)
    BY <2>1, <2>2, NewEngineSound
  <2>4. visible.revision = 0
    BY <1>4 DEF NoFile
  <2>5. PICK checkpoint : checkpoint = [revision |-> 1, engine |-> n]
    OBVIOUS
  <2>6. /\ job' = [phase |-> "write", original |-> NoFile, accepted |-> {},
                   checkpoint |-> checkpoint]
        /\ open' = open
    BY <1>1, <1>4, <2>1, <2>4, <2>5 DEF Store
  <2>7. checkpoint \in Checkpoint /\ checkpoint.engine = n
    BY <2>3, <2>5 DEF Checkpoint, EngineOK
  <2>8. /\ job' \in Job /\ job'.phase = "write" /\ job'.accepted = {}
        /\ job'.checkpoint = checkpoint
    BY <2>6, <2>7 DEF Job
  <2>9. acked = {}
    BY <1>4 DEF WorkerInv, AnswersBacked
  <2>10. WorkerTypeOK'
    BY <1>1, <1>2, <2>6, <2>8 DEF WorkerTypeOK
  <2>11. stranded' \in BOOLEAN
    BY <1>4, Zenon
  <2>12. EnginesSound' /\ JobSound' /\ StoreKnown'
    BY <1>1, <1>2, <1>4, <2>3, <2>6, <2>7, <2>8 DEF WorkerInv, EnginesSound, JobSound, StoreKnown
  <2>13. AnswersBacked'
    BY <1>2, <2>9 DEF AnswersBacked
  <2>. QED
    BY <2>10, <2>11, <2>12, <2>13 DEF WorkerInv
<1>. QED
  BY <1>3, <1>4 DEF CreateProject

LEMMA PushKeeps ==
  ASSUME WorkerInv, NEW u \in Subjects, NEW schema, NEW q \in 1 .. MaxBatch, NEW now \in Times,
         NEW batch \in [1 .. q -> Mutations], NEW atomic \in BOOLEAN,
         PushBatch(u, batch, schema, atomic, now)
  PROVE  WorkerInv'
<1>1. WorkerTypeOK /\ Ready /\ open.kind = "open" /\ clock \in Times
  BY DEF WorkerInv, WorkerTypeOK, PushBatch, Ready
<1>2. clock' = Max({clock, now}) /\ clock' \in Times /\ clock <= clock' /\ now <= clock'
  BY <1>1, ClockForward DEF PushBatch, Seen
<1>3. q \in Nat /\ Len(batch) = q /\ \A i \in 1 .. Len(batch) : batch[i] \in Mutations
  BY WorkerBounds
<1>4. EngineOK(open.engine, clock')
  BY <1>1, <1>2, LaterClock DEF WorkerInv, EnginesSound
<1>5. PICK after : after = Applied(open.engine, u, batch, now)
  OBVIOUS
<1>6. PICK n : n = after[Len(batch)]
  OBVIOUS
<1>7. EngineOK(n, clock') /\ Continues(open.engine, n)
  <2>1. Len(batch) \in 0 .. Len(batch) /\ Len(batch) \in Nat
    BY <1>3
  <2>2. \A k \in 0 .. Len(batch) : EngineOK(after[k], clock') /\ Continues(open.engine, after[k])
    BY <1>2, <1>3, <1>4, <1>5, <2>1, BatchSound
  <2>. QED
    BY <1>6, <2>1, <2>2
<1>8. PICK result : result = Push(open.engine, u, batch, atomic, now)
  OBVIOUS
<1>9. ~result.failed
      /\ Store(result.engine, open.engine, open.revision, result.accepted)
  BY <1>8 DEF PushBatch
<1>10. result.engine = (IF result.failed THEN open.engine ELSE n)
       /\ result.accepted \subseteq n.records
  BY <1>5, <1>6, <1>8 DEF Push
<1>11. result.engine = n
  BY <1>9, <1>10
<1>12. UNCHANGED <<visible, durable, acked, stranded>>
  BY DEF PushBatch
<1>. QED
  BY <1>1, <1>2, <1>7, <1>9, <1>10, <1>11, <1>12, StoreKeeps

LEMMA InvalidateKeeps ==
  ASSUME WorkerInv, NEW schema \in 1 .. MaxSchema, NEW now \in Times, InvalidateScope(schema, now)
  PROVE  WorkerInv'
<1>1. WorkerTypeOK /\ Ready /\ open.kind = "open" /\ clock \in Times /\ schema \in Nat
  BY WorkerBounds DEF WorkerInv, WorkerTypeOK, InvalidateScope, Ready
<1>2. clock' = Max({clock, now}) /\ clock' \in Times /\ clock <= clock' /\ now <= clock'
  BY <1>1, ClockForward DEF InvalidateScope, Seen
<1>3. EngineOK(open.engine, clock')
  BY <1>1, <1>2, LaterClock DEF WorkerInv, EnginesSound
<1>4. PICK n : n = Invalidate(open.engine, schema, now)
  OBVIOUS
<1>5. EngineOK(n, clock') /\ Continues(open.engine, n) /\ {} \subseteq n.records
  BY <1>1, <1>2, <1>3, <1>4, InvalidateSound
<1>6. Store(n, open.engine, open.revision, {}) /\ UNCHANGED <<visible, durable, acked, stranded>>
  BY <1>4 DEF InvalidateScope
<1>. QED
  BY <1>1, <1>2, <1>5, <1>6, StoreKeeps

LEMMA CompactKeeps ==
  ASSUME WorkerInv, NEW now \in Times, CompactProject(now)
  PROVE  WorkerInv'
<1>1. WorkerTypeOK /\ Ready /\ open.kind = "open" /\ clock \in Times
  BY DEF WorkerInv, WorkerTypeOK, CompactProject, Ready
<1>2. clock' = Max({clock, now}) /\ clock' \in Times /\ clock <= clock' /\ now <= clock'
  BY <1>1, ClockForward DEF CompactProject, Seen
<1>3. EngineOK(open.engine, clock')
  BY <1>1, <1>2, LaterClock DEF WorkerInv, EnginesSound
<1>4. PICK n : n = Compact(open.engine, now)
  OBVIOUS
<1>5. EngineOK(n, clock') /\ Continues(open.engine, n) /\ {} \subseteq n.records
  BY <1>1, <1>2, <1>3, <1>4, CompactSound
<1>6. Store(n, open.engine, open.revision, {}) /\ UNCHANGED <<visible, durable, acked, stranded>>
  BY <1>4 DEF CompactProject
<1>. QED
  BY <1>1, <1>2, <1>5, <1>6, StoreKeeps

LEMMA WorkerStep ==
  ASSUME WorkerInv, [Next]_vars
  PROVE  WorkerInv'
<1>1. CASE CommandNext
  <2>1. ASSUME NEW schema \in 1 .. MaxSchema, CreateProject(schema) PROVE WorkerInv'
    BY <2>1, CreateProjectKeeps
  <2>2. ASSUME NEW u \in Subjects, NEW schema \in 1 .. MaxSchema, NEW q \in 1 .. MaxBatch,
               NEW now \in Times, NEW batch \in [1 .. q -> Mutations], NEW atomic \in BOOLEAN,
               PushBatch(u, batch, schema, atomic, now)
        PROVE  WorkerInv'
    BY <2>2, PushKeeps
  <2>3. ASSUME NEW schema \in 1 .. MaxSchema, NEW now \in Times, InvalidateScope(schema, now)
        PROVE  WorkerInv'
    BY <2>3, InvalidateKeeps
  <2>4. ASSUME NEW now \in Times, CompactProject(now) PROVE WorkerInv'
    BY <2>4, CompactKeeps
  <2>5. CASE Shutdown
    BY <2>5, SystemKeeps
  <2>. QED
    BY <1>1, <2>1, <2>2, <2>3, <2>4, <2>5 DEF CommandNext
<1>2. CASE StoreNext
  BY <1>2, WriteTemporaryKeeps, RenameKeeps, SyncDirectoryKeeps, StoreFailsKeeps DEF StoreNext
<1>3. CASE SystemNext
  BY <1>3, SystemKeeps
<1>4. CASE UNCHANGED vars
  <2>1. UNCHANGED <<open, job, visible, durable, clock, acked, stranded>>
    BY <1>4 DEF vars
  <2>2. WorkerTypeOK' /\ stranded' \in BOOLEAN
    BY <2>1 DEF WorkerInv, WorkerTypeOK
  <2>3. EnginesSound' /\ JobSound' /\ StoreKnown' /\ AnswersBacked'
    BY <2>1 DEF WorkerInv, EnginesSound, JobSound, StoreKnown, AnswersBacked
  <2>. QED
    BY <2>2, <2>3 DEF WorkerInv
<1>. QED
  BY <1>1, <1>2, <1>3, <1>4 DEF Next

\* The inductive invariant holds of every execution of the worker.
LEMMA WorkerInductive ==
  Spec => []WorkerInv
<1>1. Init => WorkerInv
  BY WorkerInit
<1>2. WorkerInv /\ [Next]_vars => WorkerInv'
  BY WorkerStep
<1>. QED
  BY <1>1, <1>2, PTL DEF Spec

-----------------------------------------------------------------------------
(* The theorems *)

\* Every engine that is held or stored is sound.
LEMMA EnginesAreSound ==
  ASSUME WorkerInv, NEW e \in Engines
  PROVE  EngineOK(e, clock)
BY DEF Engines, WorkerInv, EnginesSound

\* restore accepts every checkpoint the worker ever writes, and between
\* commands the engine in memory is the stored one or is known to lag behind
\* it, however commands, failed stores, crashes and clock steps interleave.
THEOREM StoreIsFaithful == Spec => []StoreFaithful
<1>1. ASSUME WorkerInv PROVE StoreFaithful
  <2>1. CheckpointsRestorable
    BY <1>1, EnginesAreSound, SoundIsValid DEF CheckpointsRestorable
  <2>2. MemoryMatchesStore
    BY <1>1 DEF WorkerInv, StoreKnown, MemoryMatchesStore, Ready, Idle
  <2>. QED
    BY <1>1, <2>1, <2>2 DEF StoreFaithful, WorkerInv
<1>. QED
  BY <1>1, WorkerInductive, PTL

\* No history is missing above the minimum of any engine the worker holds or
\* has stored, and a mutation is in it once within the idempotency retention.
THEOREM HistoryIsFaithful == Spec => []HistoryFaithful
<1>1. ASSUME WorkerInv PROVE HistoryFaithful
  <2>1. HistoryComplete
    BY <1>1, EnginesAreSound DEF HistoryComplete, EngineOK, HistorySound
  <2>2. MutationsAppliedOnce
    BY <1>1, EnginesAreSound DEF MutationsAppliedOnce, EngineOK, OnceIn, IsChange
  <2>. QED
    BY <2>1, <2>2 DEF HistoryFaithful
<1>. QED
  BY <1>1, WorkerInductive, PTL

\* What a push answered is on the disk, or retention has dropped it: no crash,
\* failed store or power failure loses it.
THEOREM AnswersAreDurable == Spec => []AnsweredIsDurable
<1>1. ASSUME WorkerInv PROVE AnsweredIsDurable
  BY <1>1 DEF WorkerInv, AnswersBacked, AnsweredIsDurable, Backs
<1>. QED
  BY <1>1, WorkerInductive, PTL
=============================================================================
