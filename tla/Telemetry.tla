----------------------------- MODULE Telemetry -----------------------------
(* The retained operator telemetry of the API process (observability.rs).    *)
(* Requests record samples through a bounded channel; one recorder task      *)
(* aggregates them in memory, a key at a time, and flushes the aggregates to *)
(* PostgreSQL; a retention task deletes old minutes; a summary reads a       *)
(* window of what is stored, one query after the other.                      *)
(* Time counts parts of a minute: Minute of them make one.  A latency is     *)
(* capped and counted in cumulative buckets, as the code does; the field     *)
(* "of", which the code has not, remembers the exact latencies.              *)
EXTENDS Naturals, Sequences, FiniteSets, FiniteSetsExt, Folds, Functions

CONSTANTS
  Producers,       \* request tasks
  Durations,       \* latencies
  Bounds,          \* the upper bounds of the latency buckets
  Statements,      \* statements, each a sequence of lexemes
  EventBuffer,     \* the capacity of the channel
  MaxPendingKeys,  \* how many keys the recorder aggregates
  Minute,          \* a minute in units of time
  Ranges,          \* the windows and resolutions a summary offers
  RetentionTime,   \* how long minutes are kept
  MaxNow, MaxRequests, MaxOutages   \* bounds

ASSUME TelemetryAssumption ==
  /\ EventBuffer \in Nat \ {0} /\ Minute \in Nat \ {0} /\ MaxPendingKeys \in Nat
  /\ Len(Bounds) > 0 /\ \A i \in 2..Len(Bounds) : Bounds[i - 1] < Bounds[i]

VARIABLES
  now,        \* the clock
  sending,    \* the samples a request task is about to send
  channel,    \* the samples in the channel
  dropped,    \* the samples counted as dropped, by table
  pending,    \* the recorder's aggregates
  batch,      \* the aggregates being flushed
  recorder,   \* what the recorder does
  minutes,    \* the tables observability_http_buckets, observability_query_buckets
  sizes,      \* the table observability_project_storage
  report,     \* a summary that is being read
  tally       \* ghost: requests, samples recorded, repeated, expired and lost unseen
telemetryVars ==
  <<now, sending, channel, dropped, pending, batch, recorder, minutes, sizes, report, tally>>

Tables == {"http", "query", "storage"}
Empty == [k \in {} |-> 0]
Lower(a, b) == IF a < b THEN a ELSE b
Higher(a, b) == IF a > b THEN a ELSE b
Total(f) == FoldFunctionOnSet(LAMBDA x, y : x + y, 0, f, DOMAIN f)

MinuteOf(t) == (t \div Minute) * Minute

\* The shape of a statement: what is not a keyword or punctuation becomes "?",
\* comments disappear, and a statement of nothing else is UNKNOWN.
RedactShape(sql) ==
  LET shown == SelectSeq(sql, LAMBDA x : x # "comment")
  IN  IF shown = <<>> THEN <<"UNKNOWN">>
      ELSE [i \in DOMAIN shown |-> IF shown[i] \in {"keyword", "punctuation"} THEN shown[i] ELSE "?"]
----------------------------------------------------------------------------
(* Latencies.                                                                *)
Top == Bounds[Len(Bounds)]

NoLatency ==
  [count |-> 0, max |-> 0, le |-> [i \in DOMAIN Bounds |-> 0], errors |-> 0,
   of |-> [d \in Durations |-> 0]]

\* Mutant: every latency goes into one bucket only.
ObserveOnce(a, d, failed) ==
  LET capped == Lower(d, Top)
      first == CHOOSE i \in DOMAIN Bounds :
                 capped <= Bounds[i] /\ \A j \in 1..(i - 1) : capped > Bounds[j]
  IN  [count |-> a.count + 1, max |-> Higher(a.max, capped),
       le |-> [a.le EXCEPT ![first] = @ + 1],
       errors |-> a.errors + failed, of |-> [a.of EXCEPT ![d] = @ + 1]]

Observe(a, d, failed) ==
  LET capped == Lower(d, Top)
  IN  [count |-> a.count + 1, max |-> Higher(a.max, capped),
       le |-> [i \in DOMAIN Bounds |-> a.le[i] + IF capped <= Bounds[i] THEN 1 ELSE 0],
       errors |-> a.errors + failed, of |-> [a.of EXCEPT ![d] = @ + 1]]

Merge(a, b) ==
  [count |-> a.count + b.count, max |-> Higher(a.max, b.max),
   le |-> [i \in DOMAIN Bounds |-> a.le[i] + b.le[i]], errors |-> a.errors + b.errors,
   of |-> [d \in Durations |-> a.of[d] + b.of[d]]]

\* The percentile p of an aggregate, from 100, as a number and its divisor:
\* linear in the bucket that holds the rank, and never above the maximum.
Percentile(a, p) ==
  LET target == (a.count * p + 99) \div 100
      i == Min({j \in DOMAIN Bounds : a.le[j] >= target})
      previous == IF i = 1 THEN 0 ELSE a.le[i - 1]
      lower == IF i = 1 THEN 0 ELSE Bounds[i - 1]
      inBucket == a.le[i] - previous
      estimate == lower * inBucket + (Bounds[i] - lower) * (target - previous)
  IN  IF inBucket = 0 THEN <<Lower(Bounds[i], a.max), 1>>
      ELSE <<Lower(estimate, a.max * inBucket), inBucket>>
----------------------------------------------------------------------------
(* Recording.                                                                *)
Key(table, minute, label) == [table |-> table, minute |-> minute, label |-> label]
Sample(key, d, failed) == [key |-> key, duration |-> d, failed |-> failed, at |-> 0]

\* The middleware around a request records it when the answer is ready.
RecordHttp(p, d, class) ==
  /\ sending[p] = <<>> /\ tally.requests < MaxRequests
  /\ sending' = [sending EXCEPT ![p] = <<Sample(Key("http", MinuteOf(now), class), d, 0)>>]
  /\ tally' = [tally EXCEPT !.requests = @ + 1, !.recorded = @ + 1]
  /\ UNCHANGED <<now, channel, dropped, pending, batch, recorder, minutes, sizes, report>>

QuerySamples(statements, d, failed) ==
  [i \in DOMAIN statements |->
     Sample(Key("query", MinuteOf(now), RedactShape(statements[i])), d, failed)]
SizeSample(bytesAt) ==
  [key |-> Key("storage", 0, <<"size">>), duration |-> 0, failed |-> 0, at |-> bytesAt]

\* An execution records one sample for each statement, if it failed or if the
\* worker measured as many as there are, and the size the worker reports.
RecordExecution(p, statements, d, failed, measured) ==
  /\ sending[p] = <<>> /\ tally.requests < MaxRequests
  /\ LET queries == IF failed = 1 \/ measured THEN QuerySamples(statements, d, failed) ELSE <<>>
         events == IF failed = 1 THEN queries ELSE Append(queries, SizeSample(now))
     IN  /\ sending' = [sending EXCEPT ![p] = events]
         /\ tally' = [tally EXCEPT !.requests = @ + 1, !.recorded = @ + Len(queries)]
  /\ UNCHANGED <<now, channel, dropped, pending, batch, recorder, minutes, sizes, report>>

\* Mutant: what does not fit is not counted.
SendQuietly(p) ==
  /\ sending[p] # <<>>
  /\ sending' = [sending EXCEPT ![p] = Tail(@)]
  /\ channel' = IF Len(channel) < EventBuffer /\ recorder # "ended"
                THEN Append(channel, Head(sending[p])) ELSE channel
  /\ UNCHANGED <<now, dropped, pending, batch, recorder, minutes, sizes, report, tally>>

\* try_send: a full channel, or a recorder that has ended, drops the sample.
Send(p) ==
  /\ sending[p] # <<>>
  /\ sending' = [sending EXCEPT ![p] = Tail(@)]
  /\ \/ /\ Len(channel) < EventBuffer /\ recorder # "ended"
        /\ channel' = Append(channel, Head(sending[p]))
        /\ UNCHANGED dropped
     \/ /\ Len(channel) = EventBuffer \/ recorder = "ended"
        /\ dropped' = [dropped EXCEPT ![Head(sending[p]).key.table] = @ + 1]
        /\ UNCHANGED channel
  /\ UNCHANGED <<now, pending, batch, recorder, minutes, sizes, report, tally>>
----------------------------------------------------------------------------
(* The recorder.                                                             *)
Fits(k) == k \in DOMAIN pending \/ Cardinality(DOMAIN pending) < MaxPendingKeys

Entry(known, k) == IF k \in DOMAIN known THEN known[k] ELSE NoLatency

Put(f, k, v) == [x \in DOMAIN f \cup {k} |-> IF x = k THEN v ELSE f[x]]

Aggregated(e) ==
  Put(pending, e.key,
      IF e.key.table = "storage" THEN [at |-> e.at]
      ELSE Observe(Entry(pending, e.key), e.duration, e.failed))

Receive ==
  /\ recorder \in {"receiving", "draining"} /\ channel # <<>>
  /\ channel' = Tail(channel)
  /\ LET e == Head(channel)
     IN  \/ Fits(e.key) /\ pending' = Aggregated(e) /\ UNCHANGED dropped
         \/ /\ ~Fits(e.key) /\ UNCHANGED pending
            /\ dropped' = [dropped EXCEPT ![e.key.table] = @ + 1]
  /\ UNCHANGED <<now, sending, batch, recorder, minutes, sizes, report, tally>>

\* The tick takes the whole of what is pending; until the flush has answered
\* the recorder receives nothing.
BeginFlush ==
  /\ recorder = "receiving" /\ pending # Empty
  /\ batch' = pending /\ pending' = Empty /\ recorder' = "flushing"
  /\ UNCHANGED <<now, sending, channel, dropped, minutes, sizes, report, tally>>

Shutdown ==
  /\ recorder = "receiving" /\ recorder' = "draining"
  /\ UNCHANGED <<now, sending, channel, dropped, pending, batch, minutes, sizes, report, tally>>

LastFlush ==
  /\ recorder = "draining" /\ channel = <<>>
  /\ batch' = pending /\ pending' = Empty
  /\ recorder' = IF pending = Empty THEN "ended" ELSE "closing"
  /\ UNCHANGED <<now, sending, channel, dropped, minutes, sizes, report, tally>>

After == IF recorder = "flushing" THEN "receiving" ELSE "ended"

Rows(f) == {k \in DOMAIN f : k.table # "storage"}

Upserted(b) ==
  [k \in Rows(b) \cup DOMAIN minutes |->
     IF k \in Rows(b) THEN Merge(Entry(minutes, k), b[k]) ELSE minutes[k]]

\* A stored size is replaced unless it was sampled later.
Sized(b) ==
  LET k == Key("storage", 0, <<"size">>)
  IN  IF k \in DOMAIN b /\ sizes <= b[k].at THEN b[k].at ELSE sizes

CountOf(f) == MapThenSumSet(LAMBDA k : f[k].count, Rows(f))

\* One transaction writes the batch.
FlushCommits ==
  /\ recorder \in {"flushing", "closing"}
  /\ minutes' = Upserted(batch) /\ sizes' = Sized(batch)
  /\ batch' = Empty /\ recorder' = After
  /\ UNCHANGED <<now, sending, channel, dropped, pending, report, tally>>

\* A failed flush is tried again with the next: what was taken is pending again.
Merged(b) ==
  [k \in DOMAIN pending \cup DOMAIN b |->
     IF k \notin DOMAIN b THEN pending[k]
     ELSE IF k.table = "storage"
          THEN IF k \in DOMAIN pending /\ pending[k].at > b[k].at THEN pending[k] ELSE b[k]
          ELSE Merge(Entry(pending, k), b[k])]

\* The batch fails; the last one has no next flush and ends with the process.
FlushFails ==
  /\ recorder \in {"flushing", "closing"} /\ tally.outages < MaxOutages
  /\ pending' = Merged(batch) /\ batch' = Empty /\ recorder' = After
  /\ tally' = [tally EXCEPT !.outages = @ + 1]
  /\ UNCHANGED <<now, sending, channel, dropped, minutes, sizes, report>>

\* The transaction commits but its answer is lost, which looks like a failure.
FlushUnanswered ==
  /\ recorder \in {"flushing", "closing"} /\ tally.outages < MaxOutages
  /\ minutes' = Upserted(batch) /\ sizes' = Sized(batch)
  /\ pending' = Merged(batch) /\ batch' = Empty /\ recorder' = After
  /\ tally' = [tally EXCEPT !.outages = @ + 1, !.repeated = @ + CountOf(batch)]
  /\ UNCHANGED <<now, sending, channel, dropped, report>>

\* The process ends, after its shutdown or in the middle, and a new one starts.
\* What was in memory is gone, the count of dropped samples included.
Queued == Cardinality({i \in DOMAIN channel : channel[i].key.table # "storage"})
Unsent(p) == Cardinality({i \in DOMAIN sending[p] : sending[p][i].key.table # "storage"})
Volatile ==
  Queued + MapThenSumSet(Unsent, Producers) + CountOf(pending) + CountOf(batch)

ProcessRestarts ==
  /\ tally.outages < MaxOutages
  /\ sending' = [p \in Producers |-> <<>>] /\ channel' = <<>>
  /\ dropped' = [t \in Tables |-> 0]
  /\ pending' = Empty /\ batch' = Empty /\ recorder' = "receiving"
  /\ tally' = [tally EXCEPT !.outages = @ + 1, !.unseen = @ + Volatile + dropped.http + dropped.query]
  /\ UNCHANGED <<now, minutes, sizes, report>>
----------------------------------------------------------------------------
(* Retention and summaries.                                                  *)
Outdated == {k \in DOMAIN minutes : k.minute + RetentionTime < now}

CleanupRetention ==
  /\ Outdated # {}
  /\ minutes' = Restrict(minutes, DOMAIN minutes \ Outdated)
  /\ tally' = [tally EXCEPT !.expired = @ + MapThenSumSet(LAMBDA k : minutes[k].count, Outdated)]
  /\ report' = [report EXCEPT !.cleaned = TRUE]
  /\ UNCHANGED <<now, sending, channel, dropped, pending, batch, recorder, sizes>>

\* The HTTP rows of a window, and the rows of one point of the chart.
InWindow(from, to) ==
  {k \in DOMAIN minutes : k.table = "http" /\ k.minute >= from /\ k.minute < to}
Point(k, resolution) == (k.minute \div resolution) * resolution

RequestsOf(rows) == MapThenSumSet(LAMBDA k : minutes[k].count, rows)

\* Mutant: the chart begins at the start of the window, without rounding.
PointsUnrounded(from, to, resolution) ==
  {t \in from..to : (t - from) % resolution = 0}

\* The chart's points, from the one that holds the start of the window to the
\* one that holds its end.
Points(from, to, resolution) ==
  LET first == (from \div resolution) * resolution
      last == (to \div resolution) * resolution
  IN  {t \in first..last : (t - first) % resolution = 0}

NoReport == [stage |-> "none", from |-> 0, to |-> 0, charted |-> 0, grouped |-> 0, total |-> 0, cleaned |-> FALSE]

\* The first query: the series, of which the points of the chart take their rows.
ReadSeries(range) ==
  /\ report.stage \in {"none", "read"}
  /\ LET from == IF now > range.window THEN now - range.window ELSE 0
         rows == InWindow(from, now)
     IN  report' = [stage |-> "charted", from |-> from, to |-> now, cleaned |-> FALSE, total |-> 0,
                    grouped |-> RequestsOf(rows),
                    charted |-> RequestsOf({k \in rows :
                       Point(k, range.resolution) \in Points(from, now, range.resolution)})]
  /\ UNCHANGED <<now, sending, channel, dropped, pending, batch, recorder, minutes, sizes, tally>>

\* The queries after it read what is stored by then.
ReadTotals ==
  /\ report.stage = "charted"
  /\ report' = [report EXCEPT !.stage = "read",
                !.total = RequestsOf(InWindow(report.from, report.to))]
  /\ UNCHANGED <<now, sending, channel, dropped, pending, batch, recorder, minutes, sizes, tally>>

TelemetryTick ==
  /\ now < MaxNow /\ now' = now + 1
  /\ UNCHANGED <<sending, channel, dropped, pending, batch, recorder, minutes, sizes, report, tally>>
----------------------------------------------------------------------------
TelemetryInit ==
  /\ now = 0
  /\ sending = [p \in Producers |-> <<>>]
  /\ channel = <<>> /\ dropped = [t \in Tables |-> 0]
  /\ pending = Empty /\ batch = Empty /\ recorder = "receiving"
  /\ minutes = Empty /\ sizes = 0
  /\ report = NoReport
  /\ tally = [requests |-> 0, recorded |-> 0, repeated |-> 0, expired |-> 0, unseen |-> 0, outages |-> 0]

Record ==
  \/ \E p \in Producers, d \in Durations, class \in {2, 5} : RecordHttp(p, d, <<class>>)
  \/ \E p \in Producers, d \in Durations, s \in Statements, failed \in {0, 1}, measured \in BOOLEAN :
       RecordExecution(p, s, d, failed, measured)
  \/ \E p \in Producers : Send(p)

TelemetryNext ==
  \/ Record
  \/ Receive \/ BeginFlush \/ Shutdown \/ LastFlush
  \/ FlushCommits \/ FlushFails \/ FlushUnanswered \/ ProcessRestarts
  \/ CleanupRetention
  \/ \E range \in Ranges : ReadSeries(range)
  \/ ReadTotals \/ TelemetryTick

TelemetrySpec == TelemetryInit /\ [][TelemetryNext]_telemetryVars
----------------------------------------------------------------------------
TelemetryTypeOK ==
  /\ now \in 0..MaxNow
  /\ Len(channel) <= EventBuffer
  /\ dropped \in [Tables -> Nat]
  /\ Cardinality(DOMAIN pending) <= MaxPendingKeys
  /\ recorder \in {"receiving", "flushing", "draining", "closing", "ended"}
  /\ Rows(minutes) = DOMAIN minutes
  /\ sizes \in 0..MaxNow

\* Every sample recorded is stored, aggregated, in the channel or counted as
\* dropped (observability.md: the response exposes dropped_samples instead of
\* silently presenting the data as complete), unless its minute has expired or
\* its process has ended; and one is stored twice only when the answer of a
\* commit was lost (persist_batch, merge_pending).
SamplesAccounted ==
  tally.recorded + tally.repeated =
    CountOf(minutes) + Volatile + dropped.http + dropped.query + tally.expired + tally.unseen

Ranked(a, p) ==
  Min({Lower(d, Top) : d \in {e \in Durations :
    100 * Total([x \in {y \in Durations : y <= e} |-> a.of[x]]) >= a.count * p}})

\* Whatever was merged into it, a latency row counts for each bound the
\* samples up to it, and its percentiles lie in the bucket of the sample that
\* has that rank, never above the slowest sample and in their own order
\* (observe, merge, percentile).
HistogramsSound ==
  \A k \in DOMAIN minutes : LET a == minutes[k] IN
    /\ \A i \in DOMAIN Bounds :
         a.le[i] = Total([d \in {e \in Durations : Lower(e, Top) <= Bounds[i]} |-> a.of[d]])
    /\ a.max = Max({Lower(d, Top) : d \in {e \in Durations : a.of[e] > 0}})
    /\ \A p \in {50, 95, 99} :
         LET e == Percentile(a, p)
             i == Min({j \in DOMAIN Bounds : Ranked(a, p) <= Bounds[j]})
         IN  /\ e[1] <= Lower(Bounds[i], a.max) * e[2]
             /\ i > 1 => e[1] > Bounds[i - 1] * e[2]
    /\ LET m == Percentile(a, 50) n == Percentile(a, 95) IN m[1] * n[2] <= n[1] * m[2]

\* The chart of a summary has a point for every row its query returned, and
\* the totals, read after it, are never below the chart unless the retention
\* task came in between (summary).
SummaryConsistent ==
  /\ report.charted = report.grouped
  /\ report.stage = "read" /\ ~report.cleaned => report.total >= report.charted

\* Every sample is stored, on its way or counted as dropped, a latency row
\* and its percentiles describe the samples merged into it, and a summary
\* agrees with itself (record, persist_batch, merge_pending, summary).
TelemetrySound ==
  TelemetryTypeOK /\ SamplesAccounted /\ HistogramsSound /\ SummaryConsistent
=============================================================================
