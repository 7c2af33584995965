---------------------------- MODULE UsageReporting ----------------------------
(* Reporting an organization's usage of one billing period to Stripe. A      *)
(* cycle runs at every tick of the reporter: it seals the period at its      *)
(* cutoff, enqueues what is not enqueued yet of the totals up to a full      *)
(* hour, claims and sends what is due, and after the cutoff compares the     *)
(* provider's totals with its own and finalizes the period. Usage is         *)
(* recorded in between, also for hours that were reported already; the       *)
(* process can stop between any two steps, and the provider's answer can be  *)
(* lost after it took a report. The clock counts hours.                      *)
EXTENDS Naturals, FiniteSets, FiniteSetsExt

CONSTANTS Reporters,  \* the API processes; one is what is deployed
          End,        \* end_ms of the period that starts at 0
          Grace,      \* period_cutoff_grace_ms
          Lag,        \* report_lag_ms in whole hours
          Delay,      \* provider_consistency_delay_ms
          Lease,      \* outbox_lease_ms
          MaxHour, MaxUnits, MaxFaults  \* bounds: clock, units in an hour, faults

ASSUME UsageReportingAssumption ==
  /\ {End, Grace, Lag, Delay, Lease, MaxHour, MaxUnits, MaxFaults} \subseteq Nat
  /\ End > 0 /\ MaxHour > End + Grace + Delay

VARIABLES
  hour,
  status,    \* billing_periods.status
  writes,    \* usage_hourly
  levels,    \* storage_transitions: bytes plus one, 0 for no snapshot in the hour
  outbox,    \* stripe_meter_outbox
  meter,     \* the provider's meter events, external
  matched,   \* stripe_reconciliations
  cycle,     \* the cycle each reporter is in
  health,    \* usage_reporting_status, usage_reporting_hard_cutoff_at
  faults, lowered  \* ghosts: faults so far; a reported total went down

reportVars == <<hour, status, writes, levels, outbox, meter, matched, cycle, health, faults, lowered>>

Hours == 0..(End - 1)
Dimensions == {"writes", "storage"}
Cutoff == End + Grace
NoTotals == [d \in Dimensions |-> 0]
NoCycle == [at |-> "idle", now |-> 0, sealed |-> 0, local |-> NoTotals, todo |-> {}, claims |-> {}, rejected |-> 0]

ReportInit ==
  /\ hour = 0 /\ status = "open" /\ writes = [h \in Hours |-> 0] /\ levels = [h \in Hours |-> 0]
  /\ outbox = {} /\ meter = {} /\ matched = [d \in Dimensions |-> "none"]
  /\ cycle = [r \in Reporters |-> NoCycle] /\ health = [state |-> "healthy", cut |-> 0]
  /\ faults = 0 /\ lowered = 0

\* storage_integral: the newest snapshot at or before each hour.
Level(snapshots, h) ==
  LET seen == {k \in 0..h : snapshots[k] > 0}
  IN IF seen = {} THEN 0 ELSE snapshots[Max(seen)] - 1

\* summary_through.
UsageTotal(units, snapshots, d, through) ==
  MapThenSumSet(LAMBDA h : IF d = "writes" THEN units[h] ELSE Level(snapshots, h), 0..(through - 1))
UsageTotals(through) == [d \in Dimensions |-> UsageTotal(writes, levels, d, through)]

\* reporting_progress.
Quantity(reports) == MapThenSumSet(LAMBDA e : e.quantity, reports)
Enqueued(d) == Quantity({e \in outbox : e.dim = d})
Metered(d) == Quantity({e \in meter : e.dim = d})

\* Mutant: usage is recorded until the period is finalized.
AcceptsSealed == status # "finalized"

\* ensure_accepting.
Accepts == status = "open" /\ hour <= Cutoff

\* ingest_event, for this hour or, late, for one before; a write of this hour
\* is admitted unless reporting has reached its hard cutoff.
AdmitsHour(h) == Accepts /\ h <= hour /\ (h = hour => health.cut = 0)

RecordWrite(h) ==
  /\ AdmitsHour(h) /\ writes[h] < MaxUnits
  /\ writes' = [writes EXCEPT ![h] = @ + 1]
  /\ UNCHANGED <<hour, status, levels, outbox, meter, matched, cycle, health, faults, lowered>>

RecordStorage(h, bytes) ==
  /\ AdmitsHour(h) /\ levels[h] = 0
  /\ levels' = [levels EXCEPT ![h] = bytes + 1]
  /\ lowered' = IF UsageTotal(writes, levels', "storage", End) < Enqueued("storage")
                   \/ \E r \in Reporters : \E t \in 1..End :
                        UsageTotal(writes, levels', "storage", t) < cycle[r].local["storage"]
                THEN 1 ELSE lowered
  /\ UNCHANGED <<hour, status, writes, outbox, meter, matched, cycle, health, faults>>

\* update_health. A blocked reporter keeps the time of its first cutoff.
Healthy(state) ==
  [state |-> state, cut |-> IF state = "healthy" THEN 0 ELSE IF state = "blocked" THEN 1 ELSE health.cut]

\* The last hour stands for all the hours after it.
Reached(now, t) == t <= now \/ now = MaxHour

In(r, step) == cycle[r].at = step
Done(r, state) ==
  /\ cycle' = [cycle EXCEPT ![r] = NoCycle]
  /\ health' = Healthy(state)

Overdue(r) == cycle[r].now >= Cutoff + Delay
Fallback(r) == IF Overdue(r) THEN "blocked" ELSE "degraded"

\* reportable_through.
Through(now) == IF now < Lag THEN 0 ELSE IF now - Lag >= End THEN End ELSE now - Lag

\* run_cycle and process_period up to the totals: the period is sealed at
\* its cutoff, and a finalized one is left alone.
BeginCycle(r) ==
  /\ In(r, "idle")
  /\ status' = IF status = "open" /\ hour >= Cutoff THEN "sealed" ELSE status
  /\ IF status = "finalized"
     THEN Done(r, "healthy")
     ELSE /\ cycle' = [cycle EXCEPT ![r] = [NoCycle EXCEPT !.now = hour, !.at = "read",
                         !.sealed = IF status' = "sealed" THEN 1 ELSE 0]]
          /\ UNCHANGED health
  /\ UNCHANGED <<hour, writes, levels, outbox, meter, matched, faults, lowered>>

ReadTotals(r) ==
  /\ In(r, "read")
  /\ LET through == Through(cycle[r].now)
     IN cycle' = [cycle EXCEPT ![r].at = "enqueue", ![r].local = UsageTotals(through),
                               ![r].todo = IF through > 0 THEN Dimensions ELSE {}]
  /\ UNCHANGED <<hour, status, writes, levels, outbox, meter, matched, health, faults, lowered>>

\* metric_totals: the dimensions in their order.
Turn(r, d) == d \in cycle[r].todo /\ (d = "storage" => "writes" \notin cycle[r].todo)

\* Mutant: the whole total is enqueued.
ReportWhole(d, total, through, now) ==
  [dim |-> d, total |-> total, through |-> through, quantity |-> total,
   state |-> "pending", next |-> now, lease |-> 0]

\* stable_report_identifier and enqueue_report: a report is known by its
\* dimension, its cumulative total and the hour it goes up to.
Report(d, total, through, now) ==
  [dim |-> d, total |-> total, through |-> through, quantity |-> total - Enqueued(d),
   state |-> "pending", next |-> now, lease |-> 0]
Same(e, f) == e.dim = f.dim /\ e.total = f.total /\ e.through = f.through

\* The delta since what is enqueued; a total below it ends the cycle. A
\* report that is in the outbox with another quantity is a conflict.
Enqueue(r, d) ==
  /\ In(r, "enqueue") /\ Turn(r, d)
  /\ LET total == cycle[r].local[d]
         report == Report(d, total, Through(cycle[r].now), cycle[r].now)
         known == {e \in outbox : Same(e, report)}
     IN IF total < Enqueued(d) \/ \E e \in known : total > Enqueued(d) /\ e.quantity # report.quantity
        THEN Done(r, Fallback(r)) /\ UNCHANGED outbox
        ELSE /\ outbox' = IF total > Enqueued(d) /\ known = {} THEN outbox \cup {report} ELSE outbox
             /\ cycle' = [cycle EXCEPT ![r].todo = @ \ {d}]
             /\ UNCHANGED health
  /\ UNCHANGED <<hour, status, writes, levels, meter, matched, faults, lowered>>

\* Mutant: a report that was claimed stays with its claimant.
Due_unleased(now) == {e \in outbox : e.state \in {"pending", "failed"} /\ Reached(now, e.next)}

\* claim_reports_inner: what is due, or was claimed and never settled.
Due(now) == {e \in outbox : \/ e.state \in {"pending", "failed"} /\ Reached(now, e.next)
                            \/ e.state = "in_flight" /\ Reached(now, e.lease)}

Claim(r) ==
  /\ In(r, "enqueue") /\ cycle[r].todo = {}
  /\ LET due == Due(cycle[r].now)
         taken == {[e EXCEPT !.state = "in_flight", !.lease = cycle[r].now + Lease] : e \in due}
     IN /\ outbox' = (outbox \ due) \cup taken
        /\ cycle' = [cycle EXCEPT ![r].claims = taken, ![r].at = "send"]
  /\ UNCHANGED <<hour, status, writes, levels, meter, matched, health, faults, lowered>>

\* The provider takes a report once for its identifier.
Accepted(e) == IF \E f \in meter : Same(e, f) THEN meter ELSE meter \cup {e}

\* acknowledge_report and fail_report, with the lease the claim was made
\* under. A lease that is not held any more ends the cycle.
Settled(r, e, new) ==
  IF e \in outbox
  THEN /\ outbox' = (outbox \ {e}) \cup {new}
       /\ cycle' = [cycle EXCEPT ![r].claims = @ \ {e}]
       /\ UNCHANGED health
  ELSE Done(r, Fallback(r)) /\ UNCHANGED outbox

Deliver(r, e) ==
  /\ In(r, "send") /\ e \in cycle[r].claims
  /\ meter' = Accepted(e)
  /\ Settled(r, e, [e EXCEPT !.state = "acknowledged", !.lease = 0, !.next = cycle[r].now])
  /\ UNCHANGED <<hour, status, writes, levels, matched, faults, lowered>>

\* No answer: a failure to retry after a pause, whether the provider took
\* the report or not.
DeliverFails(r, e, taken) ==
  /\ In(r, "send") /\ e \in cycle[r].claims /\ faults < MaxFaults
  /\ faults' = faults + 1
  /\ meter' = IF taken THEN Accepted(e) ELSE meter
  /\ Settled(r, e, [e EXCEPT !.state = "failed", !.lease = 0, !.next = cycle[r].now + 1])
  /\ UNCHANGED <<hour, status, writes, levels, matched, lowered>>

\* The provider refuses: the organization is blocked after this cycle.
DeliverRejected(r, e) ==
  /\ In(r, "send") /\ e \in cycle[r].claims /\ faults < MaxFaults /\ e \in outbox
  /\ faults' = faults + 1
  /\ outbox' = (outbox \ {e}) \cup {[e EXCEPT !.state = "failed", !.lease = 0, !.next = cycle[r].now + 1]}
  /\ cycle' = [cycle EXCEPT ![r].claims = @ \ {e}, ![r].rejected = 1]
  /\ UNCHANGED <<hour, status, writes, levels, meter, matched, health, lowered>>

\* outbox_checkpoint.
Outstanding == {e \in outbox : e.state # "acknowledged"}
LastAcknowledged == Max({Cutoff} \cup {e.next : e \in {f \in outbox : f.state = "acknowledged"}})

Checkpoint(r) ==
  /\ In(r, "send") /\ cycle[r].claims = {}
  /\ LET now == cycle[r].now IN
     IF cycle[r].rejected = 1 THEN Done(r, "blocked")
     ELSE IF cycle[r].sealed = 0 THEN Done(r, IF Outstanding = {} THEN "healthy" ELSE "degraded")
     ELSE IF Outstanding # {} THEN Done(r, IF Overdue(r) THEN "blocked" ELSE "reconciling")
     ELSE IF ~Reached(now, LastAcknowledged + Delay) THEN Done(r, "reconciling")
     ELSE /\ cycle' = [cycle EXCEPT ![r].at = "compare", ![r].local = UsageTotals(End), ![r].todo = Dimensions]
          /\ UNCHANGED health
  /\ UNCHANGED <<hour, status, writes, levels, outbox, meter, matched, faults, lowered>>

\* record_reconciliation, dimension by dimension.
Compare(r, d) ==
  /\ In(r, "compare") /\ Turn(r, d)
  /\ matched' = [matched EXCEPT ![d] = IF cycle[r].local[d] = Metered(d) THEN "matched" ELSE "mismatched"]
  /\ cycle' = [cycle EXCEPT ![r].todo = @ \ {d}]
  /\ UNCHANGED <<hour, status, writes, levels, outbox, meter, health, faults, lowered>>

\* The provider does not answer for a total.
CompareFails(r) ==
  /\ In(r, "compare") /\ cycle[r].todo # {} /\ faults < MaxFaults
  /\ faults' = faults + 1 /\ Done(r, "blocked")
  /\ UNCHANGED <<hour, status, writes, levels, outbox, meter, matched, lowered>>

\* finalize_period, which reads the ledger again in its transaction.
Finalizes == status = "sealed" /\ Outstanding = {} /\ \A d \in Dimensions : matched[d] = "matched"
FinalizePeriod(r) ==
  /\ In(r, "compare") /\ cycle[r].todo = {}
  /\ IF \E d \in Dimensions : matched[d] = "mismatched" THEN Done(r, "blocked") /\ UNCHANGED status
     ELSE IF Finalizes THEN status' = "finalized" /\ Done(r, "healthy")
     ELSE Done(r, Fallback(r)) /\ UNCHANGED status
  /\ UNCHANGED <<hour, writes, levels, outbox, meter, matched, faults, lowered>>

\* The process ends, between any two steps or after the provider took a
\* report.
ReporterStops(r) ==
  /\ ~In(r, "idle") /\ faults < MaxFaults
  /\ faults' = faults + 1
  /\ \/ meter' = meter
     \/ \E e \in cycle[r].claims : meter' = Accepted(e)
  /\ cycle' = [cycle EXCEPT ![r] = NoCycle]
  /\ UNCHANGED <<hour, status, writes, levels, outbox, matched, health, lowered>>

NextHour ==
  /\ hour < MaxHour /\ hour' = hour + 1
  /\ UNCHANGED <<status, writes, levels, outbox, meter, matched, cycle, health, faults, lowered>>

ReporterStep(r) ==
  \/ BeginCycle(r) \/ ReadTotals(r) \/ Claim(r) \/ Checkpoint(r) \/ FinalizePeriod(r)
  \/ \E d \in Dimensions : Enqueue(r, d) \/ Compare(r, d)
  \/ \E e \in cycle[r].claims : Deliver(r, e)

ReportNext ==
  \/ \E h \in Hours : RecordWrite(h) \/ \E bytes \in 0..1 : RecordStorage(h, bytes)
  \/ \E r \in Reporters : ReporterStep(r) \/ CompareFails(r) \/ ReporterStops(r)
  \/ \E r \in Reporters : \E e \in cycle[r].claims :
       DeliverRejected(r, e) \/ \E taken \in BOOLEAN : DeliverFails(r, e, taken)
  \/ NextHour

\* The reporter's task ticks for ever and time passes; the faults are finite.
ReportSpec == ReportInit /\ [][ReportNext]_reportVars
              /\ WF_reportVars(NextHour) /\ \A r \in Reporters : WF_reportVars(ReporterStep(r))

ReportTypeOK ==
  /\ hour \in 0..MaxHour /\ status \in {"open", "sealed", "finalized"}
  /\ writes \in [Hours -> 0..MaxUnits] /\ levels \in [Hours -> 0..2]
  /\ \A e \in outbox : e.quantity > 0 /\ e.state \in {"pending", "in_flight", "failed", "acknowledged"}
  /\ matched \in [Dimensions -> {"none", "matched", "mismatched"}]
  /\ health.state \in {"healthy", "degraded", "reconciling", "blocked"} /\ health.cut \in {0, 1}

\* What the provider was told never exceeds what was used, through crashes,
\* lost answers and reports sent again; storage is excepted once a late
\* snapshot has lowered what was reported.
NeverOverReported ==
  /\ Metered("writes") <= UsageTotal(writes, levels, "writes", End)
  /\ lowered = 0 => Metered("storage") <= UsageTotal(writes, levels, "storage", End)

\* A finalized period has been reported in full, to the unit, and nothing is
\* recorded in it or sent for it afterwards.
FinalizedExact ==
  status = "finalized" =>
    /\ \A d \in Dimensions : Metered(d) = UsageTotal(writes, levels, d, End)
    /\ Outstanding = {}

\* The provider is never told more than was used, whatever is lost and sent
\* again, and a period that is finalized was reported to the unit
\* (enqueue_report, acknowledge_report, finalize_period).
ReportsExact == ReportTypeOK /\ NeverOverReported /\ FinalizedExact

\* A period is finalized in the end, whatever finite number of calls fail,
\* unless a late snapshot lowered a total that was reported.
PeriodCloses == <>(status = "finalized" \/ lowered = 1)

\* Counterexample property: every period is finalized in the end.
PeriodAlwaysCloses == <>(status = "finalized")
=============================================================================
