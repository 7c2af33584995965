----------------------------- MODULE UsageLedger -----------------------------
(* The usage ledger of an organization: reservations that admit writes,      *)
(* registrations and uploads against the plan's allowances, the events that  *)
(* settle them, and the active users they claim. A write is admitted, sent   *)
(* to the worker and settled in three steps, between which other calls run,  *)
(* answers are lost and the API process can stop. The worker's receipt of a  *)
(* write has the id of its reservation, the time of the work and the size it *)
(* left; a client that sends its idempotency key again comes back with the   *)
(* same one. The size after an upload is read from the worker and recorded   *)
(* twice, to settle the reservation and by the handler, each time with a     *)
(* time that is not the time of the reading.                                 *)
EXTENDS Naturals, FiniteSets, FiniteSetsExt

CONSTANTS Calls,         \* reservation and event ids, in the order of their text
          Subjects,
          WriteLimit, StorageLimit, MauLimit,
          Ttl,           \* RESERVATION_TTL_MS
          MaxLedgerTime        \* bound on the clock

ASSUME UsageLedgerAssumption ==
  IsFiniteSet(Calls) /\ Calls \subseteq Nat /\ {WriteLimit, StorageLimit, MauLimit, Ttl, MaxLedgerTime} \subseteq Nat

VARIABLES
  calls,    \* the API's calls
  slots,    \* usage_reservations
  claims,   \* active_user_claims; a row without either is no row
  events,   \* event_receipts and what they recorded
  metered,  \* write units of usage_hourly
  occupied, \* what the project really stores, by resource
  ran,      \* what the worker has done, with its usage receipts
  clock

usageVars == <<calls, slots, claims, events, metered, occupied, ran, clock>>

Resources == {"database", "objects"}
Kinds == {"write", "register", "upload"}
NoCall == [kind |-> "none", subject |-> "none", step |-> "idle", room |-> 0,
           work |-> 0,  \* when the work was done
           at |-> 0,    \* the time that goes with what the API saw, or the earliest it can be
           seen |-> 0]  \* the size the API was told
NoSlot == [status |-> "none", until |-> 0, growth |-> 0, late |-> 0]
NoClaim == [active |-> 0, count |-> 0]

UsageInit ==
  /\ calls = [c \in Calls |-> NoCall] /\ slots = [c \in Calls |-> NoSlot]
  /\ claims = [s \in Subjects |-> NoClaim]
  /\ events = {} /\ metered = 0 /\ occupied = [r \in Resources |-> 0] /\ ran = {} /\ clock = 0

CallAt(c, step) == calls[c].step = step
Goes(c, step) == calls' = [calls EXCEPT ![c].step = step]
Held == {c \in Calls : slots[c].status = "active"}
Units(kind) == IF kind = "write" THEN 1 ELSE 0

\* event_id: of a reservation's settlement and of what an upload's handler
\* records, whose texts come in any order.
EventId(c) == 2 * c
RecordId(c) == 2 * c + 1

\* storage_current: the newest event of a resource, by time and then by id.
Newer(e, f) == e.at > f.at \/ (e.at = f.at /\ e.id > f.id)
Current(r) ==
  LET known == {e \in events : e.resource = r}
  IN IF known = {} THEN 0 ELSE (CHOOSE e \in known : \A f \in known \ {e} : Newer(e, f)).bytes
Stored == Current("database") + Current("objects")
Remaining == IF StorageLimit > Stored THEN StorageLimit - Stored ELSE 0

\* expire_reservations, the first thing a reservation does.
Lapsed == {c \in Held : slots[c].until <= clock}
Unlapsed == Held \ Lapsed
ClaimedBy(s, held) == Cardinality({c \in held : calls[c].subject = s})
Dropped(claim, n) == [claim EXCEPT !.count = IF @ > n THEN @ - n ELSE 0]
ExpiredSlots == [c \in Calls |-> IF c \in Lapsed THEN [slots[c] EXCEPT !.status = "expired"] ELSE slots[c]]
ExpiredClaims == [s \in Subjects |-> Dropped(claims[s], ClaimedBy(s, Lapsed))]

\* The growth that a set of reservations holds.
GrowthSum(rows, held) == MapThenSumSet(LAMBDA c : rows[c].growth, held)

\* Mutant: reservations under way are not counted.
AdmitsCounted(kind, growth, s) ==
  /\ kind = "write" => metered + 1 <= WriteLimit
  /\ kind # "register" => Stored + growth <= StorageLimit
  /\ kind = "register" /\ ExpiredClaims[s] = NoClaim =>
       Cardinality({t \in Subjects : ExpiredClaims[t] # NoClaim}) + 1 <= MauLimit

\* enforce_limit: writes, storage and registrations of an organization on the
\* free tier, settled or under way.
Admits(kind, growth, s) ==
  /\ kind = "write" =>
       metered + Cardinality({c \in Unlapsed : calls[c].kind = "write"}) + 1 <= WriteLimit
  /\ kind # "register" => Stored + GrowthSum(slots, Unlapsed) + growth <= StorageLimit
  /\ kind = "register" /\ ExpiredClaims[s] = NoClaim =>
       Cardinality({t \in Subjects : ExpiredClaims[t] # NoClaim}) + 1 <= MauLimit

\* reserve.
ReserveUsage(c, kind, s, growth) ==
  /\ Admits(kind, growth, s)
  /\ slots' = [ExpiredSlots EXCEPT ![c] = [status |-> "active", until |-> clock + Ttl, growth |-> growth, late |-> 0]]
  /\ claims' = [ExpiredClaims EXCEPT ![s].count = @ + 1]
  /\ calls' = [calls EXCEPT ![c] = [kind |-> kind, subject |-> s, step |-> "prepared",
                                    room |-> Current("database") + Remaining, work |-> 0, at |-> 0, seen |-> 0]]

\* prepare: a write reserves all the storage that is left, and the worker is
\* told to stay below it.
PrepareWrite(c, s) ==
  /\ calls[c] = NoCall /\ ReserveUsage(c, "write", s, Remaining)
  /\ UNCHANGED <<events, metered, occupied, ran, clock>>

PrepareRegistration(c, s) ==
  /\ calls[c] = NoCall /\ ReserveUsage(c, "register", s, 0)
  /\ UNCHANGED <<events, metered, occupied, ran, clock>>

ReserveObjectStorage(c, s) ==
  /\ calls[c] = NoCall /\ ReserveUsage(c, "upload", s, 1)
  /\ UNCHANGED <<events, metered, occupied, ran, clock>>

\* release_reservation and release_mau_claim.
ReleaseSlot(c) ==
  IF c \in Held
  THEN /\ slots' = [slots EXCEPT ![c].status = "released"]
       /\ claims' = [claims EXCEPT ![calls[c].subject] = Dropped(@, 1)]
  ELSE UNCHANGED <<slots, claims>>

Resource(kind) == IF kind = "upload" THEN "objects" ELSE "database"

\* The worker or the account service does the work, in a millisecond of its
\* own: a write leaves the database within its room, and its receipt has the
\* size together with the time.
Work(c, bytes) ==
  /\ CallAt(c, "prepared") /\ c \notin ran
  /\ CASE calls[c].kind = "write" -> bytes \in {occupied.database, occupied.database + 1} /\ bytes <= calls[c].room
       [] calls[c].kind = "upload" -> bytes = occupied.objects + 1
       [] OTHER -> bytes = occupied.database
  /\ occupied' = [occupied EXCEPT ![Resource(calls[c].kind)] = bytes]
  /\ ran' = ran \cup {c} /\ clock' = clock + 1

WorkedAt(c, bytes, step) ==
  calls' = [calls EXCEPT ![c] = [@ EXCEPT !.step = step, !.work = clock + 1, !.at = clock + 1, !.seen = bytes]]

Execute(c, bytes) ==
  /\ Work(c, bytes) /\ WorkedAt(c, bytes, "executed")
  /\ UNCHANGED <<slots, claims, events, metered>>

\* The work is done and its answer lost: the API takes it for a failure.
AnswerLost(c, bytes) ==
  /\ Work(c, bytes) /\ WorkedAt(c, bytes, "failed") /\ ReleaseSlot(c)
  /\ UNCHANGED <<events, metered>>

ExecuteFails(c) ==
  /\ CallAt(c, "prepared") /\ c \notin ran
  /\ Goes(c, "failed") /\ ReleaseSlot(c)
  /\ UNCHANGED <<events, metered, occupied, ran, clock>>

Sees(c, step, t, bytes) == calls' = [calls EXCEPT ![c] = [@ EXCEPT !.step = step, !.at = t, !.seen = bytes]]

\* settle_storage_metering: the time is taken first, then current_bytes is
\* read from the worker.
Measure(c, t) ==
  /\ CallAt(c, "executed") /\ calls[c].kind = "upload" /\ t \in calls[c].at..clock
  /\ Sees(c, "measured", t, occupied.objects)
  /\ UNCHANGED <<slots, claims, events, metered, occupied, ran, clock>>

\* ingest_event for an id that is new.
IngestEvent(c, id, t) ==
  /\ \A e \in events : e.id # id
  /\ events' = events \cup {[id |-> id, subject |-> calls[c].subject, at |-> t,
       resource |-> IF calls[c].kind = "register" THEN "none" ELSE Resource(calls[c].kind),
       bytes |-> calls[c].seen]}

\* Mutant: the claim of a settled reservation is dropped with it.
ActivateNothing(claim) == Dropped(claim, 1)

\* activate_mau_claim.
Activated(claim) == [Dropped(claim, 1) EXCEPT !.active = 1]

\* settle_reservation, also of a reservation that has expired meanwhile.
SettleReservation(c) ==
  /\ slots[c].status \in {"active", "expired"}
  /\ IngestEvent(c, EventId(c), calls[c].at) /\ metered' = metered + Units(calls[c].kind)
  /\ claims' = [claims EXCEPT ![calls[c].subject] = Activated(@)]
  /\ slots' = [slots EXCEPT ![c].status = "settled", ![c].late = IF slots[c].status = "expired" THEN 1 ELSE 0]

Counted(c) == CallAt(c, IF calls[c].kind = "upload" THEN "measured" ELSE "executed")

Settle(c) ==
  /\ Counted(c) /\ SettleReservation(c) /\ Goes(c, "settled")
  /\ UNCHANGED <<occupied, ran, clock>>

\* The ledger does not answer: the reservation stays, for a retry.
SettleFails(c) ==
  /\ Counted(c) /\ Goes(c, "failed")
  /\ UNCHANGED <<slots, claims, events, metered, occupied, ran, clock>>

\* commit and multipart_commit, once the gateway has committed: current_bytes
\* is read,
ReadBytes(c) ==
  /\ CallAt(c, "settled") /\ calls[c].kind = "upload"
  /\ Sees(c, "read", clock, occupied.objects)
  /\ UNCHANGED <<slots, claims, events, metered, occupied, ran, clock>>

\* and record_object_storage records it with a time taken after the reading.
RecordObjectStorage(c, t) ==
  /\ CallAt(c, "read") /\ t \in calls[c].at..clock
  /\ IngestEvent(c, RecordId(c), t) /\ Goes(c, "recorded")
  /\ UNCHANGED <<slots, claims, metered, occupied, ran, clock>>

Stop(c) ==
  /\ calls[c].step \in {"prepared", "executed", "measured", "read"} /\ Goes(c, "failed")
  /\ UNCHANGED <<slots, claims, events, metered, occupied, ran, clock>>

\* A write is sent again with its key. Its reservation is there, with the
\* time of the first attempt in its digest: HashConflict.
RetryWrite(c) ==
  /\ CallAt(c, "failed") /\ calls[c].kind = "write" /\ slots[c] # NoSlot
  /\ Goes(c, "conflict")
  /\ UNCHANGED <<slots, claims, events, metered, occupied, ran, clock>>

\* A commit of an upload is sent again and finds its receipt: what was not
\* settled is settled; what was has an event of another time, a conflict.
ReplayUpload(c) ==
  /\ calls[c].kind = "upload" /\ c \in ran /\ calls[c].step \in {"failed", "recorded"}
  /\ \/ slots[c].status \in {"active", "expired"} /\ Sees(c, "executed", clock, calls[c].seen)
     \/ slots[c].status \in {"settled", "released"} /\ Goes(c, "conflict")
  /\ UNCHANGED <<slots, claims, events, metered, occupied, ran, clock>>

Tick == /\ clock < MaxLedgerTime /\ clock' = clock + 1
        /\ UNCHANGED <<calls, slots, claims, events, metered, occupied, ran>>

UsageNext ==
  \/ \E c \in Calls, s \in Subjects :
       PrepareWrite(c, s) \/ PrepareRegistration(c, s) \/ ReserveObjectStorage(c, s)
  \/ \E c \in Calls, bytes \in 0..(StorageLimit + 1) : Execute(c, bytes) \/ AnswerLost(c, bytes)
  \/ \E c \in Calls : ExecuteFails(c) \/ Settle(c) \/ SettleFails(c) \/ Stop(c) \/ RetryWrite(c) \/ ReadBytes(c) \/ ReplayUpload(c)
  \/ \E c \in Calls, t \in 1..clock : Measure(c, t) \/ RecordObjectStorage(c, t)
  \/ Tick

UsageSpec == UsageInit /\ [][UsageNext]_usageVars

CallSteps == {"idle", "prepared", "executed", "measured", "settled", "read", "recorded", "failed", "conflict"}

UsageTypeOK ==
  /\ \A c \in Calls : slots[c].status \in {"none", "active", "expired", "released", "settled"}
                      /\ calls[c].step \in CallSteps
  /\ \A s \in Subjects : claims[s] \in [active : {0, 1}, count : 0..Cardinality(Calls)]
  /\ metered \in Nat /\ ran \subseteq Calls /\ occupied \in [Resources -> Nat]

\* Writes settled and under way never exceed the allowance, however many
\* are admitted at once, except by those settled after their reservation ran
\* out and another was given its place.
WritesWithinAllowance ==
  metered + Cardinality({c \in Unlapsed : calls[c].kind = "write"})
    <= WriteLimit + Cardinality({c \in Calls : slots[c].late = 1})

\* What is done and was not settled, and has no reservation any more.
Uncounted == {c \in ran : slots[c].status \in {"released", "expired"} \/ (c \in Lapsed)}

\* The uploads done by a time, and an event that records less than they stored.
WorkedBy(t) == {c \in ran : calls[c].kind = "upload" /\ calls[c].work <= t}
Understated(e) == e.resource = "objects" /\ e.bytes < Cardinality(WorkedBy(e.at))

\* What the organization stores stays within its allowance, over all resources
\* and with calls under way, as long as everything done has been counted and
\* no event records a size that others had overtaken by the event's time. No
\* settlement does, only what a handler read before other uploads were done
\* and records after them.
StorageWithinAllowance ==
  /\ \/ occupied.database + occupied.objects <= StorageLimit
     \/ Uncounted # {} \/ \E c \in Calls : slots[c].late = 1
     \/ \E e \in events : Understated(e)
  /\ \A c \in Calls : \A e \in events : e.id = EventId(c) => ~Understated(e)

\* A user counts as active for the month because of a reservation under way
\* or an event, and every one of these has its user counted: expiries and late
\* settlements neither leave a claim behind nor take one away.
ClaimsBacked ==
  \A s \in Subjects :
    (claims[s] # NoClaim) <=> ((\E c \in Held : calls[c].subject = s) \/ (\E e \in events : e.subject = s))

\* Counterexample property: a write that is sent again finishes its metering.
RetryFinishes == \A c \in Calls : ~CallAt(c, "conflict")

\* However the reservations of concurrent calls, their expiry, retries and
\* late settlements interleave, an organization on the free tier never uses
\* more than its allowances, and a counted user has a claim behind it
\* (reserve, ingest_event, settle_reservation).
AllowancesHold ==
  UsageTypeOK /\ WritesWithinAllowance /\ StorageWithinAllowance /\ ClaimsBacked
=============================================================================
