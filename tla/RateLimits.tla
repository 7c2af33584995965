------------------------------ MODULE RateLimits ------------------------------
(* Durable token buckets, one row for each project, user, API key or         *)
(* address. A request charges its dimensions in one transaction that holds   *)
(* an advisory lock for each of them, taken in order; the time it refills    *)
(* to is the one read before it waited. Rows that were idle are deleted, by  *)
(* the maintenance task and by every request that needs a new row.           *)
EXTENDS Naturals, FiniteSets, Sequences, SequencesExt

CONSTANTS Checkers,
          Project, Actors,     \* bucket keys, numbers in the order of their digests
          Capacity,            \* of each key: the pre-auth or the execution limiter's
          Rate,                \* tokens refilled in a unit of time
          IdleTtl, MaxEntries,
          MaxCost,             \* of an operation
          Patience,            \* bound: how long a transaction waits
          MaxInstant           \* bound: clock

BucketKeys == {Project} \cup Actors

ASSUME RateLimitsAssumption ==
  /\ BucketKeys \subseteq Nat \ {0} /\ Capacity \in [BucketKeys -> Nat \ {0}]
  /\ {Rate, IdleTtl, MaxEntries, MaxCost, Patience, MaxInstant} \subseteq Nat
  /\ 0 \notin Checkers    \* 0 stands for the maintenance task

VARIABLES
  buckets,  \* rate_limit_state
  entries,  \* entry_count of rate_limit_capacity
  checks,   \* what each request is doing
  spent,    \* tokens each key was granted
  instant

rateVars == <<buckets, entries, checks, spent, instant>>

NoRow == [tokens |-> 0, refilled |-> 0, expires |-> 0, there |-> FALSE]
NoCheck == [step |-> "idle", keys |-> <<>>, cost |-> 0, now |-> 0, held |-> {},
         seen |-> <<>>]

RateInit ==
  /\ buckets = [k \in BucketKeys |-> NoRow] /\ entries = 0
  /\ checks = [r \in Checkers |-> NoCheck]
  /\ spent = [k \in BucketKeys |-> 0] /\ instant = 0

\* enforce_execution_rate_limit charges the project and then the actor;
\* enforce_rate_dimension and the address check charge one key. A cost above
\* the capacity is an error, not a denial.
BeginCheck(r, keys, cost) ==
  /\ checks[r].step = "idle"
  /\ \A i \in DOMAIN keys : cost <= Capacity[keys[i]]
  /\ checks' = [checks EXCEPT ![r] = [NoCheck EXCEPT !.step = "locking", !.keys = keys,
                                                  !.cost = cost, !.now = instant]]
  /\ UNCHANGED <<buckets, entries, spent, instant>>

Wanted(r) == ToSet(checks[r].keys) \ checks[r].held
HeldByOthers(r) == UNION {checks[q].held : q \in Checkers \ {r}}

\* The next advisory lock, in the order of the digests.
LockKey(r) ==
  /\ checks[r].step = "locking"
  /\ \E k \in Wanted(r) :
       /\ \A other \in Wanted(r) : k <= other
       /\ k \notin HeldByOthers(r)
       /\ checks' = [checks EXCEPT ![r].held = @ \cup {k}]
  /\ UNCHANGED <<buckets, entries, spent, instant>>

\* Mutant: the rows are read without the advisory locks.
ReadUnlocked(r) ==
  /\ checks[r].step = "locking"
  /\ checks' = [checks EXCEPT ![r].step = "read", ![r].seen = Restrict(buckets, ToSet(checks[r].keys))]
  /\ UNCHANGED <<buckets, entries, spent, instant>>

\* SELECT ... FOR UPDATE of the rows that exist.
ReadRows(r) ==
  /\ checks[r].step = "locking" /\ Wanted(r) = {}
  /\ checks' = [checks EXCEPT ![r].step = "read", ![r].seen = Restrict(buckets, ToSet(checks[r].keys))]
  /\ UNCHANGED <<buckets, entries, spent, instant>>

Least(a, b) == IF a <= b THEN a ELSE b
Most(a, b) == IF a >= b THEN a ELSE b

\* Mutant: the refill is not capped.
AvailableUncapped(row, k, now) ==
  IF row.there THEN row.tokens + Rate * (Most(now, row.refilled) - row.refilled) ELSE Capacity[k]

\* What the bucket holds at the request's time; a row that is not there is full.
Available(row, k, now) ==
  IF row.there THEN Least(Capacity[k], row.tokens + Rate * (Most(now, row.refilled) - row.refilled))
               ELSE Capacity[k]

\* Evaluation stops at the first denial: the dimensions before it stay charged.
Evaluated(r) ==
  LET c == checks[r]
      Enough(i) == Available(c.seen[c.keys[i]], c.keys[i], c.now) >= c.cost
      Reached == {i \in DOMAIN c.keys : \A j \in 1..i - 1 : Enough(j)}
  IN [k \in {c.keys[i] : i \in Reached} |->
        LET old == c.seen[k]
            now == IF old.there THEN Most(old.refilled, c.now) ELSE c.now
            have == Available(old, k, c.now)
        IN [tokens |-> IF have >= c.cost THEN have - c.cost ELSE have,
            refilled |-> now, expires |-> now + IdleTtl, there |-> TRUE]]

Granted(r, k) == Available(checks[r].seen[k], k, checks[r].now) >= checks[r].cost

\* The rows that other transactions have locked.
RowsLocked(r) ==
  {k \in BucketKeys : \E q \in Checkers \ {r} :
     checks[q].step = "read" /\ k \in checks[q].held /\ buckets[k].there}

\* cleanup_expired_in_transaction: locked rows are skipped, but the rows this
\* transaction has locked itself are not.
Expired(now, locked) == {k \in BucketKeys : buckets[k].there /\ buckets[k].expires <= now /\ k \notin locked}
Without(rows, gone) == [k \in BucketKeys |-> IF k \in gone THEN NoRow ELSE rows[k]]
Present(rows) == Cardinality({k \in BucketKeys : rows[k].there})

\* Mutant: a request that needs a row does not look at the count.
EntriesFitAlways(kept, new) == TRUE

\* The count is compared with the rows found missing, before the deletion of
\* its own expired rows made more of them missing.
EntriesFit(kept, new) == new = 0 \/ kept + new <= MaxEntries

\* The rows are written and the transaction commits; saturated, nothing is.
CommitCheck(r) ==
  /\ checks[r].step = "read"
  /\ LET rows == Evaluated(r)
         new == Cardinality({k \in DOMAIN rows : ~checks[r].seen[k].there})
         gone == IF new > 0 THEN Expired(checks[r].now, RowsLocked(r)) ELSE {}
         kept == Without(buckets, gone)
     IN /\ EntriesFit(entries - Cardinality(gone), new)
        /\ buckets' = [k \in BucketKeys |-> IF k \in DOMAIN rows THEN rows[k] ELSE kept[k]]
        /\ entries' = entries - Cardinality(gone) + Cardinality({k \in DOMAIN rows : ~kept[k].there})
        /\ spent' = [k \in BucketKeys |-> IF k \in DOMAIN rows /\ Granted(r, k)
                                          THEN spent[k] + checks[r].cost ELSE spent[k]]
  /\ checks' = [checks EXCEPT ![r] = NoCheck]
  /\ UNCHANGED instant

\* Saturated, or the database fails or loses the connection: all is undone.
AbortCheck(r) ==
  /\ checks[r].step # "idle"
  /\ checks' = [checks EXCEPT ![r] = NoCheck]
  /\ UNCHANGED <<buckets, entries, spent, instant>>

\* cleanup_expired, run every minute.
MaintainBuckets ==
  LET gone == Expired(instant, RowsLocked(0)) IN
  /\ gone # {}
  /\ buckets' = Without(buckets, gone) /\ entries' = entries - Cardinality(gone)
  /\ UNCHANGED <<checks, spent, instant>>

\* Time passes; no transaction waits for ever.
RateTick ==
  /\ instant < MaxInstant
  /\ \A r \in Checkers : checks[r].step # "idle" => instant < checks[r].now + Patience
  /\ instant' = instant + 1
  /\ UNCHANGED <<buckets, entries, checks, spent>>

\* The keys one check charges.
CheckKeys == {<<Project, a>> : a \in Actors} \cup {<<a>> : a \in Actors}

RateNext ==
  \/ \E r \in Checkers, keys \in CheckKeys, cost \in 1..MaxCost : BeginCheck(r, keys, cost)
  \/ \E r \in Checkers : LockKey(r) \/ ReadRows(r) \/ CommitCheck(r) \/ AbortCheck(r)
  \/ MaintainBuckets
  \/ RateTick

RateSpec == RateInit /\ [][RateNext]_rateVars

-----------------------------------------------------------------------------
RateTypeOK ==
  /\ \A k \in BucketKeys : /\ buckets[k].tokens \in 0..Capacity[k]
                           /\ buckets[k].there \in BOOLEAN
                           /\ {buckets[k].refilled, buckets[k].expires} \subseteq 0..MaxInstant + IdleTtl
  /\ entries \in Nat /\ spent \in [BucketKeys -> Nat] /\ instant \in 0..MaxInstant
  /\ \A r \in Checkers : /\ checks[r].step \in {"idle", "locking", "read"}
                         /\ checks[r].held \subseteq ToSet(checks[r].keys)

\* A row that was idle for long enough to be deleted would be full by now, also
\* at the time of a request that waits: so with the settings ffdb starts with,
\* though nothing in the configuration demands it.
IdleRowsFull(k) == Patience <= IdleTtl /\ Rate * (IdleTtl - Patience) >= Capacity[k]

\* What a key was granted never exceeds its capacity and the refill since the
\* start, however requests with old times, deletions of idle rows and denials
\* interleave, if idle rows are full (check_many); otherwise a deletion gives
\* the key a full bucket early.
AdmissionBounded ==
  \A k \in BucketKeys : IdleRowsFull(k) => spent[k] <= Capacity[k] + Rate * instant

\* The counter kept by the triggers is the number of rows, and stays within
\* the limit but for the one row that a request deleted under itself.
EntriesBounded == entries = Present(buckets) /\ entries <= MaxEntries + 1

\* The limit as it is configured (0005_bounded_security_state, max_entries).
EntriesWithinMaximum == entries <= MaxEntries

\* However checks of the same bucket interleave and idle rows are cleaned up,
\* a bucket lets through its capacity and what was refilled, if its idle rows
\* are full, and the table of buckets stays within its limit (check_many).
LimitsHold == RateTypeOK /\ AdmissionBounded /\ EntriesBounded
===============================================================================
