---------------------------- MODULE MCOperations ----------------------------
(* The services around a request, each in a lane of its own: a behaviour     *)
(* chooses one lane at the start and only that service runs. The ledger runs *)
(* twice, for amounts and for users; telemetry runs twice, for the samples   *)
(* of two requests at a time through failures, and for summaries over time.  *)
EXTENDS UsageLedger, RateLimits, ApiDispatch, Telemetry

CONSTANT Lanes

VARIABLE lane

allVars == <<lane, usageVars, rateVars, dispatchVars, telemetryVars>>

MCCapacity == [k \in BucketKeys |-> IF k = Project THEN 2 ELSE 1]
MCBounds == <<1, 3>>
MCStatements == {<<<<"keyword", "name">>, <<"comment">>>>}
MCRanges == {[window |-> 2, resolution |-> 2], [window |-> 4, resolution |-> 4]}

Init ==
  /\ lane \in Lanes
  /\ UsageInit /\ RateInit /\ DispatchInit /\ TelemetryInit

InOrder == \A c, d \in Calls : c < d /\ calls'[d] # NoCall => calls'[c] # NoCall

\* Of amounts: a write, an upload and one of either, those of a kind in order.
KindsInOrder ==
  /\ calls'[1].kind # "upload" /\ calls'[3].kind # "write"
  /\ calls'[2].kind = "write" => calls'[1] # NoCall
  /\ calls[2] = NoCall /\ calls'[2].kind = "upload" => calls[3] = NoCall

\* Where users are not the subject, there is one; where they are, one write.
OneSubject == \A c, d \in Calls : calls'[c] # NoCall /\ calls'[d] # NoCall => calls'[c].subject = calls'[d].subject
OneWrite == \A c, d \in Calls : calls'[c].kind = "write" /\ calls'[d].kind = "write" => c = d

\* One call at a time is lost, and not the write beside two uploads; one handler
\* records a size; only the last call begins late and none in the last instant.
Lost == {c \in Calls : calls'[c].step \in {"failed", "conflict"}}
OneLost == Cardinality(Lost) <= 1 /\ (1 \in Lost => calls'[2].kind # "upload")
OneRecords == Cardinality({c \in Calls : calls'[c].step \in {"read", "recorded"}}) <= 1
BeginsInTime ==
  \A c \in Calls : calls[c] = NoCall /\ calls'[c] # NoCall =>
    /\ clock < MaxLedgerTime
    /\ clock + Ttl < MaxLedgerTime \/ \A d \in Calls \ {c} : calls[d] # NoCall

Usage(kinds) ==
  /\ UsageNext /\ clock' <= MaxLedgerTime
  /\ \A c \in Calls : calls'[c].kind \in kinds \cup {"none"}
  /\ UNCHANGED <<rateVars, dispatchVars, telemetryVars>>

\* A check takes the first slot that is free, an address has key 1 only, and
\* the last actor comes while the one before it is known; in the last
\* instant what was begun ends.
FirstFree ==
  \A r, q \in Checkers : r < q /\ checks[q] = NoCheck /\ checks'[q] # NoCheck => checks[r] # NoCheck
OneAddress == \A r \in Checkers : Len(checks'[r].keys) = 1 => checks'[r].keys[1] = 1

LastActor ==
  \A r \in Checkers : checks[r] = NoCheck /\ 4 \in ToSet(checks'[r].keys) =>
    buckets[3].there \/ \E q \in Checkers : 3 \in ToSet(checks[q].keys)

InTime == \A r \in Checkers : checks[r] = NoCheck /\ checks'[r] # NoCheck => instant < MaxInstant

Limiting ==
  /\ RateNext /\ FirstFree /\ OneAddress /\ LastActor /\ InTime
  /\ UNCHANGED <<usageVars, dispatchVars, telemetryVars>>

Dispatching == DispatchNext /\ UNCHANGED <<usageVars, rateVars, telemetryVars>>

\* A sample takes the first task that is free.
FirstIdle ==
  \A p, q \in Producers : p < q /\ sending[q] = <<>> /\ sending'[q] # <<>> => sending[p] # <<>>

\* Requests of one status, and statements that were quick; a lone sample of
\* another kind stands for the size of a project. The last of three requests
\* executes no statements.
Plain(s) == IF s.key.table = "http" THEN s.key.label = <<2>> ELSE s.duration < 2
Lone(s) == s.key.table = "storage" \/ (s.key.table = "http" /\ s.key.label = <<2>> /\ s.duration = 1)

LastIsHttp ==
  \A p \in Producers : tally.requests > 1 /\ sending[p] = <<>> /\ sending'[p] # <<>> =>
    sending'[p][1].key.table = "http"

Sampling ==
  /\ TelemetryNext /\ FirstIdle /\ now' = now /\ report' = report
  /\ \A p \in Producers : \A i \in DOMAIN sending'[p] : Plain(sending'[p][i])
  /\ LastIsHttp
  /\ UNCHANGED <<usageVars, rateVars, dispatchVars>>

Summarizing ==
  /\ TelemetryNext /\ FirstIdle
  /\ tally'.outages = 0 /\ recorder' \in {"receiving", "flushing"}
  /\ \A p \in Producers : \A i \in DOMAIN sending'[p] : Lone(sending'[p][i])
  /\ LastIsHttp
  /\ UNCHANGED <<usageVars, rateVars, dispatchVars>>

Next ==
  /\ lane' = lane
  /\ \/ lane = "amounts" /\ Usage({"write", "upload"}) /\ KindsInOrder /\ OneSubject /\ OneLost /\ OneRecords /\ BeginsInTime
     \/ lane = "users" /\ Usage({"write", "register"}) /\ InOrder /\ OneWrite /\ clock' < MaxLedgerTime
     \/ lane = "limits" /\ Limiting
     \/ lane = "dispatch" /\ Dispatching
     \/ lane = "samples" /\ Sampling
     \/ lane = "windows" /\ Summarizing

Spec == Init /\ [][Next]_allVars

=============================================================================
