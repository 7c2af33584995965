---------------------------- MODULE MCOfflineSync ----------------------------
(* One device of alice against one developer writing the same two rows, in   *)
(* two lanes: "steady" keeps one access token and one schema and asks for    *)
(* progress, "change" refreshes the token and migrates the tables.           *)
EXTENDS OfflineSync

CONSTANT Lanes

VARIABLE lane

MCUsers == {"alice"}
MCKeys == {"k1", "k2"}
MCValues == {"a", "b", "c"}
MCPolicies == {"owner"}
\* alice reads "a" and "c" and may write "a" and "b": an upsert of "b" hands the
\* row over, a row "c" is shown to her but not hers to change.
MCReadable == [owner |-> [alice |-> {"a", "c"}]]
MCWritable == [owner |-> [alice |-> {"a", "b"}]]
MCDevices == {"phone"}
MCUserOf == [phone |-> "alice"]
Upsert(id, k, v) == [id |-> id, key |-> k, op |-> "upsert", value |-> v]
Remove(id, k) == [id |-> id, key |-> k, op |-> "delete", value |-> "a"]
MCWishes == [phone |-> {Upsert(1, "k1", "b"), Remove(2, "k1"), Upsert(2, "k2", "a")}]
MCOffered == MCWishes["phone"] \cup {Upsert(3, "k1", "c")}
MCRewrites == {[k1 |-> "a", k2 |-> "NoRow"]}

Steady == token["phone"] = 1 /\ db.schema = 0

\* The lane "change" is about one row, two changes of it and one deletion the
\* device wishes for.
Short(d) == Len(d.changes) <= 2 /\ d.rows["k2"] = NoRow
Changing ==
  /\ enqueued["phone"] \subseteq {Remove(2, "k1")}
  /\ Short(db)
  /\ txn.kind # "none" => Short(txn.work)

MCInit == SyncInit /\ lane \in Lanes

MCNext ==
  /\ SyncNext
  /\ lane' = lane
  /\ lane = "steady" => Steady'
  /\ lane = "change" => Changing'

\* The fairness of FairSyncSpec, for the lane that asks for progress.
MCFairness ==
  /\ \A c \in Devices :
       /\ WF_allVars(lane = "steady" /\ DeviceNext(c))
       /\ SF_allVars(lane = "steady" /\ StartSync(c))
  /\ SF_allVars(lane = "steady" /\ ServeNext)
  /\ WF_allVars(lane = "steady" /\ CommitStatements /\ UNCHANGED clientVars)

MCSpec ==
  /\ MCInit
  /\ [][MCNext]_<<allVars, lane>>
  /\ MCFairness

\* While tokens and schema stay, every mutation leaves the queue in the end,
\* executed or rejected (consumePushResults, AutoSyncControllerImpl).
SteadyQueueDrains == lane = "steady" => PendingResolves

\* While tokens and schema stay, the replica converges once nobody writes.
SteadyReplicaConverges == lane = "steady" => ReplicaConverges
=============================================================================
