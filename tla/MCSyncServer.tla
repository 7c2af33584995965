---------------------------- MODULE MCSyncServer ----------------------------
(* A small instance of SyncServer: two users, two rows, two policies. *)
EXTENDS SyncServer

MCUsers == {"alice", "bob"}
MCTokens == {"t1"}
MCKeys == {"k1", "k2"}
MCValues == {"a", "b"}
MCPolicies == {"owner", "shared"}
\* Under "owner" a user reads its own value and may hand the row over to the
\* other user; under "shared" everybody reads everything.
MCReadable == [p \in MCPolicies |->
  IF p = "owner" THEN [alice |-> {"a"}, bob |-> {"b"}]
                 ELSE [alice |-> MCValues, bob |-> MCValues]]
MCWritable == [p \in MCPolicies |-> [alice |-> MCValues, bob |-> {"b"}]]
\* The policies of the reauthorization run: a migration takes every write away.
MCRevokingPolicies == {"owner", "frozen"}
MCRevokingReadable == [p \in MCRevokingPolicies |-> MCReadable["shared"]]
MCRevokingWritable == [p \in MCRevokingPolicies |->
  [u \in MCUsers |-> IF p = "frozen" THEN {} ELSE MCWritable["owner"][u]]]
MCMutationIds == {"m1", "m2"}
MCOffered ==
  {[id |-> "m1", key |-> "k1", op |-> "upsert", value |-> "a"],
   [id |-> "m1", key |-> "k2", op |-> "upsert", value |-> "b"],
   [id |-> "m2", key |-> "k1", op |-> "delete", value |-> "a"]}
MCRewrites == {[k1 |-> "NoRow", k2 |-> "a"]}
=============================================================================
