---------------------------- MODULE MCSyncWorker ----------------------------
(* One subject, one row, four mutations and a clock of three ticks. *)
EXTENDS SyncWorker

MCKeys == {"k1"}
MCValues == {"a", "b", "c"}
MCCanRead == [alice |-> {"a"}]
MCCanWrite == [alice |-> {"a", "b"}]
MCMutations ==
  {[id |-> 1, key |-> "k1", op |-> "upsert", value |-> "a"],
   [id |-> 2, key |-> "k1", op |-> "delete", value |-> "a"],
   [id |-> 2, key |-> "k1", op |-> "upsert", value |-> "b"],
   [id |-> 3, key |-> "k1", op |-> "delete", value |-> "c"]}
=============================================================================
