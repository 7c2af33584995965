SPECIFICATION MCSpec
CONSTANTS
  Lanes = {"steady", "change"}
  Users <- MCUsers
  Developer = "developer"
  Tokens = {1, 2}
  Keys <- MCKeys
  Values <- MCValues
  NoRow = "NoRow"
  Policies <- MCPolicies
  FirstPolicy = "owner"
  Readable <- MCReadable
  Writable <- MCWritable
  MutationIds = {1, 2, 3}
  NoMutation = 0
  BatchLimit = 2
  ScanLimit = 3
  Offered <- MCOffered
  Rewrites <- MCRewrites
  MaxChanges = 4
  Headroom = 2
  MaxSchema = 1
  Devices <- MCDevices
  UserOf <- MCUserOf
  Wishes <- MCWishes
  PushBatch = 1
  PullBatch = 1
  MaxFaults = 1
INVARIANTS
  ReplicaFaithful
  PendingNotLost
CHECK_DEADLOCK FALSE
PROPERTIES
  SteadyQueueDrains
  SteadyReplicaConverges
