CONSTANTS
  Lanes = {"amounts", "users", "limits", "dispatch", "samples", "windows"}
  Calls = {1, 2, 3}
  Subjects = {s1, s2}
  WriteLimit = 1
  StorageLimit = 2
  MauLimit = 1
  Ttl = 1
  MaxLedgerTime = 3
  Checkers = {1, 2}
  Project = 2
  Actors = {1, 3, 4}
  Capacity <- MCCapacity
  Rate = 1
  IdleTtl = 3
  MaxEntries = 2
  MaxCost = 1
  Patience = 1
  MaxInstant = 4
  Operations = {1, 2}
  Polls = {1, 2}
  MaxBreaks = 1
  Producers = {1, 2}
  Durations = {1, 5}
  Bounds <- MCBounds
  Statements <- MCStatements
  EventBuffer = 1
  MaxPendingKeys = 1
  Minute = 2
  Ranges <- MCRanges
  RetentionTime = 3
  MaxNow = 4
  MaxRequests = 3
  MaxOutages = 1
SPECIFICATION Spec
INVARIANTS
  AllowancesHold
  LimitsHold
  DispatchSound
  TelemetrySound
CHECK_DEADLOCK FALSE
