SPECIFICATION Spec
CONSTANTS
  Users <- MCUsers
  Developer = "developer"
  Tokens <- MCTokens
  Keys <- MCKeys
  Values <- MCValues
  NoRow = "NoRow"
  Policies <- MCPolicies
  FirstPolicy = "owner"
  Readable <- MCReadable
  Writable <- MCWritable
  MutationIds <- MCMutationIds
  NoMutation = "NoMutation"
  BatchLimit = 2
  ScanLimit = 3
  Offered <- MCOffered
  Rewrites <- MCRewrites
  MaxChanges = 3
  Headroom = 0
  MaxSchema = 1
INVARIANTS
  VersionLedger
  LogExplainsRows
  MutationsOnce
  PullNeverSkips
CHECK_DEADLOCK FALSE
