SPECIFICATION Spec
CONSTANTS
  Subjects = {"alice"}
  Keys <- MCKeys
  Values <- MCValues
  EmptyRow = "empty"
  CanRead <- MCCanRead
  CanWrite <- MCCanWrite
  Mutations <- MCMutations
  MaxTime = 2
  ChangeRetention = 1
  TombstoneRetention = 1
  IdempotencyRetention = 1
  MaxReceipts = 2
  MaxPullEvents = 1
  MaxBatch = 2
  MaxSequence = 3
  MaxSchema = 2
  MaxRevision = 4
INVARIANTS
  StoreFaithful
  HistoryFaithful
  AnsweredIsDurable
CHECK_DEADLOCK FALSE
