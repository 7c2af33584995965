SPECIFICATION MCSpec
CONSTANTS
  Lanes = {"objects", "quota", "multipart", "completion", "policies", "rows"}
  Objects = {k1}
  Key = k1
  SomeSize = 2
  Nonces = {1, 2, 3}
  Blobs = {1, 2, 3}
  NoBlob = 0
  Sizes = {1, 2}
  Quota = 3
  MaxPending = 2
  Cleaners = {c1}
  MaxTries = 2
  Tables = {"docs", "files"}
  Builtin = {"files"}
  Keys = {1, 2}
  Users = {"alice", "bob"}
  RoleOf <- MCRoleOf
  Names = {"p", "q"}
  Drafts <- MCDrafts
  Copies = {1}
  MaxStatements = 4
CHECK_DEADLOCK FALSE
INVARIANTS
  StorageAccounted
  PoliciesEnforced
  ApprovedInStep
PROPERTY
  RowsFollowPolicy
