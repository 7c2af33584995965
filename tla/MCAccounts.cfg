SPECIFICATION AccountsSpec
CONSTANTS
  NoOne = NoOne
  u1 = u1
  q1 = q1
  q2 = q2
  q3 = q3
  g1 = g1
  l1 = l1
  NoRow = NoRow
  Users = {u1}
  Sessions = {1, 2}
  Tokens = {1, 2, 3}
  Codes = {1, 2}
  Requests = {q1, q2}
  MaxTime = 2
  SessionTtl = 1
  CodeTtl = 1
  AccessTtl = 1
  MaxPassword = 3
  Kids = {1, 2, 3}
  Signers = {g1}
  JwtTtl = 2
  Grace = 2
  Skew = 1
  MaxKeyTime = 5
  Logins = {l1}
  Rows = {1, 2, 3, 4}
  Txs = {q1, q2, q3}
  Commands = {1, 2}
  People = {10}
  Developers = {1}
  Scopes = {"query"}
  KeyLife = 1
  Recent = 0
  MaxSecond = 2
  MaxTrouble = 2
SYMMETRY Symmetric
CHECK_DEADLOCK FALSE
INVARIANTS
  CredentialsSound
  KeysOutliveTokens
  CommandsSound
PROPERTY
  ImplementsFamilies
