SPECIFICATION MCSpec
CONSTANTS
  Lanes = {"reports", "mail", "restore"}
  Reporters = {m1}
  End = 2
  Grace = 1
  Lag = 0
  Delay = 1
  Lease = 1
  MaxHour = 5
  MaxUnits = 1
  MaxFaults = 1
  Emails = {1}
  Mailers = {w1, w2}
  Versions = {1, 2}
  Fitting = {1}
  MaxAttempts = 2
  LockTime = 1
  MaxMoment = 2
  MaxMishaps = 3
  b1 = b1
  Nobody = Nobody
  Nothing = Nothing
  Slots = {a1, a2}
  RestoreKeys = {k1}
  WriteKeys = {k2}
  Backups = {b1}
  Backup <- OneBackup
  Faults = {"crash", "retention"}
INVARIANTS
  ReportsExact
  MailAccounted
  RestoreFenced
PROPERTIES
  ReportingCloses
  EmailSettles
  FenceLifts
CHECK_DEADLOCK FALSE
