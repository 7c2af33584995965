SPECIFICATION MCSpec
CONSTANTS
  k1 = k1
  k2 = k2
  b1 = b1
  b2 = b2
  Nobody = Nobody
  Nothing = Nothing
  Slots = {a1, a2}
  RestoreKeys = {k1, k2}
  WriteKeys = {w1}
  Backups = {b1}
  Backup <- OneBackup
  Faults = {"outage", "shift", "torn"}
  BackupIds = {b1, b2}
  BackupWorkers = {v1, v2}
  Contents <- MCContents
  MaxHarm = 1
  MaxWrites = 1
SYMMETRY RestoreSymmetry
INVARIANTS
  RestoreFenced
  AnswersBacked
  BackupsSound
CHECK_DEADLOCK FALSE
