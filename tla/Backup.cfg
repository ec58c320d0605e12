CONSTANTS
  Caller = {timer, call}
  SnapshotKeep = 1
  BackupKeep = 1
  MaxSchema = 3
  MaxWrites = 1
  MaxSeconds = 3
  MaxFaults = 1
  MaxCrashes = 1
  MaxRestores = 2
  MaxInstalls = 2
SYMMETRY Symmetry
SPECIFICATION Spec
INVARIANTS
  DatabaseWhole
PROPERTIES
  OldStateIsKept
  AnsweredBackupsStay
CHECK_DEADLOCK FALSE
