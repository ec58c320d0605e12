SPECIFICATION Spec
CONSTANTS
  Caller = {c1, c2}
  Replica = {r1, r2}
  Zero = Zero
  Nobody = Nobody
  PageSize = 1
  MaxRequests = 3
  MaxFaults = 1
  MaxDirtyFails = 1
INVARIANTS
  ExecTypeOK
  AnswersAreHonest
  StaleSelectionHarmless
  VerdictCovers
  VolumeBeforeContainer
PROPERTIES
  AuditLogSpec
CHECK_DEADLOCK FALSE
SYMMETRY CallersAndReplicas
