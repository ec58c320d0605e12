SPECIFICATION Spec
CONSTANTS
  Caller = {c1, c2}
  Replica = {r1, r2}
  Zero = Zero
  Nobody = Nobody
  PageSize = 1
  MaxRequests = 2
  MaxFaults = 0
  MaxDirtyFails = 1
CHECK_DEADLOCK FALSE
INVARIANTS
  AcknowledgedIsRecorded
