SPECIFICATION StoreSpec
CONSTANTS
  App = {a1, a2}
  MaxRelease = 3
  MaxHistory = 4
SYMMETRY Apps
INVARIANTS
  OneActive
PROPERTIES
  RollbackReturns
