SPECIFICATION Spec
CONSTANTS
  App = {a1}
  Op = {o1}
  MaxRelease = 2
  MaxHistory = 3
  MaxReplicas = 2
  Successes = 1
  StartupTries = 1
  MaxFaults = 1
  Broken <- NoneBroken
  NoProc = NoProc
INVARIANTS
  TypeOK
  NoOrphans
  SettledRoutes
  SuccessMeansLive
PROPERTIES
  StoreSpec
  NeverDark
  DrainSparesTraffic
  PruneKeepsRollback
