SPECIFICATION FairSpec
CONSTANTS
  App = {a1, a2}
  Op = {o1}
  MaxRelease = 2
  MaxHistory = 1
  MaxReplicas = 1
  Successes = 2
  StartupTries = 3
  MaxFaults = 2
  Broken <- SecondIsBroken
  NoProc = NoProc
INVARIANTS
  BrokenNeverServes
PROPERTIES
  RepairKeepsRoutes
  RestartSettles
