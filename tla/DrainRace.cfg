SPECIFICATION Spec
CONSTANTS
  App = {a1}
  Op = {o1, o2}
  MaxRelease = 2
  MaxHistory = 2
  MaxReplicas = 1
  Successes = 1
  StartupTries = 1
  MaxFaults = 0
  Broken <- NoneBroken
  NoProc = NoProc
SYMMETRY Callers
PROPERTY
  DrainSparesTraffic
