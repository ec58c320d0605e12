SPECIFICATION FairSpec
CONSTANTS
  Loop = {"supervisor", "backup", "disk"}
  Every <- Intervals
  MinLoopMaxAge = 4
  MaxPass = 3
  WatchdogSec = 6
  ProbeTimeout = 1
  MaxHangs = 1
  MaxFaults = 2
INVARIANTS
  SlowIsNotStuck
PROPERTIES
  KillIsEarned
  StuckIsReplaced
