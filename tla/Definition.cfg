SPECIFICATION FairSpec
CONSTANTS
  a1 = a1  a2 = a2  h1 = h1  h2 = h2  c1 = c1  c2 = c2
  k1 = k1  k2 = k2  v1 = v1  v2 = v2
  Caller = {c1, c2}
  Watcher = Watcher
  Healer = Healer
  App = {a1, a2}
  Host = {h1, h2}
  NoApp = NoApp
  NoHost = NoHost
  Keep = Keep
  Nobody = Nobody
  Key = {k1, k2}
  Volume <- Mounts
  NewApp <- SomeApps
  Change <- SomeChanges
  MaxReplicas = 2
  MaxEnvEntries = 2
  MaxEnvBytes = 8
  KeyBytes = 1
  MaxVolumes = 2
  Forbidden = {"proc"}
  MaxRequests = 4
  MaxFaults = 1
INVARIANTS
  StoredIsDeployable
  RoutesSettled
PROPERTIES
  UpdatesMerge
  LostHostsReturn
CHECK_DEADLOCK FALSE
