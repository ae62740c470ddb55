SPECIFICATION ChannelsSpec
CONSTANTS
  Sessions = {"s1", "s2"}
  Backends = {"b"}
  Handles <- MCHandles
  Profiles <- MCProfiles
  Home <- MCHome
  Root <- MCRoot
  Traffic <- MCTraffic
  TailCap = 1
  BATCH = 2
  MaxFaults = 1
  CChannels = {"c", "d"}
  SyncTasks = {1, 2}
  MaxFacts = 2
  MaterialCap = 1
  CMaxFaults = 1
  IdleTimeout = 1
  Callers = {"start"}
  Retention = 1
  MaxGen = 1
  MaxTime = 2
  MaxLe = 2
  MaxSe = 3
  MaxRequests = 1
  MaxRejected = 0
  MaxLostGrants = 0
  MaxLostRemovals = 1
  MaxErrors = 0
  MaxCrashes = 0
  MaxForgets = 1
  MaxLeaves = 0
 
INVARIANT CoverageSafe
PROPERTY ChannelsProgress
CHECK_DEADLOCK FALSE
