SPECIFICATION StateSpec
CONSTANTS
  Callers = {"h1", "h2"}
  Ids <- MCIds
  Traffic <- MCTraffic
  FaultKinds <- MCFaults
  MaxFaults = 1
  Deployed <- Files
  SMaxFaults = 1
  PChannels = {"c"}
  LeaseTicks = 3
  QueueCap = 1
  PMaxGen = 2
  MaxChanges = 2
  PMaxFaults = 1
INVARIANT ReadinessSafe
INVARIANT UpgradeSafe
INVARIANT PresenceSafe
PROPERTY CloseIsOwn
PROPERTY StateProgress
CHECK_DEADLOCK FALSE
