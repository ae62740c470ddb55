SPECIFICATION CommandsSpec
CONSTANTS
  Clients = {1, 2}
  Daemons = {1, 2, 3}
  MaxTries = 2
  DMaxFaults = 1
  Workloads <- Mixes
  Scenarios <- MCScenarios
  MaxGen = 2
  MaxFaults = 1
 
INVARIANT DaemonSafe
 
 
CHECK_DEADLOCK FALSE
