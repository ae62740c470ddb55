SPECIFICATION IncomingSpec
CONSTANTS
  Events <- MCEvents
  From <- MCFrom
  To <- MCTo
  Wire <- MCWire
  NewTraffic <- MCNewTraffic
  SettledTraffic <- MCSettledTraffic
  Derived = {"d", "f"}
  Stable = {"s", "u"}
  Resumable = {"d"}
  AdminRoster <- Joins
  MemberRoster <- JoinsMembers
  ChildAdmins = {}
  SEEN_EVENTS_CAP = 1
  MaxJobs = 2
  MaxFaults = 2
  MaxDeliveries = 2
  Dialects = {"acp", "app-server"}
  History = {1}
  Terminals = {"completed"}
  MaxTurns = 3
  MaxIds = 5
  MaxLosses = 1
  MaxTimeouts = 1
  MaxKills = 1
  MaxTroubles = 1
INVARIANT IngestSafe
INVARIANT HarnessSafe
PROPERTY TombstoneFinal
 
CHECK_DEADLOCK FALSE
