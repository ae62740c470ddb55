SPECIFICATION InboxSpec
CONSTANTS
  Msgs = {"m1", "m2"}
  MaxTasks = 2
  Transports = {"pty", "app-server"}
  MaxBells = 1
  MaxGen = 1
  MaxHooks = 1
  MaxAttempts = 1
  MaxFaults = 1
  MaxCrashes = 1
  MaxPrunes = 1
  MaxTroubles = 1
INVARIANT InboxTypeOK
 
INVARIANT ReactionHonest
 
PROPERTY DeliveryProgress
CHECK_DEADLOCK FALSE
