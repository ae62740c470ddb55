SPECIFICATION FairHSpec
CONSTANTS
  IdleTimeout = 1
  MaxGen = 1
  MaxEpoch = 0
  MaxClients = 0
  MaxTime = 2
  MaxLe = 3
  MaxCrashes = 1
  MaxOps = 1
  MaxMail = 1
  Successes = {TRUE, FALSE}
  MaxTurns = 1
  Scenarios <- LivenessScenarios
 
PROPERTY StoppingResolves
PROPERTY GoneWithoutEviction
