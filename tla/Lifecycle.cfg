SPECIFICATION HSpec
CONSTANTS
  IdleTimeout = 1
  MaxGen = 2
  MaxEpoch = 2
  MaxClients = 1
  MaxTime = 2
  MaxLe = 3
  MaxCrashes = 0
  MaxOps = 1
  MaxMail = 0
  Successes = {TRUE}
  MaxTurns = 0
  Scenarios <- SafetyScenarios
INVARIANT TypeOK
INVARIANT PresentationAgreement
INVARIANT DeadlineOnlyWhenIdleHeadless
 
PROPERTY EpochsMonotone
PROPERTY RevokedForever
 
