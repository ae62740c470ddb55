SPECIFICATION CappedSpec
CONSTANTS
  IdleTimeout = 1
  Callers = {a, b}
  Retention = 1
  MaxGen = 2
  MaxTime = 2
  MaxLe = 4
  MaxSe = 3
  MaxRequests = 2
  MaxRejected = 1
  MaxLostGrants = 1
  MaxLostRemovals = 1
  MaxErrors = 1
  MaxCrashes = 1
  MaxForgets = 1
  MaxLeaves = 1
  a = a
  b = b
SYMMETRY CallerSymmetry
INVARIANT TypeOK
INVARIANT Accounted
INVARIANT MemberOnRelay
PROPERTY NoStaleRemoval
CHECK_DEADLOCK FALSE
