SPECIFICATION PtySpec
CONSTANTS
  Pids = {2, 3, 4}
  MaxOthers = 1
  OMaxFaults = 2
INVARIANT StrangersSpared
CHECK_DEADLOCK FALSE
