SPECIFICATION SchemaSpec
CONSTANTS
  Deployed <- Files
  SMaxFaults = 1
PROPERTY CrashNeverBlocks
CHECK_DEADLOCK FALSE
