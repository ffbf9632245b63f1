SPECIFICATION ConfigSpec
CONSTANTS
  Seconds <- MCSeconds
INVARIANTS
  ConfigFileIsUsed
CHECK_DEADLOCK FALSE
