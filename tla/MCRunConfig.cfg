SPECIFICATION ConfigSpec
CONSTANTS
  Seconds <- MCSeconds
INVARIANTS
  GracePeriodIsConfigured
CHECK_DEADLOCK FALSE
