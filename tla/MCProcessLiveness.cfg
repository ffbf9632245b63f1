SPECIFICATION ProcessFairSpec
CONSTANTS
  Conns = {c1}
  MaxFaults = 2
  MaxCalls = 2
  MaxSignals = 2
PROPERTIES
  SignalEndsProcess
  StopEnds
  AdvertisedAgain
CHECK_DEADLOCK FALSE
