SPECIFICATION ProcessSpec
CONSTANTS
  Conns = {c1, c2}
  MaxFaults = 2
  MaxCalls = 2
  MaxSignals = 2
SYMMETRY Symmetry
INVARIANTS
  AdvertisedIsServed
  NoNilAssertion
  ExitStatusIsTrue
  OneAttempt
  NotAdvertisedAfterExit
  NoHandlerLeft
  WaitIsReleased
  SignalTakesEffect
PROPERTIES
  HandlersKeepConnection
  ImplementsProcessContract
CHECK_DEADLOCK FALSE
