SPECIFICATION ApiSpec
CONSTANTS
  g1 = g1
  g2 = g2
  badGuid = badGuid
  n1 = n1
  n2 = n2
  t1 = t1
  t2 = t2
  t3 = t3
  Guids <- MCGuids
  TaskGuids <- MCTaskGuids
  JobNames <- MCJobNames
  ShortenedGuid <- MCShortenedGuid
  Spaces = {"red"}
  Faults = {}
  Threads <- MCThreads
  Requests <- MCRequests
SYMMETRY Symmetry
INVARIANT
  UnavailableIsUntold
CHECK_DEADLOCK FALSE
