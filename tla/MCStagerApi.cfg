SPECIFICATION ApiSpec
CONSTANTS
  g1 = g1
  g2 = g2
  badGuid = badGuid
  n1 = n1
  n2 = n2
  t1 = t1
  t2 = t2
  t3 = t3
  Guids <- MCGuids
  TaskGuids <- MCTaskGuids
  JobNames <- MCJobNames
  ShortenedGuid <- MCShortenedGuid
  Spaces = {"red", "blue"}
  Faults = {"k8s", "cc", "refuse", "crash"}
  Threads <- MCThreads
  Requests <- MCRequests
SYMMETRY Symmetry
INVARIANTS
  ApiTypeOK
  JobGoneOnlyIfEnded
  AnswersAreTrue
  NoDoubleStaging
PROPERTY
  ImplementsContract
CHECK_DEADLOCK FALSE

