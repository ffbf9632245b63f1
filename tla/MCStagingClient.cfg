SPECIFICATION ClientSpec
CONSTANTS
  g1 = g1
  g2 = g2
  badGuid = badGuid
  n1 = n1
  n2 = n2
  Guids <- MCGuids
  TaskGuids <- MCTaskGuids
  JobNames <- MCJobNames
  ShortenedGuid <- MCShortenedGuid
  Spaces = {"red", "blue"}
  Faults = {"k8s"}
INVARIANTS
  ClientTypeOK
  CallbackFindsOwnJob
PROPERTY
  OneJobGoesAtATime
