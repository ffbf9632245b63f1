SPECIFICATION SystemSpec
CONSTANTS
  g1 = g1
  g2 = g2
  n1 = n1
  n2 = n2
  t1 = t1
  t2 = t2
  t3 = t3
  p1 = p1
  p2 = p2
  Guids <- MCGuids
  TaskGuids <- MCGuids
  JobNames <- MCJobNames
  ShortenedGuid <- MCShortenedGuid
  Spaces = {"red"}
  Faults = {"k8s", "cc", "refuse", "crash", "build", "upload", "evict"}
  Threads <- MCThreads
  Requests <- MCRequests
  PodIds <- MCPodIds
  CcRequest <- MCCcRequest
  MaxEvictions = 1
SYMMETRY Symmetry
INVARIANTS
  SystemTypeOK
  NoFalseSuccess
  ReportsAccountedFor
  CompletedIsGone
CHECK_DEADLOCK FALSE
