SPECIFICATION HttpApiSpec
CONSTANTS
  g1 = g1
  g2 = g2
  n1 = n1
  n2 = n2
  t1 = t1
  t2 = t2
  Guids = {g1, g2}
  TaskGuids = {g1, g2}
  JobNames = {n1, n2}
  ShortenedGuid <- MCShortenedGuid
  Spaces = {"red"}
  Faults = {"k8s", "cc", "refuse", "crash"}
  Threads <- MCThreads
  Requests <- MCRequests
  HttpRequests <- MCHttpRequests
SYMMETRY Symmetry
INVARIANTS
  HandlerSeesRequest
  RefusalHasReason
  RefusalTouchesNothing
PROPERTIES
  ImplementsApi
CHECK_DEADLOCK FALSE
