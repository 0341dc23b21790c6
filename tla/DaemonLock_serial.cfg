CONSTANTS
  w1 = w1
  w2 = w2
  w3 = w3
  f1 = f1
  s1 = s1
  s2 = s2
  None = None
  Worker = {w1, w2, w3}
  Foreign = {f1}
  Stopper = {s1, s2}
  PidOf <- MCPidOf
  Recorded = {w1, w3}
  CaptureWorks = FALSE
  Forced = {s2}
  SerialStarts = TRUE
  StopsAlone = TRUE
SPECIFICATION Spec
INVARIANTS TypeOK SingleInstance RunningHoldsLock
PROPERTIES ClearedOnlyByOwnerOrDead ImplementsSingleDaemon
CHECK_DEADLOCK FALSE
