CONSTANTS
  w1 = w1
  w2 = w2
  w3 = w3
  f1 = f1
  s1 = s1
  s2 = s2
  None = None
  Worker = {w1, w2}
  Foreign = {f1}
  Stopper = {s1, s2}
  PidOf <- MCPidOf
  Recorded = {w1, w2}
  CaptureWorks = TRUE
  Forced = {s2}
  SerialStarts = FALSE
  StopsAlone = FALSE
SPECIFICATION FairSpec
INVARIANTS StopReportTruthful
PROPERTIES RefusedOnlyByLive StopAnswers SignalEndsWorker
CHECK_DEADLOCK FALSE
