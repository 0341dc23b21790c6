CONSTANTS
  s1 = s1
  s2 = s2
  c1 = c1
  app = app
  NoSession = NoSession
  Session = {s1}
  Cli = {c1}
  MaxDay = 1
  MaxScan = 1
  MaxFailures = 1
  Overlap = FALSE
SPECIFICATION Spec
INVARIANT MarkedIsGot
CHECK_DEADLOCK FALSE
