CONSTANTS
  s1 = s1
  s2 = s2
  c1 = c1
  app = app
  NoSession = NoSession
  Session = {s1, s2}
  Cli = {c1}
  MaxDay = 2
  MaxScan = 1
  MaxFailures = 1
  Overlap = FALSE
SPECIFICATION FairSpec
INVARIANTS TypeOK NotReopened OneLostPerFailure
PROPERTIES ImplementsMorningMarks ButtonComesBack
CHECK_DEADLOCK FALSE
