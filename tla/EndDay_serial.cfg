CONSTANTS
  s1 = s1
  s2 = s2
  r1 = r1
  None = None
  Session = {s1, s2}
  Runner = {r1}
  Limit = 2
  Deep = {s1}
  CanTerminate = {s1}
  forkCleanupDays = 1
  Today = 2
  OldForks <- ForksOfEveryAge
  MaxChanges = 2
  MaxRuns = 2
  MaxCrashes = 1
SPECIFICATION Spec
INVARIANTS TypeOK ForkKnown BriefingComplete
PROPERTIES TerminatesOnlyTheCaptured DeletesOnlyStaleForks DryRunTouchesNothing ImplementsDayHandoffs
CHECK_DEADLOCK FALSE
