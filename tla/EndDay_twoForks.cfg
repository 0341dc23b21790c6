CONSTANTS
  s1 = s1
  s2 = s2
  r1 = r1
  None = None
  Session = {s1, s2}
  Runner = {r1}
  Limit = 2
  Deep = {s1, s2}
  CanTerminate = {}
  forkCleanupDays = 1
  Today = 2
  OldForks <- NoForks
  MaxChanges = 0
  MaxRuns = 1
  MaxCrashes = 0
SPECIFICATION Spec
INVARIANTS ForkKnown
CHECK_DEADLOCK FALSE
