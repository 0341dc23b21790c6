CONSTANTS
  a1 = a1
  a2 = a2
  s1 = s1
  s2 = s2
  None = None
  Session = {s1}
  DayLength = 6
  LeadTimes = {1, 2}
  Hysteresis = 2
  MaxAttempts = 2
  NotifyThreshold = 1
  Adjuster = {a1, a2}
  Adjustments = {"snooze", "undo", "config"}
  EndTimes = {3, 4}
  SnoozeMinutes = {1}
  RetryBudget = 1
  MaxTime = 5
  MaxThrows = 2
  MaxCrashes = 1
  Overlap = FALSE
SPECIFICATION Spec
INVARIANTS TriesWithinBudget
PROPERTIES EveryDeadlineWarned LeadNoticesSpaced UnhealthyToldOnce
SYMMETRY AnyAdjuster
CHECK_DEADLOCK FALSE
