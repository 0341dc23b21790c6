CONSTANTS
  a1 = a1
  a2 = a2
  s1 = s1
  s2 = s2
  None = None
  Session = {s1}
  DayLength = 4
  LeadTimes = {}
  Hysteresis = 2
  MaxAttempts = 2
  NotifyThreshold = 2
  Adjuster = {a1}
  Adjustments = {"snooze"}
  EndTimes = {1}
  SnoozeMinutes = {1}
  RetryBudget = 1
  MaxTime = 3
  MaxThrows = 0
  MaxCrashes = 0
  Overlap = TRUE
SPECIFICATION Spec
INVARIANTS AdjustmentsKept
CHECK_DEADLOCK FALSE
