CONSTANTS
  a1 = a1
  a2 = a2
  s1 = s1
  s2 = s2
  None = None
  Session = {s1}
  DayLength = 4
  LeadTimes = {}
  Hysteresis = 2
  MaxAttempts = 2
  NotifyThreshold = 2
  Adjuster = {a1, a2}
  Adjustments = {"snooze", "skip", "undo", "config"}
  EndTimes = {1, None}
  SnoozeMinutes = {2}
  RetryBudget = 1
  MaxTime = 6
  MaxThrows = 1
  MaxCrashes = 1
  Overlap = FALSE
SPECIFICATION FairSpec
INVARIANTS TypeOK AdjustmentsKept AnnouncedOnce
PROPERTIES CaptureOnlyWhenDue ImplementsClosingDay ClosureHappens
CHECK_DEADLOCK FALSE
