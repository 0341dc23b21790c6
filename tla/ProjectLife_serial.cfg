CONSTANTS
  o1 = o1
  o2 = o2
  p1 = p1
  p2 = p2
  None = None
  Op = {o1, o2}
  Process = {p1, p2}
  HostOf <- TwoHosts
  Kinds <- AllKinds
  MaxWork = 1
  MaxCrashes = 1
  Overlap = FALSE
SPECIFICATION Spec
VIEW Behaviour
INVARIANTS TypeOK LockKept OpenProjectStays NothingLeftLocked
PROPERTIES ReportedIsCommitted CommitsBesideLock ImplementsSingleWriter
