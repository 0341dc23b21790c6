CONSTANTS
  o1 = o1
  o2 = o2
  p1 = p1
  p2 = p2
  None = None
  Op = {o1, o2}
  Process = {p1}
  HostOf <- OneHost
  Kinds <- LifecycleKinds
  MaxWork = 1
  MaxCrashes = 0
  Overlap = FALSE
SPECIFICATION Spec
INVARIANT LockKept
