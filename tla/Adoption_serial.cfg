CONSTANTS
  s1 = s1
  s2 = s2
  p1 = p1
  p2 = p2
  a1 = a1
  a2 = a2
  u1 = u1
  u2 = u2
  None = None
  Session = {s1, s2}
  Project = {p1, p2}
  Adoption = {a1, a2}
  Undoing = {u1, u2}
  MaxFailures = 1
  AtOnce = FALSE
  Overlap = FALSE
SPECIFICATION Spec
SYMMETRY Symmetry
INVARIANTS TypeOK
PROPERTIES ImplementsSessionAdoptions
CHECK_DEADLOCK FALSE
