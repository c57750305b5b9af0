SPECIFICATION Spec
CONSTANTS
  u1 = u1  u2 = u2  u3 = u3  c1 = c1  c2 = c2  r1 = r1  r2 = r2  r3 = r3
  Nil = Nil  NoEvent = NoEvent  None = None
  Users = {u1, u2, u3}
  Owner <- MCOwner
  Conns = {c1}
  Requests = {r1, r2, r3}
  Workloads <- MixedWorkloads
  Failures = TRUE
SYMMETRY MCSymmetry
INVARIANTS
  TypeOK
  NoGap
  PushedIsStored
  UnannouncedOnlyOnError
  ReadMarks
PROPERTIES
  CountsCover
CHECK_DEADLOCK FALSE
