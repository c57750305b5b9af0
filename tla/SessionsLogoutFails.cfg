SPECIFICATION Spec
CONSTANTS
  u1 = u1  b1 = b1  b2 = b2  s1 = s1  s2 = s2  s3 = s3
  r1 = r1  r2 = r2  r3 = r3  r4 = r4
  None = None
  Users = {u1}
  Browsers = {b1}
  Sessions = {s1}
  Requests = {r1, r2}
SYMMETRY MCSymmetry
INVARIANTS
  LogoutRevokes
CHECK_DEADLOCK FALSE
