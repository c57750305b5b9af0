SPECIFICATION Spec
CONSTANTS
  u1 = u1  u2 = u2  u3 = u3  g1 = g1  g2 = g2  g3 = g3  g4 = g4  n1 = n1  n2 = n2  n3 = n3
  t1 = t1  t2 = t2  t3 = t3  t4 = t4
  p1 = p1  p2 = p2  p3 = p3  p4 = p4  p5 = p5  r1 = r1  r2 = r2  r3 = r3
  None = None
  Users = {u1, u2, u3}
  Groups = {g1, g2, g3, g4}
  Names = {n1, n2, n3}
  SeedGroups <- OneGroup
  Threads = {t1, t2, t3, t4}
  Posts = {p1, p2, p3, p4, p5}
  Requests = {r1, r2, r3}
  CallSet <- AllCalls
  SeedThreads <- OneThread
  SeedPosts <- TwoPosts
  Failures = TRUE
SYMMETRY MCSymmetry
INVARIANTS
  StatsTrack
  GroupFromOneRequest
  TypeOK
  FlagsFromModerators
PROPERTIES
  ChecksRespected
  ChangesAuthorized
CHECK_DEADLOCK FALSE
