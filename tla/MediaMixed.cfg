SPECIFICATION Spec
CONSTANTS
  u1 = u1  u2 = u2  mod = mod  p1 = p1  r1 = r1  r2 = r2  r3 = r3  r4 = r4
  None = None
  Users = {u1, u2, mod}
  Moderators = {mod}
  Posts = {p1}
  Requests = {r1, r2, r3, r4}
  MaxAvatarSize = 1
  MaxAttachmentSize = 2
  Failures = TRUE
  Workloads <- MCWorkloads
SYMMETRY MCSymmetry
INVARIANTS
  TypeOK
  LostOnlyByDelete
  DeletedIsGone
  OrphansExplained
  AvatarShown
CHECK_DEADLOCK FALSE
