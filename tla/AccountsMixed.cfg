SPECIFICATION Spec
CONSTANTS
  n1 = n1  n2 = n2  r1 = r1  r2 = r2  r3 = r3
  None = None
  Names = {n1, n2}
  Requests = {r1, r2, r3}
  CallSet <- MixedCalls
  Failures = TRUE
INVARIANTS
  TypeOK
  SuccessMeansRoles
  InstalledHasAdmin
  RolesAllOrNothing
PROPERTIES
  RolesNeverVanish
CHECK_DEADLOCK FALSE
