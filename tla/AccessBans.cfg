SPECIFICATION Spec
CONSTANTS
  boss = boss  adm = adm  r1 = r1  r2 = r2  r3 = r3 
  None = None
  Users = {boss, adm}
  Roles = {"admin", "member"}
  FirstRoles <- MCFirstRoles
  FirstTokens <- MCFirstTokens
  Requests = {r1, r2, r3}
  AccessTTL = 3
  Timeout = 1
  MaxTime = 7
  Workloads <- MCWorkloads
INVARIANTS
  TypeOK
  TokensRunOut
  AuthorityBounded
CHECK_DEADLOCK FALSE
