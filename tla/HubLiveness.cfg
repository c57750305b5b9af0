SPECIFICATION FairSpec
CONSTANTS
  u1 = u1  u2 = u2  c1 = c1  c2 = c2  c3 = c3  r1 = r1  r2 = r2
  Nil = Nil  NoEvent = NoEvent
  Users <- MCUsers
  Owner <- MCOwner
  Recipient <- MCRecipient
  Conns = {c1, c3}
  Requests = {r1}
  NotifyCap = 2
  SendBuffer = 1
INVARIANTS
  PrivateDelivery
PROPERTIES
  ImplementsPush
  TeardownCompletes
  NotifyReturns
CHECK_DEADLOCK FALSE
