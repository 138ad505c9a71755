SPECIFICATION FairSpec
CONSTANTS
  u1 = u1
  u2 = u2
  m1 = m1
  d1 = d1
  Users <- TwoUsers
  Media <- OneMedia
  Data <- OneData
  Owner <- Owners
  MaxJoins = 2
INVARIANTS
  ConsumersAgree
  PeersListTheirConsumers
  DestroyLeavesNothing
PROPERTIES
  ServerCloseReflected
CHECK_DEADLOCK FALSE
