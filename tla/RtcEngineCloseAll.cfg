SPECIFICATION Spec
CONSTANTS
  CanProduce <- BothKinds
  FusionProfile = FALSE
  MaxCalls = 4
INVARIANTS
  TransportCloseClosesAll
CHECK_DEADLOCK FALSE
