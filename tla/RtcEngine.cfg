SPECIFICATION FairSpec
CONSTANTS
  CanProduce <- BothKinds
  FusionProfile = TRUE
  MaxCalls = 3
INVARIANTS
  FieldIsTheLiveProducer
  ServerProducersAreHeld
  IssuedProducersEnd
  StoreFollowsFields
  LastAudioCallWins
  NeverUsesDisposed
PROPERTIES
  DestroyCompletes
CHECK_DEADLOCK FALSE
