SPECIFICATION Spec
CONSTANTS
  Consumers <- FourConsumers
  Video <- TwoVideo
  MidsGiven = FALSE
  GivenMid <- ServerMids
  MaxFailures = 2
INVARIANTS
  TypeOK
  OfferMirrorsSections
  FirstSectionStays
  RunningHaveSections
  OffersDistinctMids
PROPERTIES
  ImplementsSlots
CHECK_DEADLOCK FALSE
