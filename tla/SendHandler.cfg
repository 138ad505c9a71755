SPECIFICATION Spec
CONSTANTS
  Producers <- FourProducers
  MidOf <- Numbered
  NumStreams = 2
  MaxChannels = 3
  MaxFailures = 2
INVARIANTS
  AnswersAreTaken
  RunningHaveLines
  NextStreamIsFree
PROPERTIES
  ImplementsSlots
CHECK_DEADLOCK FALSE
