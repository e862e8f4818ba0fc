SPECIFICATION FairSpec
CONSTANTS
  Streams <- StreamsSmall
INVARIANTS RelayedInOrder PlayerAccounted
PROPERTIES HandlerEnds GoneIsOver
CHECK_DEADLOCK FALSE
