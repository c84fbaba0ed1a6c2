SPECIFICATION Spec
CONSTANTS
  NumEvents = 5
  NumBuffers = 2
  Unsolicited <- UnsolicitedEvents
  MaxCalls = 2
  MaxFaults = 1
  MaxTroubles = 1
INVARIANTS
  NoAssertFails
  QuietBetweenCalls
  ResultsAreTrue
PROPERTIES
  CallsReturn
CHECK_DEADLOCK FALSE
