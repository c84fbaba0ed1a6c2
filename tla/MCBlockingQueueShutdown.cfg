SPECIFICATION Spec
CONSTANTS
  UpperBound <- MCUpperBound
  NumItems <- MCNumItems
PROPERTIES
  ShutdownReleasesConsumer
CHECK_DEADLOCK FALSE
