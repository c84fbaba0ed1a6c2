SPECIFICATION Spec
CONSTANTS
  UpperBound <- MCUpperBound
  NumItems <- MCNumItems
INVARIANTS
  ContentsInOrder
  BoundedUntilShutdown
  NoLostWakeup
  NoMutualBlock
PROPERTIES
  ImplementsChannel
CHECK_DEADLOCK FALSE
