SPECIFICATION TimersSpec
CONSTANTS
  MaxTimers <- MCMaxTimers
  MaxTime <- MCMaxTime
  MaxInstances <- MCMaxInstances
INVARIANTS
  NoDoubleInitialization
CHECK_DEADLOCK FALSE
