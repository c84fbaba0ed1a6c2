SPECIFICATION TimersSpec
CONSTANTS
  MaxTimers <- MCMaxTimers
  MaxTime <- MCMaxTime
  MaxInstances <- MCMaxInstances
INVARIANTS
  ExpiresOnLiveCdm
  NeverEarly
PROPERTIES
  TimersExpire
  ShutdownReturns
CHECK_DEADLOCK FALSE
