SPECIFICATION ClockSpec
CONSTANTS
  MaxDelta <- MCMaxDelta
  Durations <- MCDurations
  NumFrames <- MCNumFrames
  Builds <- MCBuilds
INVARIANTS
  LeadIsBounded
  StartTogether
  NoMutualWait
PROPERTIES
  PlaybackCompletes
CHECK_DEADLOCK FALSE
