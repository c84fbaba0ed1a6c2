SPECIFICATION Spec
CONSTANTS
  NumSamples <- MCNumSamples
  FramesPerSample <- MCFramesPerSample
  DemuxedBound <- MCDemuxedBound
  FrameBound <- MCFrameBound
  Protected = TRUE
INVARIANT TimestampsLagByLosses
PROPERTIES
  StopEndsThreads
  AudioIsPlayed
CHECK_DEADLOCK FALSE
