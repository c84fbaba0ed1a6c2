SPECIFICATION Spec
CONSTANTS
  NumSamples <- MCNumSamples
  FramesPerSample <- MCFramesPerSample
  DemuxedBound <- MCDemuxedBound
  FrameBound <- MCFrameBound
  DecoderDelay <- MCDecoderDelay
INVARIANT FramesInOrder
PROPERTIES
  StopEndsThreads
  PlaybackCompletes
CHECK_DEADLOCK FALSE
