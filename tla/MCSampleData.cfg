SPECIFICATION Spec
CONSTANT Files <- MCFiles
INVARIANTS
  InputIsTheFile
  SubsamplesMatchTheData
  AdtsFramesAreWhole
PROPERTY FragmentsReachTheCdm
CHECK_DEADLOCK FALSE
