SPECIFICATION Spec
CONSTANTS
  MaxFragments <- MCMaxFragments
  RangeSizes <- MCRangeSizes
  Deviations <- MCDeviations
INVARIANTS
  ReaderStaysBehindWriter
  FragmentsIntact
  DownloadLimit
PROPERTIES
  FragmentsAreDelivered
  ShutdownEndsThreads
CHECK_DEADLOCK FALSE
