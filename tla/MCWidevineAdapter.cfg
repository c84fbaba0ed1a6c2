SPECIFICATION Spec
CONSTANTS
  MaxPromises <- MCMaxPromises
INVARIANTS
  CallsReportTheirOwnAnswer
  NoPromiseIsLeftBehind
  SessionIsOpen
  NoStaleChallenge
  CleanAfterShutdown
PROPERTIES
  CallsReturn
CHECK_DEADLOCK FALSE
