SPECIFICATION Spec
CONSTANT MaxSignals <- MCMaxSignals
INVARIANT NoThreadOutlivesTheCdm
PROPERTY WaitReturns
CHECK_DEADLOCK FALSE
