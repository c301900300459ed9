SPECIFICATION Spec
CONSTANTS
  HasMsgApi = TRUE
  OtherThreads = FALSE
  MaxRuns = 2
  MaxResets = 2
CHECK_DEADLOCK FALSE
INVARIANTS
  TypeOK
  StoppableWhileEmulating
  NeverForcedToStop
  EndRequestHasItsWaiter
PROPERTIES
  StopReturns
  KeepsGameLife
