SPECIFICATION Spec
CONSTANTS
  HasMsgApi = TRUE
  OtherThreads = TRUE
  MaxRuns = 2
  MaxResets = 2
CHECK_DEADLOCK FALSE
INVARIANTS
  ResetIsKept
