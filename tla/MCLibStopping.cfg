SPECIFICATION Spec
CONSTANTS
  HasMsgApi = TRUE
  OtherThreads = FALSE
  MaxRuns = 2
  MaxResets = 2
CHECK_DEADLOCK FALSE
INVARIANTS
  NeverStoppedRegistered
