SPECIFICATION Spec
CONSTANTS
  NumCpu = 2
  Hooked <- MCHooked
  Share = 1
  MAX_POINTS = 1
  MaxRequests = 4
  MaxHits = 0
INVARIANT BreakpointHolds
CHECK_DEADLOCK FALSE
