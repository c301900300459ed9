SPECIFICATION Spec
CONSTANTS
  NumCpu = 2
  Hooked <- MCHooked
  Share = 2
  MAX_POINTS = 1
  MaxRequests = 4
  MaxHits = 1
INVARIANTS
  TypeOK
  MachineReadAtRest
  ResetIsUnderWay
  HaltIsOverriddenOnlyByRaces
PROPERTIES
  PauseStops
  StepIsTaken
  ResetHappens
  RequestIsServed
  QuitEnds
CHECK_DEADLOCK FALSE
