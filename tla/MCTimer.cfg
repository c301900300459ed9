SPECIFICATION Spec
CONSTANTS
  MaxTimers = 3
  Slop = 1
  Never <- MCNever
  NoTag <- MCNoTag
  Duration <- MCDuration
  Period <- MCPeriod
  Delta <- MCDelta
  LocalTime <- MCLocal
  SlicePeriod = 3
  ClientCallback <- MCCallback
  MaxOffset = 4
INVARIANTS
  ExpiryOrder
  OneShotArmedOrGone
  TypeOK
  SlotsPartitioned
  NoTimerOutlivesScope
PROPERTIES
  NothingOverdueMissed
  KeepsAgenda
CONSTRAINT
  OneStart
VIEW
  LiveView
