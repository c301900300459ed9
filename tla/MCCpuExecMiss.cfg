SPECIFICATION Spec
CONSTANTS
  CpuCount = 2
  Cycle <- MCCycle
  MaxCycles = 2
  SlicePeriod = 5
  Guard = 1
  MaxAgenda = 3
  MaxLag = 2
INVARIANTS
  NoTriggerMissed
CONSTRAINT
  LagBound
VIEW
  LiveView
