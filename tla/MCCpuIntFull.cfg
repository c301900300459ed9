SPECIFICATION Spec
CONSTANTS
  irq = irq
  nmi = nmi
  Line <- MCLine
  NmiLine = nmi
  MaxEvents = 2
  MaxPending = 3
  MaxTimers = 2
INVARIANTS
  DrainStaysInQueue
