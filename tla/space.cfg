SPECIFICATION SpaceSpec
CONSTANTS
  Tasks = {t1, t2, t3}
  MaxOccupancy = 4
  Requests <- RequestsDef
SYMMETRY Symmetric
INVARIANTS
  TicketsOwned
  PriorityOrder
  WakesServiced
CHECK_DEADLOCK FALSE
