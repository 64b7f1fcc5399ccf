CONSTANTS
  NoOwner = NoOwner
  NoEntry = NoEntry
  Owners = {o1}
  Priorities = {40, 100}
  MaxDue = 4
  MaxOrdinal = 3
  Quantum = 2
  MaxFrameDelta = 3
  Deltas = {1, 4}
  Rates = {1, 2}
  MaxBoundaries = 2
SPECIFICATION Spec
PROPERTIES
  BatchResolvesWhole
  DrivesBoundaryQueue
CHECK_DEADLOCK FALSE
