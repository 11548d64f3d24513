\* Three exports, their cleanups, and a reader, over time.
SPECIFICATION Spec
CONSTANTS
  d1 = d1  d2 = d2  e1 = e1  e2 = e2  e3 = e3
  None = None
  Partitions <- TwoDates
  Ids <- ThreeIds
  Rows <- SomeRows
  Retention = 1
  MaxHold = 1
  MaxClock = 2
  MaxVersion = 1
  MaxWrites = 2
  MaxCrashes = 1
  MaxRaises = 0
  UnlinkMayFail = FALSE
SYMMETRY Symmetric
INVARIANTS
  ReaderServed
PROPERTIES
  StoreRefined
