\* Killed and failing exports over a warehouse that changes meanwhile, and full
\* exports once faults and changes are over.
SPECIFICATION FairSpec
CONSTANTS
  d1 = d1  d2 = d2  e1 = e1  e2 = e2  e3 = e3
  None = None
  Partitions <- TwoDates
  Ids <- TwoIds
  Rows <- SomeRows
  Retention = 0
  MaxHold = 0
  MaxClock = 0
  MaxVersion = 2
  MaxWrites = 2
  MaxCrashes = 1
  MaxRaises = 1
  UnlinkMayFail = FALSE
INVARIANTS
  TypeOK
  CatalogComplete
  ManifestsReadable
  SidecarMatches
PROPERTIES
  ChangedDatesPublished
  LaterExportPublishes
