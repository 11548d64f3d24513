\* An exception when the .pending marker is removed.
SPECIFICATION Spec
CONSTANTS
  d1 = d1  d2 = d2  e1 = e1  e2 = e2  e3 = e3
  None = None
  Partitions <- TwoDates
  Ids <- TwoIds
  Rows <- SomeRows
  Retention = 0
  MaxHold = 0
  MaxClock = 0
  MaxVersion = 3
  MaxWrites = 3
  MaxCrashes = 1
  MaxRaises = 1
  UnlinkMayFail = TRUE
PROPERTIES
  ActiveSurvives
