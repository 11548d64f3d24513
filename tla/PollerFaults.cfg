\* Faults at every step, and what fairness still brings about.
SPECIFICATION FairSpec
CONSTANTS
  b0 = b0
  b1 = b1
  t2 = t2
  Pings <- MCPings
  ModeCount = 2
  ModeOf <- MCModeOf
  TimeOf <- MCTimeOf
  HourLength = 2
  ShiftAt = 3
  ShiftBy = 2
  MaxAge = 2
  FutureTolerance = 0
  FlushLag = 2
  FlushInterval = 2
  SpoolCap = 2
  MaxBatch = 2
  MaxCopies = 1
  MaxClock = 5
  MaxDeaths = 2
  UploadsFail = TRUE
INVARIANTS
  TypeOK
  SpoolBacked
  CleanExitDrains
PROPERTIES
  CutoffIsFinal
  LedgerRefined
  LeavesMemoryArchived
  EventuallyArchived
