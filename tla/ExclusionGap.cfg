\* Schedulers that place successors at once and schedulers that do it later.
SPECIFICATION FairSpec
CONSTANTS
  Refresh = refresh  Restoring = {daily}  Loading = {load}
  Handovers = {TRUE, FALSE}
INVARIANTS
  TypeOK EntryExclusive RefusedRunsWriteNothing
  NoInterleavingAtHandover
PROPERTIES
  NoStandoff
