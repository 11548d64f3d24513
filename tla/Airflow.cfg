\* Health counters: kills and failed uploads, with a working disk and with one whose writes fail.
\* GTFS: two versions over three hours, with a kill, a job error and a manual run.
SPECIFICATION HostSpec
CONSTANTS
  LastHour = 2
  MaxAttempts = 3
  MaxPending = 2
  MaxMishaps = 2
  Disks = {TRUE, FALSE}
  Hashes = {1, 2}
  Tables <- TwoTables
  MaxHour = 3
  HoursPerDay = 2
  RetentionDays = 1
  Attempts = 3
  MaxKills = 1
  MaxTroubles = 1
INVARIANTS TypeOK CheckpointWithinCap NoOvercount GtfsSound
PROPERTIES RetiredWhenPublished CountsRefined ClosedHourRetired EventuallyLoaded
