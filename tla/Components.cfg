SPECIFICATION Spec
CONSTANTS
  NoBoard = 100
  Inf = 1000
  Buckets <- MCBuckets
  SearchHorizon = 20
  Networks <- MCNetworks
  Queries <- MCQueries
  MaxVehicles = 3
  SearchWindow = 3
  MaxEvents = 2
  Span = 8
  CourseInputs <- MCCourses
  \* DutyOwnership: Vehicles whose pings come every five or ten minutes; limits are the code's, scaled down.
  DutyInputs <- MCDays
  Fleet = {1, 2}
  EpisodeGap = 1
  PathLimit = 6
  DiverseStates = 3
  TimingTie = 1
  ReanchorDelay = 3
  ReanchorAbsence = 3
  MaxEarly <- MCEarly
  MaxLate <- MCLate
  MaxOverrun <- MCOverrun
  WindowMargin = 16
  \* DutySchedule: Hours of two dates; a stop is the post of a group.
  Feeds <- MCFeeds
  GtfsRows = 12
  \* MatcherRun: Row groups of two rows (25,000 in the code), at most three pings of a vehicle.
  Jobs <- MCJobs
  RowGroup = 2
  PingLimit = 3
  MaxAttempts = 2
  \* FeedIncidents: Hours of three minutes; two on end make an incident (60 and 15 in the code).
  MinutesPerHour = 3
  Duration = 2
  MaxRecent = 2
  MaxReportHour = 2
  Summaries <- MCSummaries
  Amended <- MCAmended
  Baselines <- MCBaselines
  CollectionStarts <- MCStarts
  Seeds <- MCSeeds
  \* HealthReports: Two tasks at a time, three in all; an outbox of two hours (48 in the code), one event.
  Reporters = {p1, p2}
  EventIds = {"a"}
  ReportHours = {1, 2}
  OutboxHours = 2
  MaxAlertJobs = 3
  \* HistoricalCorrection: Plans of up to two corrections and four refreshed dates (31 and 32 in the code); two controllers.
  Controllers = {c1, c2}
  Requests <- MCRequests
  MaxDays = 2
  MaxRefreshDays = 4
  EarliestDate = 1
  MaxStarts = 3
  MaxFailures = 2
  \* RouteCache: Three threads and four calls; limits are the code's 128 and 16, scaled down.
  Callers = {t1, t2, t3}
  JourneyKeys = {1, 2}
  CompletedLimit = 1
  InflightLimit = 1
  MaxCalls = 4
  \* NetworkCache: Two request threads and the warmer; a horizon of two days and a cache of three (3 and 4 in the code).
  RequestThreads = {s1, s2}
  Covers <- MCCovers
  WarmDays = 2
  CachedDays = 3
  MaxToday = 2
  MaxRequests = 2
  \* DailyWarehouse: Two dates, two snapshots, three runs and a failing task; the date before the first has no archive.
  ProcessingDates = {1, 2}
  ExcludedDates = {0}
  Governing <- MCGoverning
  ScheduledTrips <- MCTraversals
  MatchedTrips <- MCMatches
  MaxRuns = 3
  \* RawGpsLoad: Three parts, two tasks at once, four starts.
  GpsParts = {1, 2, 3}
  Loaders = {l1, l2}
  MaxLoads = 4
  MaxLoadErrors = 2
  \* RouteMap: A month of two dates, three builds, two pages.
  MonthLength = 2
  Pages = {g1, g2}
  MaxBuilds = 3
  \* PlannerPipeline: Two weekly runs, three scoring attempts, an artifact of two tables.
  Tables <- MCTables
  MaxTrains = 2
  MaxScores = 3
  Joins <- MCJoins
  DueTimes <- MCDue
  \* LiveTimes: A duty of two trips, times in minutes; the calibration ends before the second trip does.
  Unboardable = 999
  PassedM = 1
  Tolerance = 1
  LeaveLaterWithin = 8
  Calibrations <- MCCalibrations
  Duties <- MCDuties
  Delays <- MCDelays
  Lags = {0, 2}
  \* LiveStatus: Units of a minute (and a TTL of one, 30 s in the code); the history's hour and TTL are scaled down.
  LiveTtl = 1
  HistoryTtl = 2
  SilentAfter = 3
  StaleAfter = 2
  Beat = 1
  HistoryHour = 4
  FleetReports = {"thin", "full"}
  Evaluations <- MCEvaluations
  MaxTime = 8
  MaxTroubles = 1
INVARIANTS
  TypeOK CachesSound ArtifactsSound WarehouseSound JourneysSound EvidenceSound
PROPERTIES
  SettledStands NothingUndone
