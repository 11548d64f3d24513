# Verification of ztm-delays

ztm-delays collects vehicle positions of Warsaw's public transport, loads
timetables, matches vehicles to trips, publishes delay statistics and serves a
web planner. This directory holds TLA+ models of the parts of it whose
correctness depends on order, failure and concurrency, the TLC runs that check
them, and theorems that the TLA+ proof system checks.

## 1. Inventory: the system and its parts

Data flows one way: vehicle API -> poller -> objects in `raw/gps` -> Airflow
(daily GPS, matcher, dbt) -> BigQuery -> serving export -> DuckDB catalog and
Parquet generations on a local disk -> frontend.

| Part | State it keeps | Operations | What is hard | What makes it correct |
|---|---|---|---|---|
| GPS poller (`poller/poller.py`) | row buffers by vehicle type and hour, `buffers.json` spool, `last_partial_flush`, objects of `raw/gps` | poll, filter, snapshot, periodic flush, shutdown flush, signal | kills between two durable effects, ambiguous uploads, the spool cap, exceptions that cut a flush short | what was spooled is archived in the end and never dropped; status 0 means drained; memory and disk stay bounded |
| Poller health counters (`poller/poller_health_counters.py`) | counters per hour in memory, checkpoint file, hour objects in GCS | check capacity, record, save, upload closed hours, restore | kills between record, upload and retirement; cumulative snapshots that replace each other | no attempt counted twice or forgotten once checkpointed; a published hour never shrinks |
| GTFS poll and load (`dag_gtfs_poll.py`, `dag_gtfs_load.py`) | snapshot hash, GCS objects, load jobs, schedule days | compare, upload create-only, load, refresh days | retries of half-done loads, events that batch | a snapshot is loaded once and all of it; schedule days never go back to an older plan |
| Daily GPS (`dag_daily_gps.py`, the dbt facts) | raw rows, shared schedule tables, facts by date, coverage, status, serving universe, marts, Airflow's task states | load parts, build schedule, build facts of two dates, restore, announce | one task runs whatever failed before it; the next night completes a date's facts; reruns in any order; appends | a part is appended once; a successful night hides no failure; facts hold a trip once and keep its completion; the schedule is the date's own |
| Matcher publication (`ztm_matcher.py`) | run and stage tables, BigQuery jobs by name, stable partitions, pending/validated/published markers in GCS | stage, match, validate, publish, retry | a retry after a publication that was applied | a published run is whole and comes from one validated attempt |
| Writer exclusion (`ztm_airflow_common.py`, `dag_historical_serving_refresh.py`) | Airflow task and run states | two sensors, a validation, the refresh tasks | check-then-act between two schedulers | refresh and writers never touch the warehouse at once, and never wait for each other for ever |
| Historical correction (`matcher_historical_correction.py`) | the plan; the ids and states of its DAG runs | plan, execute, resume, retry the refresh | a controller that dies anywhere, two controllers at once, a failed refresh deleted and triggered again | the refresh covers every date the corrections rewrote, comes last, and is not withdrawn |
| Serving export (`dag_serving_export.py`, `serving_export_validator.py`) | GCS partition cache with manifests, local generations with manifests, `.pending` and `.inactive` markers, catalog and sidecar | extract, replace partition, build, validate, publish, clean up | a kill at any file operation, readers that hold an old catalog | the published catalog never names a file that is missing, and a crash never blocks the next export |
| Route maps (`dag_monthly_route_map.py`, `route_map_build.py`, `app.py`) | a directory per month, the staged and the retired copy, the pages' cache | wait for the facts, extract, stage, swap, drop, render | two renames, pages read meanwhile, a month that is not final | a published month is whole, final and stays; a page shows what is there |
| Planner pipeline (`dag_planner.py`, `planner_pipeline.py`, `planner/`) | bundles and `current.json` in the bucket, a local cache of bundles, the staged extract, `planner.duckdb` | train, promote, download, score, replace | a kill between two files, a promotion during a download, a second attempt in the same staging | the artifact is whole and of one promoted bundle; the newest good model is current; failures are seen |
| Health monitor (`poller_health.py`, `dag_poller_health.py`, `poller_health_gcs.py`) | hourly reports with acknowledgements, warehouse rows, public history | evaluate, create the report, publish, alert, reset | tasks that interleave at each read and write, lost answers, an outbox of limited length | a report freezes once; an incident is seen once and when earned; acknowledged means received |
| Frontend (`frontend/ztm_frontend`) | journeys in flight and remembered, networks with pins, live fixes and patched networks, copies of the status objects | get, load, evict, pin, warm up, match vehicles, move times, render | threads that wait for one another, artifacts renamed under open connections, objects that grow old | a waiter gets an answer; one request reads one artifact; pins stay; what is shown follows from what was read |
| Trip matcher (`matcher/`) | a private directory, shards, the published output | read the schedule, align stops, settle duties, split, merge, publish | beams that drop states, intervals that two duties claim, workers that die | the result is a best one by the definition, whatever the workers; the output is whole |
| Routing engine (`routing/`, `journey.py`) | bounds kept from one departure to the next | prepare, search, bound, collect | kept bounds, patched times, a horizon | no journey of the front is lost, no bound promises too much |
| Weekly audit (`dag_weekly_audit.py`) | none | query, report | data only | not modelled (section 6) |

## 2. How the parts interact, and the plan

Interactions that carry correctness:

- *Poller and health counters* are one process. A poll attempt is counted by
  `PollHealthCounters` before the next vehicle type is polled; an exception of
  the counters leaves the main loop, and both drain on shutdown. `Poller` has
  the counters' success and failure as one step each (`Record`,
  `HealthRaises`); `HealthCounters` has the calls the loop makes.
- *Airflow DAGs* share the BigQuery tables and GCS objects only. The refresh
  and the scheduled writers look for each other in Airflow's metadata database
  (`WriterExclusion`); the writers' rebuilds include the matcher's load and
  publication (`MatcherPublication`), which assume that runs of one DAG do not
  overlap (`max_active_runs=1`).
- *Serving export and frontend* share a directory. The exporter replaces the
  catalog atomically and the frontend opens it; old generations stay for the
  retention (`ServingStore`, with the reader as an environment action).
- *GTFS poll and load* are joined by an Airflow asset event and GCS objects;
  `GtfsIngest` has both sides.
- *Health monitor* reads the hour objects that `HealthCounters` writes and the
  schedule days that `GtfsIngest` keeps. `FeedIncidents` is the evaluation,
  `HealthReports` what the tasks do with its result; `LiveStatus` reads the
  public history it publishes, and the poller's heartbeat.
- *The night* runs the matcher (`MatcherRun`, whose steps are computed as in
  `DutySchedule`, `DutyOwnership`, `StopAlignment` and `TripFacts`), publishes
  it (`MatcherPublication`) and builds the warehouse (`DailyWarehouse`) from
  what `RawGpsLoad` appended. A correction (`HistoricalCorrection`) launches
  such nights for past dates and then a refresh (`WriterExclusion`).
- *The month's map* (`RouteMap`) and the planner's model (`PlannerPipeline`)
  read the warehouse and publish for the frontend, whose threads share
  `RouteCache` and `NetworkCache`, search in `RouteSearch`, and show
  `LiveVehicles`, `LiveTimes` and `LiveStatus`.

The modules in the order they were written, most important behaviour first.
An abstract specification says what a component promises where that is less
than its state.

| Step | Modules | Abstract specification or reference | Theorems in |
|---|---|---|---|
| 1 | `Poller` | `RowLedger`: a ping goes from absent to spooled to archived, never back | `PollerProofs` |
| 2 | `HealthCounters` | `CountLedger`: durable counts grow by one attempt at a time | `AirflowProofs` |
| 3 | `ServingStore` | `GenerationStore`: what a catalog or a reader names can be read | `ServingProofs` |
| 4 | `WriterExclusion` | - (exclusion is stated directly) | `ExclusionProofs` |
| 5 | `MatcherPublication` | `PartitionLedger`: partitions change together, to approved content | `PublicationProofs` |
| 6 | `FeedIncidents`, `HealthReports` | a definition of an incident by all minutes | `WarehouseProofs` |
| 7 | `GtfsIngest` | - (counts of rows, a history of refreshes) | `AirflowProofs` |
| 8 | `DailyWarehouse`, `RawGpsLoad`, `HistoricalCorrection` | - (histories of what was completed, appended, left unserved) | `WarehouseProofs` |
| 9 | `RouteCache`, `NetworkCache`, `LiveStatus`, `LiveVehicles`, `LiveTimes` | - | `CachesProofs` (`RouteCache`, `LiveStatus`, `LiveTimes`), `ArtifactsProofs` (`NetworkCache`) |
| 10 | `RouteMap`, `PlannerPipeline` | - (a publication is whole and final) | `CachesProofs` |
| 11 | `RouteSearch`, `StopAlignment`, `TripFacts`, `DutySchedule`, `DutyOwnership`, `MatcherRun` | reference definitions by enumeration: all journeys, all selections, all paths | `ArtifactsProofs` (`DutySchedule`, `DutyOwnership`, `MatcherRun`) |

Compositions: `MCAirflow` has the health counters and GTFS, `Caches` what is
read through a copy (routes, the public status, the calibration of the live
timetable, the months of the map, the bundles of models), `Artifacts` what is
written whole and read whole (a day's schedule, who drove its duties, the
matcher's output, the networks of an artifact), `Warehouse` the five parts that change what BigQuery and the bucket keep, and
`MCComponents` extends these three and adds the algorithms and the poller's
backlog. Components in one composition share no
state; the initial state chooses one and its steps are the behaviour's, so
that one run checks many of them and a theorem about the composition is a
theorem about each. `Slots` holds the variables they take turns to use.

Worth doing next: `LiveVehicles` proved for any feed; the refresh together with the export that it starts; the correction
controller on top of `WriterExclusion`.

## 3. The modules and the code

Common conventions. A process step that ends at a durable effect is one
action, since a kill between two volatile assignments cannot be told apart
from one before both. A step that may fail has one action per outcome: it
succeeds, it raises before its effect, or its effect is applied and the answer
is lost (`applied`). A definition whose name ends in an underscore and a hint,
marked `mutant`, is the same step with a plausible bug; nothing but the
mutation listed in PROJECT.json uses it.

### Poller (`poller/poller.py`)

`buffers` and `spool` are bags of pings (the code keeps lists and may hold a
row twice after a repeated answer), `parts` the objects of `raw/gps`, each the
bag of rows it holds. `pc` names the statement of `main` the process is at:
`LoopTop`, `Poll` (`PollSucceeds` with any answer, `PollFails`), `Record`,
`SaveSpool`, `FlushDecision`, then `SkipHour`/`UploadHour(s)` in the sorted
order of the slots, `FlushEnds`, `Heartbeat`, `WakeUp`. `Signal` is the
handler that sets `stopping`; it is only looked at where the code looks. The
shutdown path is `ShutdownFlushBegins`, the uploads without a cutoff,
`SaveSpoolAndExit` and its exceptions. `Crash` kills the process anywhere.
Time is a small clock that saturates at `MaxClock`; a ping has a fixed instant
and vehicle type, an hour is `HourLength` ticks. A ping's age is judged by
instants (`FreshAt`), its hour and the cutoff of a flush by what Warsaw's clocks
show then (`Warsaw`): the code takes the lag from a Warsaw time and compares
Warsaw times, and Python does both on the wall clock. The clocks are changed
once, at `ShiftAt` by `ShiftBy`, forward or back. Left out: parsing, the fields
of a row, the live file.

### HealthCounters (`poller/poller_health_counters.py`)

`hours` is the dictionary in memory, `checkpoint` the file, `objects` the hour
objects in GCS. `made` counts attempts really made and exists only for the
properties. `Attempt` remembers the hour before the call, `Record` counts it
after, so an hour may pass in between. `BeginUpload` walks pending hours in
order; `UploadHour(h)` replaces the object with the cumulative count, `Retire`
drops a closed hour from memory and the checkpoint; an upload that fails
leaves its hour and goes on to the next (`UploadHourFails`). `diskFails` chooses, once and for all, a machine on which
writing the checkpoint may raise.

### ServingStore (`airflow/dags/dag_serving_export.py`, partitioned mode)

Two partition dates or more of one sharded table. `warehouse` holds the
version of each date (which changes while an export runs), `blobs` and
`cacheManifest` the GCS partition cache, `dirs`, `files`, `pending`, `marked`,
`manifest` the local disk, `catalog` and `sidecar` what the frontend opens.
The steps of an export follow the code: `Start`, `Sweep(p)`, `ExtractGlobals`,
`ListCache`, `DeleteCacheManifest(p)`/`DeleteCacheBlobs(p)`, `Extract(p)`,
`FlipCache`, `TrimCache`, then per date `Reuse(p)` or `MakeDirectory`,
`TouchPending`, `Download`, `Activate`, `UnlinkPending`, then `Validate`,
`WriteSidecar`, `Swap`, and the cleanup (`Marks`, `Clean`). `Refuse` is every
check that raises; `RaiseInDownload` and `RaiseInSwap` are exceptions with the
except blocks; `Crash` and `CrashInRemoval` are kills, the second in the
middle of a recursive deletion. A reader opens the catalog and keeps it for at
most `MaxHold`.

### WriterExclusion (`ztm_airflow_common.py`, `dag_historical_serving_refresh.py`, the writer DAGs)

A run and its tasks have Airflow's states. `WaitForRefresh` and
`WaitForWriters` are the sensors' pokes, `Validate` looks again, `Restore`
refuses without the return value. The scheduler is external. `handover`
chooses between one that places a task's successors in the step in which the
task ends, and one that does so later; the code runs under the second. Tasks
that no check tells apart are one task.

### MatcherPublication (`ztm_matcher.py`)

Two entry points: `MatcherRuns` to `WritePending` is `run_matcher_load`,
`Approve` to `DeleteStage` is `publish_matcher_artifacts` and
`publish_staged_artifacts`. BigQuery is external, modelled by what the code
relies on: a job id is used once, so a second submission finds the first job
(`done`, `failed`). `tables` are named after run and digest, `stable` are the
partitions of the date. A count query that was run before is found by its name
and answers from its cache: `Reused`.

### GtfsIngest (`dag_gtfs_poll.py`, `dag_gtfs_load.py`)

`poll` is the poll's task with its attempt, `load` the load's with its batch,
snapshot and table; each has `max_active_runs=1`. `Compare`, `Upload`,
`Insert`, `Emit` are the poll's effects in order, `Submit`, `Loaded`,
`LoadFails` a load job under the name made of snapshot and table, `ReadDays`
and `Store` the schedule-days object under its generation. A poll that is killed
between `Insert` and `Emit` finds its own hash when it is retried and returns
nothing, so no event is emitted for the snapshot: `LostOnlyByKills`, of
`GtfsSound`, counts such snapshots against the kills. A killed load may
leave a process that goes on (`zombie`, `ZombieWrites`); its write is refused
by the generation it names. `Spoil` is an object lost after its upload,
`StartManually` a load an operator asks for.

### Daily pipeline: `RawGpsLoad`, `DailyWarehouse`, `MatcherRun`

`RawGpsLoad`: `List`, `Submit`, `Result` of overlapping tasks over the parts of
a date, with jobs named after the part. `DailyWarehouse`: the tasks of
`dag_daily_gps` as a graph (`Before`, the trigger rules, `Dead` for what a
failure rules out), each task's effect on the shared tables (`Writes`; a row of
facts is of a trip and a vehicle, and keeps out or replaces others by its trip
alone, as `fct_trip.sql` does), with
facts as rows `<<trip, processing date that wrote it>>`. A run starts for a
date in the order and under the configuration `Start` allows: the schedule, a
manual run, a historical correction, with or without the prior publication.
`MatcherRun`: one attempt after another in its private directory; `Submit`
hands out a chunk, `AlignCourse` writes rows and row groups, `Collect` and
`Merge` join the shards, `Publish` moves the directory, `Die` and `Again` are a
death and a new start.

### Matching: `DutySchedule`, `DutyOwnership`, `StopAlignment`, `TripFacts`

`DutySchedule` reads a snapshot (`Load`, `Select`), chains trips to duties
(`Chained`), classifies stops and derives courses and the universe.
`DutyOwnership` settles one duty after another: a vehicle's traversals
(`ExtractEvidence`), paths through the courses course by course with the
state limit (`AlignCourse`), the choice of a vehicle (`Choose`), gaps
(`FillGap`), and intervals two courses claim (`Resolve`). A vehicle has one ping
a time, as the parser's dedup leaves it (`DutyAssumption`). `StopAlignment` does
one course: candidates, the beam (`Align`), the selection without incoherent
delays, the terminals timed again. `TripFacts` extends it by the fact and the
events made of an alignment. Streets are a line; a history of the beam holds
its selection.

### RouteSearch (`journey.py`, `routing/src/search.rs`, `network.rs`)

The first half is the network as data (boarding lists with patched times,
walks, the lower bounds of `to_target`), the second the search: `NextWindow`,
`StartRun`, one `ScanEntry` per marked position, `EndRound`, `EndWindow`. Times
are small integers; `NoBoard` and `Inf` are the code's sentinels. The reference
is the set of all journeys (`Journeys`), enumerated.

### HistoricalCorrection

`plan` is what `build_historical_correction_plan` computes of a request.
Controllers execute it: `ReadDay`, `TriggerDay`, `AwaitDay` per date,
`ReadRefresh`, `DeleteRefresh`, `LaunchRefresh`, `AwaitRefresh` at the end. Two
controllers may run at once, each step of one may fail, and a failed one is
started again, with or without `--retry-failed-refresh`. `unserved` remembers
which dates were rewritten and not exported since.

### RouteMap and PlannerPipeline

`RouteMap`: `Night` and `lost` say which facts there are, `MonthPublished` is
the sensor; a build clears what a dead one left, writes the staged copy, and
swaps in two renames (`Retire`, `Promote`, `Drop`); a page stats the file and
then reads it through a cache keyed by modification time. `PlannerPipeline`:
the weekly run uploads a bundle file by file and promotes it last; the nightly
run asks for the current version, copies it into `.partial` and renames,
extracts into a staging prefix of its own, and replaces the artifact.

### HealthReports and FeedIncidents

`FeedIncidents` walks an hour's minutes once, with the counters carried over in
the report; an incident opens after a duration of bad minutes on end and
closes after as many good ones. The preceding hour's summary is read again for
each hour and may by then be missing, uploaded late, or another one
(`Amended`) than that hour was evaluated with; the tails come from it, the open
incident from the report. `HealthReports` has the tasks of an hour:
create the report under generation 0, persist its rows, merge the history
under a generation match, walk the outbox of recent hours, send, record the
acknowledgement; resets by an operator come between.

### Frontend threads: `RouteCache`, `NetworkCache`, `LiveStatus`

`RouteCache.get` under its lock decides between a remembered result, joining a
flight, owning a new one, or neither (`Bypass`); owners compute outside the
lock and publish. `NetworkCache`: request threads and the warmer take the build
lock one at a time; a key is the artifact's identity and a day; the warmer pins
the days it covers. An artifact is replaced under a new identity while
requests hold connections to an old one. `LiveStatus` reads two public objects,
each at most once per TTL, from buckets whose poller and monitor stop and start.

### LiveVehicles and LiveTimes

`LiveVehicles` drives real vehicles (`truth`) along a duty, publishes feed
objects of the last two times and lets the matcher read them; a request gets
the fixes of one object and the network patched for it. `LiveTimes` is
`row_times`: a fix carries a delay down its trip by a calibration and through
the turnaround; fractions are eighths, rounded where the code rounds.

## 4. The runs

| Run | Asks | Bounds | States |
|---|---|---|---|
| `poller_faults` | is a spooled ping ever lost, and archived in the end? | 3 pings, 2 vehicle types, 2 hours, 2 deaths, spool cap 2, the clocks go forward | 231k |
| `serving_faults` | does any failure leave the disk or the catalog broken? | 2 dates, 2 export ids, 2 changes of the warehouse, 1 kill, 1 exception | 255k |
| `serving_readers` | are readers of old catalogs served during cleanup? | 3 export ids, retention 1, clock 2, 1 kill, symmetric dates and ids | 1.8M |
| `exclusion_gap` | do refresh and writers meet, or block each other? | 1 DAG with a restoration, 1 without, the refresh; both schedulers | 488k |
| `publication` | do partitions ever hold half an output, or one not approved? | 2 runs, 2 tables, 2 sound outputs and 1 unsound of the same contents, 1 fault | 418k |
| `airflow` | is an attempt counted twice, or forgotten? is a timetable loaded twice, in part, or over a newer one? | counters: 3 hours, 3 attempts, 2 pending hours, 2 mishaps, both disks; GTFS: 2 versions over 3 hours, 2 tables, 3 attempts, 1 kill, 1 job error or manual run | 222k |
| `components` | the properties of the other components, by group | see below | 1.26M |

Five more runs end in a counterexample; see the findings.

`components` chooses one component in the initial state. Its properties are
named in the modules and conjoined by group:

- `CachesSound`. `RouteCache` (3 threads, 4 calls, tables of 1):
  `ComputedOnce`, `NoOldFailure`, `WaitersServed`. `LiveStatus` (8 minutes, 1
  trouble): `OfflineEarned`, `FailureEnds`, `OutageSeen`, `IncidentFades`.
  `LiveTimes` (four duties of two trips of 4 stops, the calibration ends within
  the second): `StopsInOrder`, `TimesAgree`, `PlanHolds`.
  `RouteMap` (a month of 2 dates, 3 builds, 2 pages): `MonthWhole`, `MonthFinal`, `MonthKept`,
  `FreshPage`. `PlannerPipeline` (2 weekly runs, 3 scoring attempts, 2 tables):
  `CurrentUsable`, `ArtifactWhole`, `NewestModel`, `OwnExtract`,
  `FailureVisible`.
- `ArtifactsSound`. `DutySchedule` (trips of up to four posts over two dates):
  `DayIsCovered`, `OverlapNoticed`, `PassengerCore`, `ShortOfSomething`,
  `DiagnosticAgrees`. `DutyOwnership` (2 vehicles of 9 pings, 2 duties):
  `DisjointTraversals`, `DutyInOrder`, `Uncontested`, `OwnedOnce`, and
  `ClashesYield`: of a vehicle's intervals exactly those that overlap are given
  up. `MatcherRun` (4 vehicles, 3 workers, row groups of 2, 2
  attempts): `SameForAnyWorkers`, `FullGroups`, `PublishedWhole`,
  `LimitAgrees`. `NetworkCache` (2 request threads and the warmer, 2 artifacts
  of which the second lacks the first day, a horizon of 2 days and a cache of 3
  where the code has 3 and 4): `OneSnapshot`, `IdleMeansWarm`, `CacheKept`.
- `WarehouseSound`. `DailyWarehouse` (2 dates, 3 runs with a failing task each
  at most): `NoSilentFailure`, `OncePerTrip`, `OwnSchedule`, `StatusMeansFinal`,
  `MartsFollow`. `RawGpsLoad` (3 parts, 2 tasks, 4 starts, 2 errors):
  `AppendedOnce`, `EmittedLoaded`. `HistoricalCorrection` (plans of up to 2
  corrections and 4 refreshed dates, 2 controllers, 3 starts, 2 failures):
  `PlanCovers`, `RefreshLast`, `SuccessMeansServed`. `HealthReports` (2 tasks at
  a time and 3 in all, 2 hours, 1 event): `PublishedAgrees`, `AckHonest`, `NotRepeated`, `SuccessMeansDrained`,
  `ResetHonoured`. `FeedIncidents` (hours of 3 minutes, 2 on end make an
  incident): `ReportReadable`, `NothingMissed`, `IncidentEarned`,
  `RecoveryEarned`, `EventsAlternate`, `HealthyMeansWatched`.
- `NothingUndone`, of steps: `CompletionsKept` (only a run of the following date
  takes a completion away), `RefreshStands`, `FrozenStands` and
  `HistoryForward` (a created report only gains acknowledgements, the history
  never goes back to an older hour).
- `JourneysSound`. `RouteSearch` (networks of 5 stops and up to 8 trips, with
  loops, walks, overtaking, patches): `FrontComplete`, `BoundsHold`,
  `PatchedListsBuilt`. `LiveVehicles` (2 vehicles, 5 ticks): `TripKept`,
  `StuckServesNothing`, `RunnerHolds`, `OneObject`.
- `EvidenceSound`. `Poller` (`BoundedBacklog`, with 2 pings in up to 2 copies
  and two periodic flushes). `StopAlignment`
  and `TripFacts` (4 to 5 stops, 7 pings that drive, halt, turn back, crawl or
  leap): `BestAlignment`, `PassengerOrder`, `WithinOwnership`,
  `AmbiguityJustified`, `CoherentDelays`, `MissedOnEvidence`, `FactsAgree`,
  `CompleteIsFollowed`. `DutyOwnership`, as above: `BestPath` and
  `TrimLosesOnlySilent`, on tracks that begin just before and just after the
  window of a course in the evening opens: of the traversals that a course
  could claim, the window loses those of a vehicle that sent nothing of the
  line from before it until it left, and no other.
- `SettledStands`, of steps: the first published output stays (`FirstStands`),
  pinned networks stay (`PinsHold`).

A property of steps is a named action in its module (`Kept`, `RefreshStands`,
`FrozenStands`, `FirstStands`, `PinsHold`); compositions conjoin the actions
under one box.

Why the bounds suffice for what is asked. The hazards need one ping that is
flushed and one that is not, two slots (one whose upload fails), and one fault
between two durable effects followed by another during the recovery: two
deaths, two mishaps. The counters need three hours, one closed and uploaded,
one closed and pending, one current. In the store, two dates make one changed
and one reused, and the third export is the first that cleans up a generation
two others replaced. In the publication two outputs that share contents are
needed to make a mixed partition and to make a stale job's name fit. In GTFS,
two versions are the least that can overwrite each other, and one kill makes a
process that outlives its attempt. Three runs of the nightly DAG over two dates
are a date's own night, the next one and a rerun of either. Two controllers,
two tasks, two pages are the least that can meet; three callers of a route are
an owner, a waiter and one that comes later. Two scoring attempts can meet in
one staging prefix, the third reads what they left. For the algorithms the
inputs are families in which every branch of the code is taken, and each
property fails for a mutant of it. The invariants with theorems do not depend
on these bounds at all.

Every property of a passing run has a mutant: a definition of the code with a
plausible bug (its name ends in an underscore and a hint), under which TLC
finds the property violated. A group has several, for properties of different
components.

`CHECK_DEADLOCK` stays on everywhere: every model can always go on (a stopped
process restarts, another export or DAG run begins, time passes), or stutters
explicitly where all its inputs are used up.

Fairness:

- `Poller`: weak fairness of the program's own step (a running process goes
  on, and the container of a stopped one is restarted), and strong fairness of
  each slot's upload: GCS does not fail for ever for one object. Nothing is
  assumed of signals, kills and exceptions but the bound on deaths.
- `HealthCounters`: the same, with strong fairness of the tick (the heartbeat
  interval elapses again and again) and of each hour's upload.
- `ServingStore`: weak fairness of an export's steps; the environment's
  changes and the faults are bounded. `LaterExportPublishes` asks what a full
  export under a fresh id does once they are over.
- `WriterExclusion`: weak fairness of each DAG's progress: the scheduler and
  workers go on, and sensors poke again. `TimeOut` stays possible.
- `MatcherPublication`: weak fairness of `Step`; a retry is not assumed, the
  property starts from one.
- `GtfsIngest`: weak fairness of the poll's and of the load's steps: Airflow
  starts what is due and repeats what failed, as often as it is configured to.
  `EventuallyLoaded` excepts a run with a job in error, whose name stays taken.
- The other components have safety properties only and no fairness.

### Findings

Runs that end in a counterexample, each against a sentence of the repository:

- `health_shrinks` (`ObjectNeverShrinks`): `poller/README.md:60` says a
  same-hour restart extends earlier counts. After a checkpoint write that
  failed, the shutdown upload publishes an attempt the file does not hold; the
  next process replaces the object by a smaller count.
- `serving_unlink` (`ActiveSurvives`): a test says a failed replacement
  preserves the active generation. If removing the `.pending` marker raises,
  the except block deletes the generation that the manifest already names, and
  every later export stops at its first step.
- `exclusion_hole` (`NoInterleaving`): `ztm_airflow_common.py:114` says
  refresh and writers must not interleave. Between two of the refresh's tasks
  none is active, and a writer that pokes then is let through.
  `NoInterleavingAtHandover` shows that this moment is the only hole.
- `publication_retry` (`PublishedRetrySucceeds`): `docs/operations.md:55`
  calls retries repeatable. A published run that is published again finds its
  stage job by name, and the table that job wrote was deleted by the first
  publication: it raises, every time.
- `refresh_retry` (`NewExport`): `dag_historical_serving_refresh.py:177` and
  `docs/operations.md:105` say that a retried refresh passes a new export id. The new id is chosen by the
  call that deletes the failed run; a controller that dies, or whose trigger
  fails, between the two finds no run when it is started again and launches the
  refresh under the plan's own id, whose export jobs exist
  (`dag_serving_export.py:674` raises).

### Observations

Not against any sentence precise enough for a run, or seen on the way:

- The poller takes a flush's cutoff from Warsaw's wall clock and compares it so
  (`poller.py:441-443`, `:793`), while a ping's age is judged in UTC (`:690`).
  In the minutes after the clocks go forward a flush takes pings younger than the
  lag, which later polls may accept again and archive twice; so may, after they
  go back, pings stamped ahead of their time. `CutoffIsFinal` excepts exactly
  these (`AcrossChange`); without the exception TLC finds the spring case.
  Duplicates only: no ping is lost by it.
- `alignment.py:24` says of the margin around a pattern's schedule that
  "trimming never removes a candidate". An episode of evidence has no limit
  between its last ping at the origin and the first outside
  (`alignment.py:130-136`), so a vehicle that stood at the terminal more than
  the margin before the first start, sent nothing, and then drove the course in
  time is a candidate without the window and none with it.
  `TrimLosesOnlySilent` excepts exactly these vehicles.
- A snapshot whose poll dies between the merge and the event is never loaded
  unless an operator names it (`gtfs_poll`'s retry sees its own hash).
- `mart_pipeline_status` of a date is also written by the next night's run, as
  its prior date. So the partition of the next month's first day does not by
  itself mean that the month's last day is completed
  (`dag_monthly_route_map.py:62-66`) when the night of the first never ran and
  that of the second did; `MonthFinal` excepts exactly these lost nights.
- The task that restores the schedule runs for the snapshot `None` when the
  lookup or a guard failed: it empties the shared schedule tables, and then the
  date's serving universe. The run still fails.
- Route maps: a kill between the two renames leaves the month away, and the
  next build first removes the retired copy: a second failure then loses the
  month until a later build. A page that has seen the file and reads it during
  the swap raises.
- A raw load's job that failed keeps its name, so its part and those after it
  are never loaded under that name.
- `matcher/cli.py:35` says that chunks of vehicles are concurrent; the
  generator at `runtime.py:1036-1041` submits a chunk only after the result of
  the previous one.
- If the feed cannot be read when a network is warmed, its live view has no
  calibration for as long as it lives.
- A vehicle at its duty's first stop, more than ten minutes late and never seen
  to arrive, may be read as waiting for the next trip from the same terminus
  when that one is due within 45 minutes; a vehicle first seen between stops
  goes to the closer timetable.
- A train or score run that is killed leaves its staged objects in the bucket.
- With a broken credential the status page says that the poller is offline for
  a minute or so before it says that it cannot tell (`live_status.py:9-10`);
  `OfflineEarned` excepts failing reads.

## 5. What is proved

Eight proof modules, for every value of the constants that the named
assumptions allow.

- `PollerProofs`. `SpoolAlwaysBacked` is inductive with `TypeOK`; from it
  follow `LedgerImplemented` (the map of each ping to absent, spooled or
  archived takes every step to a step of `RowLedger`) and
  `MemoryLeavesForArchive`. `CleanExit` needs `DrainCovers`: during the last
  flush every buffered slot is still to visit or has failed. `CutoffFinal`
  needs `CutoffTaken` (the cutoff is what Warsaw's clocks showed at some instant,
  less the lag, and nothing buffered was far in the future of it), holds for any
  `ShiftAt` and `ShiftBy` but `AcrossChange`, and needs the assumption that the clock's bound lies beyond
  every ping's last acceptable moment, since a saturated clock would stop
  pings from ageing. `BacklogBounded` is inductive as `WithinCap`: memory is
  within the spool's cap wherever a poll may begin, and one answer beyond it
  until the snapshot. It needs finitely many pings; that sizes add and compare
  goes by induction on the number of pings a size is taken over.
- `ServingProofs`. One inductive invariant, `IInv`, that ties every phase of
  an export to the disk: which generations are whole, which manifests point at
  them, what the run plans to publish. `ReadersServed` also needs `MaxHold <=
  Retention`, `NeverBlocked` that markers can be removed (`~UnlinkMayFail`);
  `serving_unlink` shows the need for the latter. `SidecarAgrees` rests on
  `SidecarOK`: between the two replacements the run still knows the id to put
  back.
- `ExclusionProofs`. `IInv`: runs that are not running have no active task; a
  return value means the gate succeeded; gated tasks are past their gate; and,
  strengthened so, `EntryExclusive`. With immediate scheduling, `ChainOK` says
  the refresh's tasks leave no gap, hence `NeverInterleaving`. Any number of
  writer DAGs.
- `PublicationProofs`. `TablesOK`: a table holds what its name says or
  nothing. `AttemptOK`: past the approval, the marker equals the attempt's
  output, and partitions already compared equal it. `StableSound` follows, and
  the refinement of `PartitionLedger`.
- `AirflowProofs`, the counters. `CountedOnce` bounds memory, checkpoint and
  objects by the attempts made. `MemoryAhead` says that a running process holds
  at least what its checkpoint holds, and that an hour is retired only while
  its object equals memory. `Accounted` says that with a working disk memory is
  ahead of the checkpoint by the attempt being recorded only, and an object
  ahead of it for retired hours only; the refinement of `CountLedger` rests on
  it. `CapKept` rests on `CapOK`: memory fits as well as the checkpoint, and a
  poll that is under way was begun with room for its hour.
- `AirflowProofs`, the timetable. `LoadedSafely`, for any versions, hours,
  tables, retries and kills (hashes are numbers up to a bound). The invariant
  `GtfsInv`: a job appended once if it is done and never otherwise; a load has behind it only
  what is in the tables; and whoever may still write the schedule days, a
  killed attempt's process included, has read the object as it is or an older
  generation, so that a stale write is refused. A later plan is the newest
  among all refreshed, because a refresh merges into what it has read. `LossInv`
  carries the bound on snapshots without an event through every step.
- `CachesProofs`. `CachesSafely`, for any threads, keys, limits, times, months
  and bundles. `CacheInv`: a future that is not set has exactly one owner who is at
  work on it, and what is in flight is being computed; so waiters get an
  answer. `StatusInv`: what is cached was true when it was read, and a beat's
  interval holds a heartbeat (any `Beat` ticks in a row contain a multiple of
  `Beat`). `TimesInv`: each row is moved at most once, and the expected times rise
  along each trip before, between and after the two steps. A step's rows are a
  fold that carries the time of the row before; past the calibration a usual
  time is kept only when it is not below that (`InOrderRow`), and rounding keeps
  the order. `MapInv`: an extract is final when it is taken and whole before it
  is moved, and only a death leaves the month away. `PlannerInv`: the current
  version, and the one scoring asked for, have all their files, and the cache has
  a version as a whole or not at all.
- `ArtifactsProofs`. `ArtifactsSafely` and `PublishedStands`, for any feeds,
  days, tracks, jobs and threads. `RunInv` says what is in the private
  directory at each step, and that the shards collected so far, with what the
  worker at hand has written and what its chunk still holds, are the rows of
  all vehicles up to the chunk's end; so what is merged does not depend on the
  number of workers. Full row groups follow from how the rest is carried over.
  `ScheduleInv`: each table is what its step computes from the tables before
  it. `OverlapNoticed` then takes the first segment of the chain that overlaps
  an earlier one: were it and its predecessor both unmarked, the predecessor
  would be over by then, and so would itself overlap the earlier one.
  `ShortOfSomething` takes a longest trip that has the short one as a part.
  `DutyInv`: a vehicle's episodes follow each other, so its traversals of a
  course do too; each path searched picks
  traversals of its own vehicle one after another, and has used just those, so
  two paths with equal picks are one; what is settled comes from the winner's
  best path. `Uncontested` rests on the order of the best paths being total and
  strict, `DutyInOrder` on a gap's traversal lying between its neighbours, and
  `ClashesYield` on the sweep: after each interval, by start, the active ones
  are all those so far that the next may meet, and the conflicts are all that
  overlap another so far.
  `NetworkInv`: only the holder of the build lock inserts, fewer networks are
  pinned than the cache holds (the assumption `NetworkAssumption` says so of
  the constants, as the code's 3 and 4 do), and a pass of the warmer is for the
  artifact that was at the path when it began, or what replaced it. The sequences are built by folds of `Lists`. What a fold
  leaves is reached through the function of its values after each element
  (`FoldExists`), whose properties go by a least counterexample: an induction
  over a set of numbers, which needs no parameter.
- `WarehouseProofs`. `WarehouseSafely` and `NothingTakenBack`, component by
  component. `DailyInv`: a task ran after what it waits for, what is dead has a
  reason upstream, and the shared schedule tables hold the date's own, or the
  prior date's, schedule between the tasks that say so; so a successful run has
  no failed task although the restoration runs whatever failed. `RawInv`: a
  part's rows are there once if its job is done. `CorrectionInv`: a controller
  has seen every earlier date succeed, hence nothing is rewritten once the
  refresh runs. `ReportsInv`: a stored report says at least what any copy of it
  says, and the same at the same generation; a task that publishes knows which
  history it read. `IncidentsInv`: what the monitor carries from hour to hour
  are the last minutes of the hour, an open incident has lasted its duration by
  then and began before the good minutes that may close it, and a report is one
  the next hour can read. An evaluation walks the minutes by a fold; `WalkOK`
  says after each minute that the bad and the good tail are exactly the last
  minutes of their kind, that every run of bad minutes so far is in an
  interval, and that events open and close in turn, each after a run that
  earned it. The intervals, the tails kept for the next hour and the status are
  read off the walk at its end (`ReportedSays`).

The same facts about least numbers, induction and folds open the last three
modules: a module that extended another's proofs would have them, and all that
module's lemmas, at every leaf, and take several times as long to check.

The assumptions are those the modules state as ASSUME: `RawAssumption`,
`DailyAssumption`, `CorrectionAssumption`, `MapAssumption`,
`PlannerAssumption`, `ReportsAssumption`, `IncidentsAssumption`,
`ScheduleAssumption`, `DutyAssumption`, `RunAssumption`, `CacheAssumption`, `NetworkAssumption`,
`StatusAssumption`, `TimesAssumption`, `GtfsAssumption` and the ones of the
first five modules. They say that numbers are numbers, limits positive and names
distinct from the sentinels, that pings and vehicles are finitely many and a
vehicle's pings in order of time, and two relations the code's constants have: fewer
days are warmed than cached (3 and 4), and a poller is called silent after no
less than a heartbeat and a TTL (180 s, 60 s and 30 s). `TimesAssumption` says
what the timetable's load and the calibration's reader make sure of: stops and
expected times do not go back along a trip. `IncidentsAssumption` asks of the
report a monitor starts from that it says what the monitor's own say
(`Written`), and that an incident's duration fits in an hour. The inductive
invariants stand in the modules they are about, or open the proof; TLC
has checked those of the modules on the instances of the runs before they were
proved.

Only model-checked:

- Liveness (`EventuallyArchived`, `ClosedHourRetired`, `LaterExportPublishes`,
  `NoStandoff`, `RetryPublishes`, `EventuallyLoaded`): the prover does not do
  fairness.
- `JourneysSound` and `EvidenceSound` (of which `BacklogBounded` proves the
  poller's part). The searches and dynamic programs of `RouteSearch` and
  `StopAlignment`, and the best path of `DutyOwnership` (`BestPath`,
  `TrimLosesOnlySilent`), choose, by order, among histories that are folds of folds over
  data; that they equal their reference definitions for every input is an
  induction over data with a strengthened claim per fold. The library's induction
  theorems cannot be used for it (they take an operator), and the inductions over
  a set that `ArtifactsProofs` and `WarehouseProofs` get by with have not been
  tried on programs of this size. `TripFacts` builds on `StopAlignment`. What
  `LiveVehicles` says compares the code with vehicles that drive, over the whole
  history of the fixes.
- `MCComponents`' `TypeOK`, which has the types of these components too.

## 6. What is not modelled, and why

Within the modelled parts:

- Poller: loss of the page cache when the host crashes (the spool is renamed
  without fsync), clocks that go back, the heartbeat and live files.
- Counters: the format checks of a restored checkpoint.
- Serving: the mode without partitions, deletion of staging objects, the
  layout of older caches, the validator's own SQL, more than one sharded
  table, a partition dropped between its listing and its extraction.
- Exclusion: retries of gated tasks, queues of more than one run, an operator
  who clears single tasks, manual triggers of the guarded tasks.
- Publication: the download of inputs, validators of artifacts, schema and
  label checks, jobs and transactions that outlive their attempt into a later
  run, the expiry of query results after a day, other processing dates. A job
  that failed keeps its name and fails every retry; `RetryPublishes` says so
  by excluding it.
- GTFS: dbt's models of the schedule, the size and contents of a ZIP.
- Nightly build: what the SQL of a model computes beyond which date's rows it
  writes; more than the two dates a run touches.
- Correction: reading and formatting of request and plan files.
- Monitor: the statistics of baselines, the layout of the public page, the
  one-off seed; `FeedIncidents` has one vehicle type.
- Maps and planner: geometry, training, scoring and calibration are floating
  point; they are tasks that succeed or fail.
- Matcher: distances and the matching of a ping to a street are data; streets
  are a line.
- Frontend: the SQL of `queries.py` (it reads only), geocoding, texts,
  templates; shapes and interpolation of live vehicles.

Whole parts: the weekly audit, which only reads and reports; most dbt models,
which are declarative transformations without a protocol.
