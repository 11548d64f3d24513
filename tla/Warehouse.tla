-------------------------------- MODULE Warehouse --------------------------------
(* What the scheduled tasks do to what they keep in BigQuery and in the bucket: the *)
(* nightly build (DailyWarehouse), the raw load (RawGpsLoad), corrections of past   *)
(* dates (HistoricalCorrection), the health reports (HealthReports) and what is in  *)
(* them (FeedIncidents). They share no state here; a behaviour is one of theirs.    *)
EXTENDS Lists, Slots

CONSTANTS
  \* DailyWarehouse's
  ProcessingDates, ExcludedDates, Governing, ScheduledTrips, MatchedTrips, MaxRuns,
  \* RawGpsLoad's
  GpsParts, Loaders, MaxLoads, MaxLoadErrors,
  \* HistoricalCorrection's
  Controllers, Requests, MaxDays, MaxRefreshDays, EarliestDate, MaxStarts, MaxFailures,
  \* HealthReports's
  Reporters, EventIds, ReportHours, OutboxHours, MaxAlertJobs,
  \* FeedIncidents's
  MinutesPerHour, Duration, MaxRecent, Summaries, Amended, Baselines, CollectionStarts, Seeds, MaxReportHour

W == INSTANCE DailyWarehouse WITH
       Days <- ProcessingDates, Excluded <- ExcludedDates, Trips <- ScheduledTrips, run <- v1,
       done <- v2, failed <- v3, dead <- v4, ended <- v5, tables <- v6, unsent <- v7, closed <- v8,
       runs <- v9, faults <- v10
ASSUME DailyHolds == W!DailyAssumption

B == INSTANCE RawGpsLoad WITH
       Parts <- GpsParts, MaxTries <- MaxLoads, MaxErrors <- MaxLoadErrors, uploaded <- v1,
       jobs <- v2, rows <- v3, task <- v4, tries <- v5, errors <- v6
ASSUME RawHolds == B!RawAssumption

Y == INSTANCE HistoricalCorrection WITH
       Eligible <- EarliestDate, request <- v1, plan <- v2, daily <- v3, refresh <- v4,
       exports <- v5, unserved <- v6, ctl <- v7, starts <- v8, failures <- v9, retries <- v10
ASSUME CorrectionHolds == Y!CorrectionAssumption

H == INSTANCE HealthReports WITH
       Workers <- Reporters, Ids <- EventIds, Hours <- ReportHours, Window <- OutboxHours,
       MaxJobs <- MaxAlertJobs, report <- v1, rows <- v2, history <- v3, received <- v4,
       logged <- v5, job <- v6, started <- v7, drained <- v8, resets <- v9
ASSUME ReportsHold == H!ReportsAssumption

I == INSTANCE FeedIncidents WITH
       Starts <- CollectionStarts, MaxHour <- MaxReportHour, hour <- v1, started <- v2,
       summary <- v3, before <- v4, prior <- v5, report <- v6
ASSUME IncidentsHold == I!IncidentsAssumption

WarehouseInit ==
  \/ which = "daily" /\ W!Init /\ Unused(10)
  \/ which = "raw" /\ B!Init /\ Unused(6)
  \/ which = "correction" /\ Y!Init /\ Unused(10)
  \/ which = "reports" /\ H!Init /\ Unused(9)
  \/ which = "incidents" /\ I!Init /\ Unused(6)

WarehouseNext ==
  \/ which = "daily" /\ W!Next /\ StandStill(10) /\ UNCHANGED which
  \/ which = "raw" /\ B!Next /\ StandStill(6) /\ UNCHANGED which
  \/ which = "correction" /\ Y!Next /\ StandStill(10) /\ UNCHANGED which
  \/ which = "reports" /\ H!Next /\ StandStill(9) /\ UNCHANGED which
  \/ which = "incidents" /\ I!Next /\ StandStill(6) /\ UNCHANGED which

WarehouseSpec == WarehouseInit /\ [][WarehouseNext]_vars

WarehouseTypeOK ==
  /\ which = "daily" => W!TypeOK
  /\ which = "raw" => B!TypeOK
  /\ which = "correction" => Y!TypeOK
  /\ which = "reports" => H!TypeOK
  /\ which = "incidents" => I!TypeOK

\* What the warehouse and the bucket hold and give away: a night swallows no failure and
\* a status means final facts (DailyWarehouse), parts are appended once (RawGpsLoad), a
\* correction's refresh covers every date it rewrote (HistoricalCorrection), alerts are
\* acknowledged only when received, and a finished task leaves nothing pending
\* (HealthReports), outages and recoveries are seen once and only when earned
\* (FeedIncidents).
WarehouseSound ==
  /\ which = "daily" =>
        /\ W!NoSilentFailure /\ W!OncePerTrip /\ W!OwnSchedule /\ W!StatusMeansFinal
        /\ W!MartsFollow
  /\ which = "raw" =>
        /\ B!AppendedOnce /\ B!EmittedLoaded
  /\ which = "correction" =>
        /\ Y!PlanCovers /\ Y!RefreshLast /\ Y!SuccessMeansServed
  /\ which = "reports" =>
        /\ H!PublishedAgrees /\ H!AckHonest /\ H!NotRepeated /\ H!SuccessMeansDrained
        /\ H!ResetHonoured
  /\ which = "incidents" =>
        /\ I!ReportReadable /\ I!NothingMissed /\ I!IncidentEarned /\ I!RecoveryEarned
        /\ I!EventsAlternate /\ I!HealthyMeansWatched

\* What no step may take back: completed facts (DailyWarehouse), a refresh that goes well
\* (HistoricalCorrection), a created report and a newer history (HealthReports).
NothingUndone == [][
    /\ which = "daily" => W!Kept
    /\ which = "correction" => Y!RefreshStands
    /\ which = "reports" =>
          /\ H!FrozenStands /\ H!HistoryForward]_vars
==================================================================================
