--------------------------------- MODULE Caches ----------------------------------
(* What is read through a copy of it: journeys computed once by the threads of the *)
(* frontend (RouteCache), its copies of the public status objects (LiveStatus), the *)
(* times of a vehicle on the road, by the calibration last read (LiveTimes), the    *)
(* months of the route map and the pages made of them (RouteMap), and the planner's *)
(* bundles, taken through a local cache (PlannerPipeline). They share no state; a   *)
(* behaviour is one of theirs.                                                      *)
EXTENDS Lists, Slots

CONSTANTS
  \* RouteCache's
  Callers, JourneyKeys, CompletedLimit, InflightLimit, MaxCalls,
  \* LiveStatus's
  LiveTtl, HistoryTtl, SilentAfter, StaleAfter, Beat, HistoryHour, FleetReports, Evaluations,
  MaxTime, MaxTroubles,
  \* LiveTimes's
  Unboardable, PassedM, Tolerance, LeaveLaterWithin, Calibrations, Duties, Delays, Lags,
  \* RouteMap's
  MonthLength, Pages, MaxBuilds,
  \* PlannerPipeline's
  Tables, MaxTrains, MaxScores

K == INSTANCE RouteCache WITH
       Keys <- JourneyKeys, completed <- v1, inflight <- v2, outcome <- v3, caller <- v4,
       calls <- v5
ASSUME CacheHolds == K!CacheAssumption

Z == INSTANCE LiveStatus WITH
       Hour <- HistoryHour, Reports <- FleetReports, now <- v1, live <- v2, history <- v3, up <- v4,
       beating <- v5, readable <- v6, since <- v7, cached <- v8, panel <- v9, troubles <- v10
ASSUME StatusHolds == Z!StatusAssumption

Q == INSTANCE LiveTimes WITH
       NoBoard <- Unboardable, duty <- v1, calibration <- v2, fix <- v3, now <- v4, starts <- v5,
       out <- v6, at <- v7
ASSUME TimesHold == Q!TimesAssumption

J == INSTANCE RouteMap WITH
       Length <- MonthLength, night <- v1, lost <- v2, facts <- v3, build <- v4, month <- v5,
       retired <- v6, clock <- v7, cache <- v8, page <- v9, builds <- v10, troubles <- v11
ASSUME MapHolds == J!MapAssumption

O == INSTANCE PlannerPipeline WITH
       MaxTries <- MaxScores, week <- v1, training <- v2, tasks <- v3, better <- v4, models <- v5,
       current <- v6, score <- v7, bundles <- v8, partial <- v9, staged <- v10, artifact <- v11,
       tries <- v12
ASSUME PlannerHolds == O!PlannerAssumption

CachesInit ==
  \/ which = "cache" /\ K!Init /\ Unused(5)
  \/ which = "status" /\ Z!Init /\ Unused(10)
  \/ which = "times" /\ Q!Init /\ Unused(7)
  \/ which = "map" /\ J!Init /\ Unused(11)
  \/ which = "planner" /\ O!Init /\ Unused(12)

CachesNext ==
  \/ which = "cache" /\ K!Next /\ StandStill(5) /\ UNCHANGED which
  \/ which = "status" /\ Z!Next /\ StandStill(10) /\ UNCHANGED which
  \/ which = "times" /\ Q!Next /\ StandStill(7) /\ UNCHANGED which
  \/ which = "map" /\ J!Next /\ StandStill(11) /\ UNCHANGED which
  \/ which = "planner" /\ O!Next /\ StandStill(12) /\ UNCHANGED which

CachesSpec == CachesInit /\ [][CachesNext]_vars

CachesTypeOK ==
  /\ which = "cache" => K!TypeOK
  /\ which = "status" => Z!TypeOK
  /\ which = "times" => Q!TypeOK
  /\ which = "map" => J!TypeOK
  /\ which = "planner" => O!TypeOK

\* What is read through a copy: every waiter gets the outcome of a computation that was
\* under way, once (RouteCache); a poller is called offline, and a failing read believed,
\* only as long as they deserve it (LiveStatus); moved times stay in order and agree with
\* the plan (LiveTimes); months and model bundles are whole, final and the newest, and a
\* page shows the month that is there (RouteMap, PlannerPipeline).
CachesSound ==
  /\ which = "cache" =>
        /\ K!NoOldFailure /\ K!WaitersServed /\ K!ComputedOnce
  /\ which = "status" =>
        /\ Z!OfflineEarned /\ Z!FailureEnds /\ Z!OutageSeen /\ Z!IncidentFades
  /\ which = "times" =>
        /\ Q!StopsInOrder /\ Q!TimesAgree /\ Q!PlanHolds
  /\ which = "map" =>
        /\ J!MonthWhole /\ J!MonthFinal /\ J!MonthKept /\ J!FreshPage
  /\ which = "planner" =>
        /\ O!CurrentUsable /\ O!ArtifactWhole /\ O!NewestModel /\ O!OwnExtract
        /\ O!FailureVisible
==================================================================================
