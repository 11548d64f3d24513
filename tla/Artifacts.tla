-------------------------------- MODULE Artifacts --------------------------------
(* What is written whole and read whole: the schedule a matcher's run prepares      *)
(* (DutySchedule), the duties it settles (DutyOwnership), the run that aligns a day *)
(* and publishes it by one move (MatcherRun), and the networks the frontend builds  *)
(* from a published artifact (NetworkCache). They share no state; a behaviour is    *)
(* one of theirs.                                                                   *)
EXTENDS Lists, Slots

CONSTANTS
  \* DutySchedule's
  Feeds, GtfsRows,
  \* DutyOwnership's
  DutyInputs, Fleet, EpisodeGap, PathLimit, DiverseStates, TimingTie, ReanchorDelay,
  ReanchorAbsence, MaxEarly, MaxLate, MaxOverrun, WindowMargin,
  \* MatcherRun's
  Jobs, RowGroup, PingLimit, MaxAttempts,
  \* NetworkCache's
  RequestThreads, Covers, WarmDays, CachedDays, MaxToday, MaxRequests

C == INSTANCE DutySchedule WITH
       MaxRows <- GtfsRows, feed <- v1, kept <- v2, schedule <- v3, duty <- v4, classes <- v5,
       courses <- v6, universe <- v7, at <- v8
ASSUME ScheduleHolds == C!ScheduleAssumption

D == INSTANCE DutyOwnership WITH
       Days <- DutyInputs, Vehicles <- Fleet, MaxStates <- PathLimit, Margin <- WindowMargin,
       day <- v1, duty <- v2, evidence <- v3, states <- v4, aligned <- v5, cut <- v6,
       selected <- v7, outcomes <- v8, at <- v9
ASSUME DutyHolds == D!DutyAssumption

M == INSTANCE MatcherRun WITH
       Group <- RowGroup, MaxPings <- PingLimit, job <- v1, attempt <- v2, at <- v3, files <- v4,
       pings <- v5, worker <- v6, shards <- v7, merged <- v8, published <- v9, copied <- v10
ASSUME RunHolds == M!RunAssumption

N == INSTANCE NetworkCache WITH
       Threads <- RequestThreads, file <- v1, today <- v2, cache <- v3, pinned <- v4, builder <- v5,
       job <- v6, warm <- v7, done <- v8, requests <- v9
ASSUME NetworkHolds == N!NetworkAssumption

ArtifactsInit ==
  \/ which = "schedule" /\ C!Init /\ Unused(8)
  \/ which = "duty" /\ D!Init /\ Unused(9)
  \/ which = "run" /\ M!Init /\ Unused(10)
  \/ which = "networks" /\ N!Init /\ Unused(9)

ArtifactsNext ==
  \/ which = "schedule" /\ C!Next /\ StandStill(8) /\ UNCHANGED which
  \/ which = "duty" /\ D!Next /\ StandStill(9) /\ UNCHANGED which
  \/ which = "run" /\ M!Next /\ StandStill(10) /\ UNCHANGED which
  \/ which = "networks" /\ N!Next /\ StandStill(9) /\ UNCHANGED which

ArtifactsSpec == ArtifactsInit /\ [][ArtifactsNext]_vars

ArtifactsTypeOK ==
  /\ which = "schedule" => C!TypeOK
  /\ which = "duty" => D!TypeOK
  /\ which = "run" => M!TypeOK
  /\ which = "networks" => N!TypeOK

\* What is written whole and read whole: a day's schedule covers it and its stops keep
\* their class (DutySchedule); the courses a duty executed were run in order by one
\* vehicle, uncontested, and of a vehicle's intervals exactly those that overlap are
\* given up (DutyOwnership); the matcher's rows are those of every course for any number
\* of workers, whole or absent (MatcherRun); a request reads networks of one artifact,
\* and an idle warm-up has warmed the artifact at the path (NetworkCache).
ArtifactsSound ==
  /\ which = "schedule" =>
        /\ C!DayIsCovered /\ C!OverlapNoticed /\ C!PassengerCore /\ C!ShortOfSomething
        /\ C!DiagnosticAgrees
  /\ which = "duty" =>
        /\ D!DisjointTraversals /\ D!DutyInOrder /\ D!Uncontested /\ D!OwnedOnce
        /\ D!ClashesYield
  /\ which = "run" =>
        /\ M!SameForAnyWorkers /\ M!FullGroups /\ M!PublishedWhole /\ M!LimitAgrees
  /\ which = "networks" =>
        /\ N!OneSnapshot /\ N!IdleMeansWarm /\ N!CacheKept

\* What is settled stays: the first output of a run (MatcherRun), the pinned networks of
\* a publication (NetworkCache).
SettledStands == [][
    /\ which = "run" => M!FirstStands
    /\ which = "networks" => N!PinsHold]_vars
==================================================================================
