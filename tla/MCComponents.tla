------------------------------ MODULE MCComponents -------------------------------
(* One run checks components that share no state, each over its own inputs: Init *)
(* picks one of them, its steps are the run's, and all take turns to use the      *)
(* variables of Slots.                                                           *)
EXTENDS Caches, Artifacts, Warehouse, Lists, Slots, TLC

CONSTANTS NoBoard, Inf, Buckets, SearchHorizon, Networks, Queries, MaxVehicles, SearchWindow,
  MaxEvents, Span, CourseInputs, Joins, DueTimes

R == INSTANCE RouteSearch WITH
       Horizon <- SearchHorizon, Window <- SearchWindow, net <- v1, query <- v2, lists <- v3,
       toTarget <- v4, walksOut <- v5, originBoard <- v6, step <- v7, plan <- v8, bounds <- v9,
       run <- v10, found <- v11

\* Two pings of one hour, repeated by later answers; the loop runs on long
\* enough for two periodic flushes.
P == INSTANCE Poller WITH
       Pings <- {1, 2}, ModeCount <- 1, ModeOf <- <<1, 1>>, TimeOf <- <<0, 2>>, HourLength <- 4,
       ShiftAt <- 0, ShiftBy <- 0,
       MaxAge <- 1, FutureTolerance <- 1, FlushLag <- 1, FlushInterval <- 2, SpoolCap <- 1,
       MaxBatch <- 1, MaxCopies <- 2, MaxClock <- 4, MaxDeaths <- 1, UploadsFail <- TRUE, pc <- v1,
       stopping <- v2, mode <- v3, accepted <- v4, clock <- v5, sinceFlush <- v6, cutoff <- v7,
       todo <- v8, flushOk <- v9, exit <- v10, buffers <- v11, spool <- v12, parts <- v13,
       deaths <- v14

\* Streets are a line in units of 25 m, costs are in sixtieths.
T == INSTANCE TripFacts WITH
       Courses <- CourseInputs, Regular <- 3, Expanded <- 10, Close <- 2, MaxGap <- 3,
       MaxSpeed <- 120, PreOwnership <- 2, Dwell <- 10, MaxStates <- 4, MaxCandidates <- 4,
       Missing <- 180, Ambiguity <- 15, ExpandedPenalty <- 15, ResidualWeight <- 4,
       DistanceWeight <- 60, MaxDelayChange <- 15, LargePingGap <- 2, TerminalTolerance <- 0,
       ProgressLag <- 2, LargeStopGap <- 2, MaxSpeedEvents <- 0, MaxSpeedSegments <- 1,
       course <- v1, candidates <- v2, beam <- v3, full <- v4, selected <- v5, ambiguous <- v6,
       at <- v7, fact <- v8

\* A vehicle on a duty of three trips and one that relieves it on the second, ten minutes a tick.
L == INSTANCE LiveVehicles WITH
       Due <- DueTimes, Vehicles <- {"v1", "v2"}, Silent <- {"v1"}, Length <- 2, BeforeTrip <- 4,
       AfterTrip <- 6, Earliest <- -1, Latest <- 6, Stuck <- 1, Memory <- 3, Speed <- 2,
       MaxTime <- 5, time <- v1, truth <- v2, feed <- v3, last <- v4, updatedAt <- v5, fixes <- v6,
       stood <- v7, followed <- v8, wrong <- v9, found <- v10, view <- v11, given <- v12

Init ==
  \/ which = "route" /\ R!Init /\ Unused(11)
  \/ which = "poller" /\ P!Init /\ Unused(14)
  \/ which = "course" /\ T!FactsInit /\ Unused(8)
  \/ which = "vehicles" /\ L!Init /\ Unused(12)
  \/ CachesInit
  \/ ArtifactsInit
  \/ WarehouseInit

Next ==
  \/ which = "route" /\ R!Next /\ StandStill(11) /\ UNCHANGED which
  \/ which = "poller" /\ P!Next /\ StandStill(14) /\ UNCHANGED which
  \/ which = "course" /\ T!FactsNext /\ StandStill(8) /\ UNCHANGED which
  \/ which = "vehicles" /\ L!Next /\ StandStill(12) /\ UNCHANGED which
  \/ CachesNext
  \/ ArtifactsNext
  \/ WarehouseNext

Spec == Init /\ [][Next]_vars

TypeOK ==
  /\ which = "route" => R!TypeOK
  /\ which = "poller" => P!TypeOK
  /\ which = "course" => T!TypeOK
  /\ which = "vehicles" => L!TypeOK
  /\ CachesTypeOK
  /\ ArtifactsTypeOK
  /\ WarehouseTypeOK

\* What a passenger is shown: the search loses no journey of the front and promises no
\* bound that a journey breaks, also on patched networks (RouteSearch); a vehicle is read
\* as on its trip and one view shows one feed object (LiveVehicles).
JourneysSound ==
  /\ which = "route" =>
        /\ R!FrontComplete /\ R!BoundsHold /\ R!PatchedListsBuilt
  /\ which = "vehicles" =>
        /\ L!TripKept /\ L!StuckServesNothing /\ L!RunnerHolds /\ L!OneObject

\* What is made of the vehicles' positions: memory and spool stay bounded while they are
\* collected (Poller); the stops' crossings are a best alignment, in order, within
\* ownership, and the facts agree with them (StopAlignment, TripFacts); reading less
\* loses only what a silent vehicle drove, and a duty has its best path (DutyOwnership).
EvidenceSound ==
  /\ which = "poller" => P!BoundedBacklog
  /\ which = "course" =>
        /\ T!BestAlignment /\ T!PassengerOrder /\ T!WithinOwnership /\ T!AmbiguityJustified
        /\ T!CoherentDelays /\ T!MissedOnEvidence /\ T!FactsAgree /\ T!CompleteIsFollowed
  /\ which = "duty" =>
        /\ D!TrimLosesOnlySilent /\ D!BestPath

\* Component correction on its own, with a property its runs do not have.
CorrectionSpec == which = "correction" /\ Init /\ [][Next]_vars
NewExport == which = "correction" => Y!NewExport

--------------------------------------------------------------------------------
(* Networks: times count from 0, a trip's late bound is later by `late`. *)

Pattern(stops, alights) == [stops |-> stops, alights |-> alights]
Trip(p, start, cum, late) ==
  LET times == [i \in DOMAIN cum |-> start + cum[i]]
  IN  [pattern |-> p, board |-> times, expected |-> times, base |-> [i \in DOMAIN cum |-> times[i] + late], cum |-> cum]
Net(patterns, trips, walks) == [nstops |-> 5, patterns |-> patterns, trips |-> trips, walks |-> walks]

\* From 1 to 5 by way of 2 and of 3, posts near each other.
Family ==
  {Net(<<Pattern(<<1, 2, 5>>, {2, 3}), Pattern(<<3, 5>>, {2}), Pattern(<<2, 3>>, {2}), Pattern(<<1, 3>>, {2})>>,
       <<Trip(1, a, <<0, r, r + 2>>, 0), Trip(1, 3, <<0, 1, 2>>, l), Trip(2, b, <<0, 2>>, 0), Trip(2, 4, <<0, 1>>, 0),
         Trip(3, 2, <<0, 1>>, 0), Trip(4, a + 1, <<0, 1>>, l)>>,
       << << <<2, 2>> >>, << <<3, w>> >>, << <<2, 1>> >>, <<>>, <<>> >>) :
     a \in 0 .. 1, r \in 1 .. 2, l \in 0 .. 1, b \in {2, 4}, w \in 1 .. 2}

\* Loops, walks from the target and crossing lines.
Crossing ==
  Net(<<Pattern(<<5, 4>>, {2}), Pattern(<<4, 2, 1, 5>>, {2, 3, 4}), Pattern(<<3, 1, 4, 5>>, {3, 4}), Pattern(<<3, 5>>, {2})>>,
      <<Trip(1, 0, <<0, 2>>, 1), Trip(2, 6, <<0, 3, 6, 8>>, 2), Trip(3, 2, <<0, 1, 2, 5>>, 0), Trip(4, 2, <<0, 3>>, 0),
        Trip(4, 1, <<0, 1>>, 1), Trip(4, 3, <<0, 1>>, 0), Trip(4, 0, <<0, 1>>, 1), Trip(2, 4, <<0, 3, 4, 5>>, 2)>>,
      << <<>>, << <<3, 3>>, <<4, 2>> >>, << <<1, 1>>, <<2, 2>>, <<5, 3>> >>, << <<5, 1>> >>, << <<2, 2>> >> >>)
Overtaking ==
  Net(<<Pattern(<<4, 1>>, {2}), Pattern(<<3, 1>>, {2}), Pattern(<<4, 1, 5>>, {2, 3}), Pattern(<<1, 3, 5>>, {2, 3}), Pattern(<<3, 5, 1>>, {2, 3})>>,
      <<Trip(1, 0, <<0, 3>>, 2), Trip(2, 2, <<0, 2>>, 2), Trip(3, 5, <<0, 3, 6>>, 1), Trip(4, 4, <<0, 2, 5>>, 2),
        Trip(5, 4, <<0, 2, 3>>, 1), Trip(2, 6, <<0, 3>>, 1), Trip(2, 0, <<0, 1>>, 1)>>,
      << << <<4, 1>>, <<5, 1>> >>, << <<1, 2>> >>, << <<1, 3>> >>, << <<2, 2>>, <<5, 3>> >>, << <<1, 3>> >> >>)
Onward ==
  Net(<<Pattern(<<3, 5, 4>>, {2, 3}), Pattern(<<2, 1, 5, 3>>, {3, 4}), Pattern(<<3, 1, 4>>, {2, 3}), Pattern(<<1, 5, 2>>, {2, 3})>>,
      <<Trip(1, 5, <<0, 2, 5>>, 2), Trip(2, 3, <<0, 2, 5, 7>>, 0), Trip(3, 0, <<0, 3, 4>>, 0), Trip(4, 6, <<0, 3, 6>>, 0),
        Trip(4, 4, <<0, 1, 3>>, 2), Trip(4, 4, <<0, 1, 3>>, 0), Trip(1, 2, <<0, 1, 4>>, 2), Trip(4, 3, <<0, 1, 3>>, 2)>>,
      << <<>>, << <<5, 2>> >>, << <<2, 3>>, <<5, 1>> >>, << <<3, 2>>, <<5, 3>> >>, << <<1, 1>>, <<4, 3>> >> >>)
MCNetworks == Family \union {Crossing, Overtaking, Onward}

\* From a group, from two posts, with live patches, and between two points.
FromGroup == [origins |-> <<1>>, access |-> <<>>, targets |-> (5 :> 0), egress |-> FALSE, after |-> 0, results |-> 3, patch |-> <<>>]
MCQueries ==
  {FromGroup, [FromGroup EXCEPT !.origins = <<1, 2>>],
   [FromGroup EXCEPT !.results = 2, !.patch = << <<2, 1, 1, 4, 4>>, <<5, 1, 100, 3, 3>>, <<3, 1, 4, 4, 5>> >>],
   [FromGroup EXCEPT !.origins = <<>>, !.access = << <<1, 1>>, <<2, 2>> >>, !.targets = (4 :> 2 @@ 5 :> 1), !.egress = TRUE]}
MCBuckets == << <<0, 2, 2>>, <<2, 4, 1>> >>

--------------------------------------------------------------------------------
(* Courses: a vehicle that drives, halts, turns back, crawls or leaps along them. *)

Stop(pos, time, passenger, request) == [pos |-> pos, time |-> time, passenger |-> passenger, request |-> request]
Straight == <<Stop(0, 0, TRUE, FALSE), Stop(12, 2, TRUE, FALSE), Stop(24, 4, TRUE, FALSE), Stop(30, 5, FALSE, FALSE)>>
\* The loop's third stop has no place (Nowhere).
Loop == <<Stop(0, 0, TRUE, FALSE), Stop(6, 1, TRUE, TRUE), Stop(-1000, 4, TRUE, FALSE), Stop(6, 20, TRUE, FALSE)>>
Technical == <<Stop(-10, 0, FALSE, FALSE), Stop(2, 0, TRUE, FALSE), Stop(10, 2, TRUE, FALSE), Stop(28, 24, TRUE, FALSE)>>
Early == [i \in DOMAIN Straight |-> [Straight[i] EXCEPT !.time = @ - 14]]
OnRequest == [i \in DOMAIN Straight |-> [Straight[i] EXCEPT !.request = TRUE]]
Long == <<Stop(0, 0, TRUE, FALSE), Stop(6, 1, TRUE, FALSE), Stop(12, 2, TRUE, TRUE), Stop(18, 3, TRUE, FALSE), Stop(24, 4, TRUE, FALSE)>>

Ways == {<<a, b, c, d, e, f>> : a \in {0, 8}, b \in {-2, 10}, c \in {8, -8}, d \in {4, 12}, e \in {0, 10, -12}, f \in {0, 12}}
Track(way, gaps) ==
  LET Sum(s, k) == Fold(LAMBDA n, j : n + s[j], 0, [j \in 1 .. k |-> j])
  IN  [k \in 1 .. Len(way) + 1 |-> <<Sum(gaps, k - 1), Sum(way, k - 1) - 4>>]
Owned(from, to, eligible, settled) ==
  [eligible |-> eligible, from |-> from, to |-> to, sourceFrom |-> 0, sourceTo |-> 40, settled |-> settled]
Driven(stops, exec, gaps) == {[exec |-> exec, stops |-> stops, pings |-> Track(w, gaps)] : w \in Ways}
MCCourses ==
  UNION {Driven(s, Owned(2, 5, TRUE, TRUE), g) :
           s \in {Straight, Loop, Technical, Early, OnRequest}, g \in {<<1, 1, 1, 1, 1, 1>>, <<1, 1, 1, 2, 3, 4>>}}
  \union UNION {Driven(Long, Owned(2, 9, TRUE, b), g) : b \in BOOLEAN, g \in {<<1, 1, 1, 1, 1, 1>>, <<1, 1, 1, 3, 1, 1>>}}
  \union Driven(Straight, Owned(2, 5, FALSE, TRUE), <<1, 1, 1, 1, 1, 1>>)

--------------------------------------------------------------------------------
MCEarly == <<2, 3>>
MCLate == <<4, 5>>
MCOverrun == <<2, 3>>

(* Days: one vehicle's pings vary, another is slow, fast or turns at once. *)

At(near, passenger) == [near |-> near, passenger |-> passenger]
CourseOf(from, to, start, end) ==
  [line |-> "1", dispatched |-> FALSE, start |-> start, end |-> end, settled |-> TRUE, fallback |-> FALSE,
   stops |-> <<At("D", FALSE), At(from, TRUE), At(to, TRUE), At("", TRUE)>>]
There(s) == CourseOf("A", "B", s, s + 2)
Back(s) == CourseOf("B", "A", s, s + 2)
Shuttle == <<There(1), Back(4), There(7)>>
Again == <<There(2), Back(5)>>
Rounds == <<CourseOf("A", "A", 1, 4), CourseOf("A", "A", 5, 8)>>
Mixed == <<There(1), [Back(3) EXCEPT !.settled = FALSE, !.line = "Z2", !.dispatched = TRUE], [There(6) EXCEPT !.fallback = TRUE]>>
\* Courses of two duties that meet or lie within each other.
Parts == {<< <<CourseOf("A", "M", 0, 3)>>, <<CourseOf("N", "B", 3, 5)>> >>,
          << <<CourseOf("A", "B", 0, 5)>>, <<CourseOf("M", "N", 2, 4), CourseOf("N", "B", 4, 6)>> >>}

Seen(places, times) == [k \in DOMAIN places |-> [time |-> times[k], near |-> places[k], line |-> "1"]]
Even == <<0, 1, 2, 3, 5, 6, 8, 9, 10>>
Delayed == <<1, 2, 3, 5, 6, 7, 8, 9, 10>>
Where == {{}, {"A"}, {"B"}}
Runs == {<<{"A"}, {}, a, b, {}, c, d, {}, e>> : a \in Where, b \in Where, c \in Where, d \in Where, e \in Where}
Through == {<<{"A"}, a, b, c, d, {"B"}>> : a, b, c, d \in {{}, {"A"}, {"M"}, {"N"}, {"B"}}}
Seconds ==
  {<<>>, Seen(<<{"A"}, {"A"}, {}, {}, {"B"}, {}, {}, {"A"}, {}>>, Even),
   Seen(<<{"A"}, {}, {"B"}, {}, {"A"}, {}, {"B"}, {"B"}, {}>>, Even),
   Seen(<<{"A"}, {}, {"B"}, {"B"}, {}, {"A"}, {}, {"B"}, {"B"}>>, Even)}
\* Seen at the terminal long before it leaves, with or without a sign of another line; the
\* window of a course at 21 begins at 5, that of one at 12 of another duty before 0.
Waiting(first, leaves) ==
  {Seen(<<{"A"}, {}, {"B"}>>, <<first, leaves, leaves + 3>>), Seen(<<{"A"}, {"A"}, {}, {"B"}>>, <<3, first, leaves, leaves + 2>>),
   [Seen(<<{"A"}, {"A"}, {}, {"B"}>>, <<first, 12, leaves, leaves + 3>>) EXCEPT ![2].line = "2"]}
Evenings == {<< <<There(21)>> >>, << <<There(21)>>, <<There(12)>> >>, << <<There(21), Back(25)>>, <<There(33)>> >>}
MCDays ==
  {[duties |-> d, tracks |-> <<w, <<>> >>] : d \in Evenings, w \in UNION {Waiting(f, l) : f \in {4, 5}, l \in {18, 21, 24, 26}}}
  \union {[duties |-> d, tracks |-> <<Seen(p, Even), s>>] : d \in {<<Shuttle>>, <<Shuttle, Again>>}, p \in Runs, s \in Seconds}
  \union {[duties |-> <<Shuttle, Again>>, tracks |-> <<Seen(p, Delayed), <<>> >>] : p \in Runs}
  \union {[duties |-> <<Rounds, Mixed>>, tracks |-> <<Seen(p, Even), <<>> >>] : p \in Runs}
  \union {[duties |-> d, tracks |-> <<Seen(p, <<0, 1, 2, 3, 4, 5>>), <<>> >>] : p \in Through, d \in Parts}

--------------------------------------------------------------------------------
(* Feeds: trips between four posts of three groups, on the prior day, the day itself and across midnight. *)

Post(g, n, pickup, drop, time) == [post |-> <<g, n>>, pickup |-> pickup, drop |-> drop, arr |-> time, dep |-> time]
Board(g, n, time) == Post(g, n, 0, 0, time)
Closed(g, n, time) == Post(g, n, 1, 1, time)
TripOf(block, line, service, stops) ==
  [block |-> block, line |-> line, brigade |-> 1, dir |-> 0, mode |-> "bus", cemetery |-> FALSE, service |-> service, stops |-> stops]
Patterns(t) ==
  {<<Board(1, 1, t), Board(1, 2, t + 1), Board(2, 1, t + 2)>>, <<Board(2, 1, t), Board(1, 1, t + 1)>>,
   <<Board(2, 1, t), Board(1, 2, t + 1), Board(1, 1, t + 2)>>, <<Board(1, 2, t), Board(2, 1, t + 1)>>, <<Board(1, 1, t), Board(3, 1, t + 6)>>,
   <<Closed(1, 1, t), Board(1, 2, t + 1), Closed(2, 1, t + 2), Board(3, 1, t + 6)>>, <<Closed(1, 1, t), Closed(1, 2, t + 1)>>, <<>>}
Feed(trips, line, origin) ==
  [trips |-> trips, line |-> line, active |-> {<<"a", 1>>, <<"a", 2>>, <<"b", 2>>, <<"c", 1>>}, origin |-> origin, day |-> <<24, 48>>,
   located |-> {<<1, 1>>, <<1, 2>>, <<2, 1>>}, zone1 |-> {<<1, 1>>, <<1, 2>>, <<2, 1>>}]
Later(t) == {<<"d", "1", "b", p>> : p \in Patterns(t)} \union {<<"", "1", "b", p>> : p \in Patterns(t)} \union {<<"d", "2", "a", p>> : p \in Patterns(t)}
Made(x) == TripOf(x[1], x[2], x[3], x[4])
MCFeeds ==
  {Feed(<<TripOf(b, "1", "b", p), Made(q), Made(r)>>, line, <<0, o>>) :
      b \in {"d", ""}, p \in Patterns(8), q \in Later(10), r \in {x \in Later(9) : x[1] = "d" /\ Len(x[4]) \in {0, 2}}, line \in {"", "2"}, o \in {24}}
  \union {Feed(<<TripOf("d", "1", s, p), TripOf("d", "1", "c", q)>>, "", o) :
      s \in {"a", "c", "x"}, p \in Patterns(22), q \in UNION {Patterns(t) : t \in {21, 23, 24}}, o \in {<<0, 24>>, <<0, 23>>, <<-1, 24>>}}

--------------------------------------------------------------------------------
(* Jobs: up to four vehicles with courses of no row to three, and up to three workers. *)

Rows(known, n, p) == [accepted |-> known, operational |-> n, passenger |-> p]
Vehicle(times, courses) == [times |-> times, courses |-> courses]
Fleets ==
  {<<>>, <<Vehicle(<<1>>, <<Rows(TRUE, 3, 2)>>)>>}
  \union {<<Vehicle(<<1, 2, 2, 3>>, <<Rows(TRUE, 1, 0), Rows(FALSE, 1, 1), Rows(TRUE, m, 1)>>), Vehicle(<<2, 9>>, <<Rows(TRUE, n, 1)>>), v>> :
            m \in {0, 2}, n \in {1, 3}, v \in {Vehicle(<<1>>, <<Rows(TRUE, 1, 1)>>), Vehicle(<<9>>, <<Rows(TRUE, 1, 1)>>), Vehicle(<<1, 2, 3, 4>>, <<>>)}}
  \union {<<Vehicle(<<1>>, <<Rows(TRUE, 1, 1)>>), Vehicle(<<1>>, <<>>), Vehicle(<<1>>, <<Rows(TRUE, 2, 2)>>),
            Vehicle(<<1, 2, 3>>, <<Rows(TRUE, 3, 1), Rows(TRUE, 1, 1)>>), Vehicle(<<2>>, <<Rows(TRUE, k, 1)>>)>> : k \in 0 .. 2}
MCJobs ==
  {[vehicles |-> f, workers |-> w, only |-> o, dates |-> {1, 2, 3, 4}] : f \in Fleets, w \in 0 .. 3, o \in {0, 1}}

--------------------------------------------------------------------------------
(* An hour of a vehicle type: what its minutes show, and the usual fleet of each. *)

MCSummaries ==
  {<<a, b, c>> : a, b, c \in {"good", "low"}}
  \union {<<"failing", "failing", "good">>, <<"low", "failing", "good">>, <<"empty", "absent", "low">>}
  \union {<<"absent", "good", "low">>, <<"absent", "absent", "absent">>, <<"good", "good", "absent">>}
MCAmended == {<<"good", "low", "low">>}
MCBaselines == {<<"judged", "judged", "judged">>, <<"quiet", "judged", "quiet">>, <<"none", "none", "none">>}
MCStarts == {0, 9}
Idle == [status |-> "warming_up", baseline |-> <<"none", "none", "none">>, intervals |-> <<>>, events |-> <<>>, active |-> <<>>,
         bad |-> <<>>, good |-> <<>>, resetAt |-> -1, monitoring |-> [active |-> <<>>, gap |-> <<>>, good |-> <<>>], recent |-> <<>>]
Open(reason) == [Idle EXCEPT !.active = <<[start |-> 0, reason |-> reason]>>, !.good = <<2>>]
MCSeeds == {Idle, Open("low_fleet"), Open("stale_heavy")}

--------------------------------------------------------------------------------
(* Requests: ranges of dates 0 to 5, some with excluded or unmapped dates. *)

MCRequests ==
  {[start |-> s, end |-> e, through |-> t, excluded |-> x, mapped |-> m] :
     s \in {0, 2}, e \in {1, 2, 3}, t \in {2, 4}, x \in {{}, {1}, {0, 3}}, m \in {0 .. 5, 1 .. 5}}

--------------------------------------------------------------------------------
(* Two artifacts; the second one no longer has the first day. *)

MCCovers == <<1 .. 2, 2 .. 3>>

--------------------------------------------------------------------------------
(* Each date has a snapshot of its own. Of two trips a run matches both vehicles of   *)
(* the one, or each trip once: a rerun finds the trip driven otherwise, or not at all. *)
MCGoverning == <<"s1", "s2">>
MCMatches == {{<<"t", 1>>, <<"t", 2>>}, {<<"t", 1>>, <<"u", 1>>}}
MCTraversals == UNION MCMatches

--------------------------------------------------------------------------------
MCTables == <<"planner_trip", "planner_stop">>

--------------------------------------------------------------------------------
(* Vehicles: the relief stands at the far end. *)
MCJoins == <<<<"v1", 1>>, <<"v2", 2>>>>
MCDue == <<1, 4, 7>>

--------------------------------------------------------------------------------
(* Duties and calibrations *)

Course(start, slack) ==
  [sched |-> <<start, start + 4, start + 8, start + 14>>, expected |-> <<start, start + 4 + slack, start + 9, start + 16>>,
   board |-> <<start - 1, start + 3, start + 8, 999>>, late |-> <<start + 2, start + 8, start + 14, start + 22>>,
   dist |-> <<0, 4, 8, 12>>]
MCDelays == {-6, -1, 0, 3, 8, 20}
MCDuties == {<<Course(10, 1), Course(n, s)>> : n \in {26, 34}, s \in {0, 2}}
MCCalibrations ==
  {[horizons |-> <<4, 10>>, alphas |-> <<2, a>>, bands |-> <<<<0>>, <<0, 5>>>>,
    errors |-> <<<<<<-2, m, 3>>>>, <<<<-3, 0, 4>>, <<-4, n, 2>>>>>>, turnaround |-> 2] : a \in {0, 1}, m \in {-1, 1}, n \in {-2, 0}}

--------------------------------------------------------------------------------
(* What the monitor publishes *)

MCEvaluations == {[usual |-> "day", ongoing |-> TRUE]}
==================================================================================
