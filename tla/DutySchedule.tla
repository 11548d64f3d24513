------------------------------ MODULE DutySchedule -------------------------------
(* gtfs.py, semantics.py and the schedule half of runtime.py: the trips of a     *)
(* pinned snapshot that overlap a processing day are chained into duties, their  *)
(* stops are classified, and the courses' endpoints and the ranking universe are *)
(* derived. A stop is a post of a group, a trip's stops stand in the order of    *)
(* their sequence numbers, dates are 1 (the prior day) and 2 (the day itself).   *)
EXTENDS Lists

CONSTANTS
  Feeds,      \* snapshots: trips, active services, origins of the dates, the day's window, stops, the line asked for
  MaxRows     \* MAX_GTFS_ROWS

VARIABLES
  feed,       \* the snapshot
  kept,       \* trips whose stop times were materialized
  schedule,   \* select(): trips on service dates
  duty,       \* duties(): the segments, those asked for once Diagnose has run
  classes,    \* iter_stop_semantics(): the class of each stop of a segment
  courses,    \* .terminal_courses: first and last stop of a course
  universe,   \* trip_universe: short turns and ranked trips
  at          \* the step, or the error it ended with

vars == <<feed, kept, schedule, duty, classes, courses, universe, at>>

Dates == {1, 2}
ScheduledStops == [post : Int \X Int, pickup : Int, drop : Int, arr : Int, dep : Int]
ScheduleAssumption ==
  /\ MaxRows \in Nat
  /\ \A f \in Feeds :
       /\ f.origin \in [Dates -> Int] /\ f.day \in Int \X Int
       /\ f.trips \in Seq([block : STRING, line : STRING, brigade : Int, dir : Int, mode : STRING, cemetery : BOOLEAN,
                           service : STRING, stops : Seq(ScheduledStops)])

Trips == DOMAIN feed.trips
StopsOf(t) == feed.trips[t].stops
LowestOf(S) == CHOOSE x \in S : \A y \in S : x <= y
HighestOf(S) == CHOOSE x \in S : \A y \in S : x >= y

ActiveOn(t, d) == <<feed.trips[t].service, d>> \in feed.active
Times(t) == UNION {{StopsOf(t)[i].arr, StopsOf(t)[i].dep} : i \in DOMAIN StopsOf(t)}
Bounds(t) == <<LowestOf(Times(t)), HighestOf(Times(t))>>

\* A service date's times count from its noon less twelve hours.
Overlapping(d, bounds) ==
  feed.origin[d] + bounds[2] >= feed.day[1] /\ feed.origin[d] + bounds[1] < feed.day[2]

\* mutant: only trips of the processing date's own services are kept
Kept_OwnDate == {t \in Trips : StopsOf(t) # <<>> /\ ActiveOn(t, 2) /\ Overlapping(2, Bounds(t))}

Kept == {t \in Trips : StopsOf(t) # <<>> /\ \E d \in Dates : ActiveOn(t, d) /\ Overlapping(d, Bounds(t))}

\* load: whole trips are dropped before their stops are read, so that the limit is
\* on what the day needs.
Load ==
  /\ at = "load"
  /\ LET current == {t \in Trips : \E d \in Dates : ActiveOn(t, d)}
         rows == Fold(LAMBDA n, t : IF t \in Kept THEN n + Len(StopsOf(t)) ELSE n, 0, [t \in Trips |-> t])
     IN  /\ kept' = Kept
         /\ at' = IF rows > MaxRows THEN "resource_limit"
                  ELSE IF \A t \in current : StopsOf(t) = <<>> THEN "invalid_data"
                  ELSE "select"
  /\ UNCHANGED <<feed, schedule, duty, classes, courses, universe>>

Selected ==
  {[trip |-> p[1], date |-> p[2], start |-> Bounds(p[1])[1], end |-> Bounds(p[1])[2]] :
     p \in {p \in kept \X Dates : ActiveOn(p[1], p[2]) /\ Overlapping(p[2], Bounds(p[1]))}}

Select ==
  /\ at = "select"
  /\ schedule' = Selected
  /\ at' = IF \E d \in Dates : \A a \in feed.active : a[2] # d THEN "snapshot_mismatch"
           ELSE IF schedule' = {} THEN "invalid_output" ELSE "duties"
  /\ UNCHANGED <<feed, kept, duty, classes, courses, universe>>

--------------------------------------------------------------------------------
(* duties *)

Chain(s) ==
  LET t == feed.trips[s.trip]
  IN  IF t.block # "" THEN <<s.date, "block_id", t.block>> ELSE <<s.date, "line_brigade", t.line, t.brigade>>

Precedes(a, b) ==
  \/ a.start < b.start
  \/ a.start = b.start /\ (a.end < b.end \/ (a.end = b.end /\ a.trip < b.trip))

\* A post that allows neither boarding nor alighting.
Explicit(s) == s.pickup = 1 /\ s.drop = 1
Eligible(t) == {i \in DOMAIN StopsOf(t) : ~Explicit(StopsOf(t)[i])}

Overlaps(s, previous) == s.start < previous.end

\* The segment of s within the day's schedule S; next and previous are sets of at most one.
Segment(S, s) ==
  LET group == {x \in S : Chain(x) = Chain(s)}
      earlier == {x \in group : Precedes(x, s)}
      later == {x \in group : Precedes(s, x)}
      previous == {x \in earlier : \A y \in earlier : ~Precedes(x, y)}
      next == {x \in later : \A y \in later : ~Precedes(y, x)}
  IN  [trip |-> s.trip, date |-> s.date, chain |-> Chain(s), order |-> Cardinality(earlier) + 1,
       start |-> s.start, end |-> s.end,
       previous |-> {x.trip : x \in previous}, next |-> {x.trip : x \in next},
       layoverBefore |-> {s.start - x.end : x \in previous}, layoverAfter |-> {x.start - s.end : x \in next},
       depot |-> Eligible(s.trip) = {},
       malformed |-> (\E x \in previous : Overlaps(s, x)) \/ s.end < s.start \/ Len(StopsOf(s.trip)) < 2]

Segments == {Segment(schedule, s) : s \in schedule}

Chained ==
  /\ at = "duties"
  /\ duty' = Segments
  /\ at' = "diagnose"
  /\ UNCHANGED <<feed, kept, schedule, classes, courses, universe>>

\* The duties of D with a trip of the line.
Retained(D) ==
  LET targets == {r \in D : feed.trips[r.trip].line = feed.line}
  IN  {r \in D : \E x \in targets : r.chain = x.chain}

\* prepare_schedule: a diagnostic run retains the whole duties of the line asked for.
Diagnose ==
  /\ at = "diagnose"
  /\ duty' = IF feed.line = "" THEN duty ELSE Retained(duty)
  /\ at' = IF duty' = {} THEN "missing_input" ELSE "semantics"
  /\ UNCHANGED <<feed, kept, schedule, classes, courses, universe>>

--------------------------------------------------------------------------------
(* iter_stop_semantics *)

\* The segments D of a date, as the classification looks them up.
Of(D, r, trips) == {x \in D : x.date = r.date /\ x.trip \in trips}

SameGroup(a, b) == a.post # b.post /\ a.post[1] = b.post[1]
Prefix(D, r, i) ==
  LET stops == StopsOf(r.trip)
  IN  /\ i = 1 /\ Len(stops) > 1 /\ SameGroup(stops[1], stops[2])
      /\ \E x \in Of(D, r, r.previous) : StopsOf(x.trip)[Len(StopsOf(x.trip))].post = stops[1].post
Suffix(D, r, i) ==
  LET stops == StopsOf(r.trip)
      n == Len(stops)
  IN  /\ i = n /\ n > 1 /\ SameGroup(stops[n], stops[n - 1])
      /\ \E x \in Of(D, r, r.next) : StopsOf(x.trip)[1].post = stops[n].post

\* mutant: whether passengers still follow decides what an explicit stop is
ExplicitClass_After(r, i) ==
  IF \A j \in Eligible(r.trip) : j > i THEN "technical_prefix" ELSE "technical_suffix"

ExplicitClass(r, i) ==
  IF \A j \in Eligible(r.trip) : j > i THEN "technical_prefix"
  ELSE IF \A j \in Eligible(r.trip) : j < i THEN "technical_suffix"
  ELSE "unknown"

Class(D, r, i) ==
  IF r.depot THEN "technical_trip"
  ELSE IF Explicit(StopsOf(r.trip)[i]) THEN ExplicitClass(r, i)
  ELSE IF Prefix(D, r, i) /\ r.chain[2] = "block_id" /\ \A l \in r.layoverBefore : l >= 0 THEN "technical_prefix"
  ELSE IF Suffix(D, r, i) /\ r.chain[2] = "block_id" /\ \A l \in r.layoverAfter : l >= 0 THEN "technical_suffix"
  ELSE IF Prefix(D, r, i) \/ Suffix(D, r, i) THEN "unknown"
  ELSE "passenger"

Classes(D, r) == [i \in DOMAIN StopsOf(r.trip) |-> Class(D, r, i)]

Settled(r) == classes[r] = <<>> \/ (classes[r][1] # "unknown" /\ classes[r][Len(classes[r])] # "unknown")
PassengerStops(r) == {i \in DOMAIN classes[r] : classes[r][i] = "passenger" /\ Settled(r)}

Classify ==
  /\ at = "semantics"
  /\ classes' = [r \in duty |-> Classes(duty, r)]
  /\ at' = IF \A r \in duty : StopsOf(r.trip) = <<>> THEN "invalid_output" ELSE "universe"
  /\ UNCHANGED <<feed, kept, schedule, duty, courses, universe>>

--------------------------------------------------------------------------------
(* _write_trip_universe *)

Line(r) == feed.trips[r.trip].line
Public(r) == ~r.depot /\ ~r.malformed /\ PassengerStops(r) # {}
Posts(r) == [i \in DOMAIN StopsOf(r.trip) |-> StopsOf(r.trip)[i].post]
Group(r) == {x \in duty : feed.trips[x.trip].mode \in {"bus", "tram"}
                          /\ x.date = r.date /\ Line(x) = Line(r) /\ feed.trips[x.trip].dir = feed.trips[r.trip].dir}
Pair(r) == <<Posts(r)[1], Posts(r)[Len(Posts(r))]>>
PostLess(a, b) == a[1] < b[1] \/ (a[1] = b[1] /\ a[2] < b[2])

\* A terminal pair's rank among the public trips of a line's direction.
Rank(r) ==
  LET public == {x \in Group(r) : Public(x)}
      Count(p) == Cardinality({x \in public : Pair(x) = p})
      Before(p, q) == \/ Count(p) > Count(q)
                      \/ Count(p) = Count(q) /\ (PostLess(p[1], q[1]) \/ (p[1] = q[1] /\ PostLess(p[2], q[2])))
  IN  1 + Cardinality({p \in {Pair(x) : x \in public} : Before(p, Pair(r))})

Part(short, long) ==
  \E k \in 0 .. Len(long) - Len(short) : \A i \in DOMAIN short : short[i] = long[k + i]

ShortTurn(r) ==
  Public(r) /\ Rank(r) > 1 /\ \E x \in Group(r) : Public(x) /\ Len(Posts(x)) > Len(Posts(r)) /\ Part(Posts(r), Posts(x))

Ranked(r) ==
  /\ Public(r) /\ ~ShortTurn(r) /\ \A i \in DOMAIN Posts(r) : Posts(r)[i] \in feed.zone1
  /\ ~feed.trips[r.trip].cemetery

Universe ==
  LET rows == {r \in duty : feed.trips[r.trip].mode \in {"bus", "tram"}}
  IN  [short |-> {r \in rows : ShortTurn(r)}, ranked |-> {r \in rows : Ranked(r)}]

WriteUniverse ==
  /\ at = "universe"
  /\ universe' = Universe
  /\ at' = "endpoints"
  /\ UNCHANGED <<feed, kept, schedule, duty, classes, courses>>

\* Stops that may be a course's endpoints.
Usable(r) ==
  {i \in IF Settled(r) THEN PassengerStops(r) ELSE DOMAIN classes[r] : StopsOf(r.trip)[i].post \in feed.located}

Endpoints ==
  [r \in {x \in duty : StopsOf(x.trip) # <<>>} |->
     IF Usable(r) = {} THEN <<>> ELSE <<LowestOf(Usable(r)), HighestOf(Usable(r))>>]

WriteCourses ==
  /\ at = "endpoints"
  /\ courses' = Endpoints
  /\ at' = "done"
  /\ UNCHANGED <<feed, kept, schedule, duty, classes, universe>>

Empty == [short |-> {}, ranked |-> {}]
Init ==
  /\ feed \in Feeds
  /\ kept = {} /\ schedule = {} /\ duty = {} /\ classes = <<>> /\ courses = <<>>
  /\ universe = Empty /\ at = "load"

Failures == {"resource_limit", "invalid_data", "snapshot_mismatch", "invalid_output", "missing_input"}
Next ==
  \/ Load \/ Select \/ Chained \/ Diagnose \/ Classify \/ WriteUniverse \/ WriteCourses
  \/ at \in Failures \union {"done"} /\ UNCHANGED vars

Spec == Init /\ [][Next]_vars

TypeOK ==
  /\ kept \subseteq Trips
  /\ \A s \in schedule : s.trip \in Trips /\ s.date \in Dates
  /\ at \in {"load", "select", "duties", "diagnose", "semantics", "universe", "endpoints", "done"} \union Failures

--------------------------------------------------------------------------------
(* Properties *)

\* Dropping whole trips before their stops are read loses nothing the day needs:
\* every trip with a stop scheduled within the day, on either service date, is in
\* the schedule of a run that got past the selection.
DayIsCovered ==
  at \notin {"load", "select"} \union Failures =>
    \A t \in Trips, d \in Dates :
      ActiveOn(t, d) /\ (\E x \in Times(t) : feed.day[1] <= feed.origin[d] + x /\ feed.origin[d] + x < feed.day[2])
        => \E s \in schedule : s.trip = t /\ s.date = d

\* A segment is only compared with the one before it, yet no two segments of a duty
\* run at the same time unless one of that duty is marked malformed.
OverlapNoticed ==
  \A a, b \in duty :
    a.chain = b.chain /\ a # b /\ a.start < b.end /\ b.start < a.end =>
      \E x \in duty : x.chain = a.chain /\ x.malformed

\* Between the first and the last passenger stop of a course nothing is technical,
\* and the endpoints the query picks for its evidence are passenger stops that
\* leave no located passenger stop outside.
PassengerCore ==
  at \in {"universe", "endpoints", "done"} =>
    \A r \in duty :
      /\ \A i, j \in PassengerStops(r) : \A k \in i .. j : classes[r][k] \in {"passenger", "unknown"}
      /\ at = "done" /\ r \in DOMAIN courses /\ Settled(r) =>
           \A i \in PassengerStops(r) :
             StopsOf(r.trip)[i].post \in feed.located =>
               courses[r] # <<>> /\ courses[r][1] <= i /\ i <= courses[r][2]
      /\ at = "done" /\ r \in DOMAIN courses /\ courses[r] # <<>> =>
           \A k \in {1, 2} : StopsOf(r.trip)[courses[r][k]].post \in feed.located

\* A diagnostic run classifies the stops of what it retains as the whole day's run
\* does: the neighbours that decide a handoff are retained too.
DiagnosticAgrees ==
  at = "universe" =>
    \A r \in duty : classes[r] = Classes(Segments, r)

\* A short turn is always a part of some longer public trip of its line and direction
\* that is not a short turn itself, so ranking never loses a route altogether.
ShortOfSomething ==
  \A r \in universe.short :
    \E x \in Group(r) \ universe.short : Public(x) /\ Len(Posts(x)) > Len(Posts(r)) /\ Part(Posts(r), Posts(x))

--------------------------------------------------------------------------------
(* What makes them inductive *)

\* Each table is what its step wrote, from the tables before it.
ScheduleInv ==
  /\ feed \in Feeds
  /\ at # "load" => kept = Kept
  /\ kept \subseteq Trips
  /\ at \in {"load", "select"} => schedule = {} /\ duty = {}
  /\ at \notin {"load", "select"} \union Failures => schedule = Selected
  /\ schedule \in {{}, Selected} /\ duty \in {{}, Segments, Retained(Segments)}
  /\ at = "duties" => duty = {}
  /\ at = "diagnose" => duty = Segments
  /\ at \in {"universe", "endpoints", "done"} => classes = [r \in duty |-> Classes(duty, r)]
  /\ at \notin {"endpoints", "done"} => universe = Empty
  /\ at \in {"endpoints", "done"} => universe = Universe
  /\ at = "done" => courses = Endpoints
==================================================================================
