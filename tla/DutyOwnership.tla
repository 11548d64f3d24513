------------------------------ MODULE DutyOwnership ------------------------------
(* alignment.py of the matcher, as runtime.align_execution drives it: from the   *)
(* pings of its line and brigade each vehicle yields terminal traversals; each   *)
(* duty is settled by comparing, vehicle by vehicle, the coherent paths of       *)
(* traversals through its courses; intervals two courses claim are given up.     *)
(*                                                                               *)
(* Time counts in DELAY_BUCKET_SECONDS.  A ping is near a set of terminals, all  *)
(* the geometry there is.  Trip identifiers follow the order of the courses.     *)
EXTENDS Lists

CONSTANTS
  Days,             \* inputs: [duties, tracks]
  Vehicles,         \* numbers, in order
  EpisodeGap,       \* TERMINAL_EPISODE_GAP_SECONDS
  MaxStates, DiverseStates,   \* MAX_PATH_STATES, DELAY_DIVERSE_STATES
  TimingTie,        \* PATH_TIMING_TIE_SECONDS
  ReanchorDelay, ReanchorAbsence,
  MaxEarly, MaxLate, MaxOverrun,   \* <<timetabled, dispatched>>
  Margin            \* EVIDENCE_WINDOW_MARGIN_SECONDS

\* A vehicle has one ping a time (the dedup of gps.py), the paths kept for their delays are some of the limit.
DutyAssumption ==
  /\ IsFiniteSet(Vehicles) /\ Vehicles \subseteq Nat \ {0}
  /\ MaxStates \in Nat \ {0} /\ DiverseStates \in 0 .. MaxStates /\ TimingTie \in Int
  /\ \A d \in Days :
       /\ d.duties \in Seq(Seq([line : STRING, dispatched : BOOLEAN, settled : BOOLEAN, fallback : BOOLEAN,
                               start : Int, end : Int, stops : Seq([near : STRING, passenger : BOOLEAN])]))
       /\ d.duties # <<>>
       /\ d.tracks \in [Vehicles -> Seq([time : Nat, line : STRING, near : SUBSET STRING])]
       /\ \A v \in Vehicles : \A j, k \in DOMAIN d.tracks[v] : j < k => d.tracks[v][j].time < d.tracks[v][k].time

VARIABLES
  day, duty,        \* the duty being settled
  evidence,         \* [course -> [traversals, observed]]
  states, aligned,  \* [vehicle -> paths through the first `aligned` courses]
  cut,              \* history: a state was dropped by the limit
  selected,         \* [course -> traversal or None]
  outcomes,         \* of the duties settled so far
  at
vars == <<day, duty, evidence, states, aligned, cut, selected, outcomes, at>>

None == [vehicle |-> 0]
NoTime == -1

\* A course: [line, dispatched, stops, start, end, settled, fallback]; a stop: [near, passenger].
Courses == day.duties[duty]

--------------------------------------------------------------------------------
(* Evidence *)

\* The first and the last stop with coordinates, among the passengers' when known.
Endpoints(course) ==
  SelectSeq(course.stops, LAMBDA s : s.near # "" /\ (course.settled => s.passenger))
From(course) == Endpoints(course)[1].near
To(course) == Endpoints(course)[Len(Endpoints(course))].near
Located(course) == Endpoints(course) # <<>>

Ends(course) == IF Located(course) THEN <<From(course), To(course)>> ELSE <<>>

\* The courses of all duties that are read together with this one: a line here stands
\* for a line, brigade and mode, a day for a service date.
Pattern(i) ==
  {c \in UNION {{courses[j] : j \in DOMAIN courses} : courses \in {day.duties[d] : d \in DOMAIN day.duties}} :
     c.line = Courses[i].line /\ Ends(c) = Ends(Courses[i])}
MinOf(S) == CHOOSE x \in S : \A y \in S : x <= y
MaxOf(S) == CHOOSE x \in S : \A y \in S : x >= y

\* What seq has at the places of K, in order.
Only(seq, K) ==
  LET kept[n \in 0 .. Len(seq)] ==
        IF n = 0 THEN <<>> ELSE IF n \in K THEN Append(kept[n - 1], seq[n]) ELSE kept[n - 1]
  IN  kept[Len(seq)]

OfLine(i, v) == LET t == day.tracks[v] IN Only(t, {k \in DOMAIN t : t[k].line = Courses[i].line})

\* The window around the schedule of a pattern.
WindowStart(i) == MinOf({c.start : c \in Pattern(i)}) - Margin
WindowEnd(i) == MaxOf({c.end : c \in Pattern(i)}) + Margin

\* mutant: the window has no margin
Trimmed_ToSchedule(i, v) ==
  LET t == OfLine(i, v)
  IN  Only(t, {k \in DOMAIN t : WindowStart(i) + Margin <= t[k].time /\ t[k].time <= WindowEnd(i) - Margin})

Trimmed(i, v) ==
  LET t == OfLine(i, v)
      first == WindowStart(i)
      last == WindowEnd(i)
  IN  Only(t, {k \in DOMAIN t : first <= t[k].time /\ t[k].time <= last})

Zone(course, p) == <<From(course) \in p.near, To(course) \in p.near>>
Outside == <<FALSE, FALSE>>

\* Runs of pings in one zone without a gap.
Episodes(course, pings) ==
  LET Extend(run, p) ==
        LET last == run[Len(run)]
        IN  IF run = <<>> \/ last.zone # Zone(course, p) \/ p.time - last.end > EpisodeGap
            THEN Append(run, [zone |-> Zone(course, p), start |-> p.time, end |-> p.time])
            ELSE [run EXCEPT ![Len(run)].end = p.time]
  IN  Fold(Extend, <<>>, pings)

\* The destination's episode after departing from the o-th, unless the vehicle was back
\* at the origin before.
Arrival(run, o) ==
  {j \in o + 2 .. Len(run) : run[j].zone[2] /\ \A k \in o + 2 .. j - 1 : run[k].zone = Outside}

Traversals(course, v, pings) ==
  LET run == Episodes(course, pings)
      departures == {o \in 1 .. Len(run) - 1 : run[o].zone[1] /\ run[o + 1].zone = Outside}
      arrived(o) == IF Arrival(run, o) = {} THEN NoTime ELSE run[MinOf(Arrival(run, o))].start
  IN  {[vehicle |-> v, origin |-> run[o].start, departure |-> run[o + 1].start, destination |-> arrived(o)] : o \in departures}

\* traversal_id
Id(t) == <<t.vehicle, t.origin, IF t.destination = NoTime THEN t.departure ELSE t.destination>>

Evidence(i) ==
  [traversals |-> IF ~Located(Courses[i]) THEN {}
                  ELSE UNION {Traversals(Courses[i], v, Trimmed(i, v)) : v \in Vehicles},
   observed |-> {v \in Vehicles : Trimmed(i, v) # <<>>}]
Complete(i) == {t \in evidence[i].traversals : t.destination # NoTime}
Partial(i) == evidence[i].traversals \ Complete(i)

--------------------------------------------------------------------------------
(* Paths *)

Kind(course) == IF course.dispatched THEN 2 ELSE 1
Delay(course, t) == t.departure - course.start
Plausible(course, t) ==
  /\ -MaxEarly[Kind(course)] <= Delay(course, t) /\ Delay(course, t) <= MaxLate[Kind(course)]
  /\ t.destination - t.departure <= course.end - course.start + MaxOverrun[Kind(course)]
Candidates(i, v) == {t \in Complete(i) : t.vehicle = v /\ Plausible(Courses[i], t)}

\* Service resumed after an absence with more delay: a later course took over.
Reanchored(delay, after, t, later) == later - delay > ReanchorDelay /\ t.origin - after > ReanchorAbsence

Start == [picked |-> <<>>, used |-> {}, destination |-> NoTime, last |-> None, delay |-> NoTime, executed |-> 0, cost |-> 0]
Pass(path) == [path EXCEPT !.picked = Append(@, None)]
Follows(path, course, t) ==
  /\ Id(t) \notin path.used
  /\ path.executed > 0 =>
       /\ t.departure > path.destination
       /\ ~Reanchored(path.delay, path.destination, t, Delay(course, t))
Abs(x) == IF x < 0 THEN -x ELSE x
Run(path, course, t) ==
  [picked |-> Append(path.picked, t), used |-> path.used \union {Id(t)}, destination |-> t.destination, last |-> t,
   delay |-> Delay(course, t), executed |-> path.executed + 1,
   cost |-> path.cost + Abs(IF path.executed = 0 THEN Delay(course, t) ELSE Delay(course, t) - path.delay)]

SignatureLess(s, t) ==
  \E i \in DOMAIN s :
    /\ \A j \in 1 .. i - 1 : s[j] = t[j]
    /\ s[i] # None
    /\ t[i] = None \/ s[i].origin < t[i].origin \/ (s[i].origin = t[i].origin /\ s[i].destination < t[i].destination)
Better(p, q) ==
  \/ p.executed > q.executed
  \/ p.executed = q.executed /\ (p.cost < q.cost \/ (p.cost = q.cost /\ SignatureLess(p.picked, q.picked)))
Best(P) == CHOOSE p \in P : \A q \in P \ {p} : Better(p, q)

\* What follows depends on the last traversal and on its delay.
SameKey(p, q) == p.last = q.last /\ p.delay = q.delay

\* mutant: a path that can run the course does not pass it by
Grown_Eager(paths, course, candidates) ==
  LET Runs(p) == {Run(p, course, t) : t \in {t \in candidates : Follows(p, course, t)}}
      all == UNION {IF Runs(p) = {} THEN {Pass(p)} ELSE Runs(p) : p \in paths}
  IN  {p \in all : \A q \in all \ {p} : SameKey(p, q) => Better(p, q)}

Grown(paths, course, candidates) ==
  LET all == {Pass(p) : p \in paths}
             \union UNION {{Run(p, course, t) : t \in {t \in candidates : Follows(p, course, t)}} : p \in paths}
  IN  {p \in all : \A q \in all \ {p} : SameKey(p, q) => Better(p, q)}

\* Kept: the best path of each delay, the most punctual first, then the best others.
Kept(paths) ==
  LET leaders == {p \in paths : \A q \in paths \ {p} : q.delay = p.delay /\ (q.executed > 0 <=> p.executed > 0) => Better(p, q)}
      Lateness(p) == IF p.executed = 0 THEN 1000 ELSE Abs(p.delay)
      Punctual(p, q) == Lateness(p) < Lateness(q) \/ (Lateness(p) = Lateness(q) /\ Better(p, q))
      diverse == {p \in leaders : Cardinality({q \in leaders : Punctual(q, p)}) < DiverseStates}
      others == paths \ diverse
  IN  diverse \union {p \in others : Cardinality({q \in others : Better(q, p)}) < MaxStates - Cardinality(diverse)}

--------------------------------------------------------------------------------
(* Settling *)

PathOf(v) == Best(states[v])
Runners == {v \in Vehicles : PathOf(v).executed > 0}
Ahead(v, w) ==
  \/ PathOf(v).executed > PathOf(w).executed
  \/ PathOf(v).executed = PathOf(w).executed
     /\ (PathOf(v).cost < PathOf(w).cost \/ (PathOf(v).cost = PathOf(w).cost /\ v < w))
Winner == CHOOSE v \in Runners : \A w \in Runners \ {v} : Ahead(v, w)

Rivals ==
  {v \in Runners \ {Winner} :
     PathOf(v).executed = PathOf(Winner).executed /\ PathOf(v).cost - PathOf(Winner).cost <= TimingTie}
Ambiguous(i) ==
  Runners # {} /\ \E v \in Rivals : PathOf(v).picked[i] # PathOf(Winner).picked[i]

Executed == {j \in DOMAIN Courses : selected[j] # None}
Preceding(i) == {j \in Executed : j < i}
Following(i) == {j \in Executed : j > i}
DelayOf(j) == Delay(Courses[j], selected[j])

\* A traversal that fits between the neighbours the winner runs.
Fits(i, t) ==
  /\ Id(t) \notin {Id(selected[j]) : j \in Executed}
  /\ Preceding(i) # {} =>
       LET p == MaxOf(Preceding(i))
       IN  t.departure > selected[p].destination
           /\ ~Reanchored(DelayOf(p), selected[p].destination, t, Delay(Courses[i], t))
  /\ Following(i) # {} => t.destination < selected[MinOf(Following(i))].departure

\* Of those the one with the delay of its neighbours.
Filling(i) ==
  LET fits == {t \in Candidates(i, Winner) : Fits(i, t)}
      before == IF Preceding(i) = {} THEN 0 ELSE DelayOf(MaxOf(Preceding(i)))
      after == IF Following(i) = {} THEN 0 ELSE DelayOf(MinOf(Following(i)))
      neighbours == IF Preceding(i) # {} /\ Following(i) # {} THEN 2 ELSE 1
      Off(t) == Abs(neighbours * Delay(Courses[i], t) - (before + after))
      Closer(t, u) == \/ Off(t) < Off(u)
                      \/ Off(t) = Off(u) /\ (t.origin < u.origin \/ (t.origin = u.origin /\ t.destination < u.destination))
  IN  IF selected[i] # None \/ fits = {} THEN selected[i] ELSE CHOOSE t \in fits : \A u \in fits \ {t} : Closer(t, u)

\* A partial traversal that the next course's vehicle cut short.
ShortTurned(i) ==
  /\ i + 1 \in Executed
  /\ \E t \in Partial(i) :
       /\ t.vehicle = selected[i + 1].vehicle
       /\ t.departure < selected[i + 1].origin
       /\ i - 1 \in Executed => t.origin > selected[i - 1].destination

\* The traversal that ended the gap was too late for a course within it.
ReanchoredGap(i) ==
  /\ Preceding(i) # {} /\ Following(i) # {}
  /\ LET b == MaxOf(Preceding(i))  a == MinOf(Following(i))
     IN  \E g \in b + 1 .. a - 1 : \E t \in Complete(g) :
           /\ Id(t) = Id(selected[a])
           /\ Reanchored(DelayOf(b), selected[b].destination, t, Delay(Courses[g], t))

Status(i) ==
  IF Ambiguous(i) THEN "vehicle_change_signal"
  ELSE IF i \in Executed THEN "executed"
  ELSE IF ~Courses[i].settled THEN "uncertain"
  ELSE IF ShortTurned(i) THEN "short_turned"
  ELSE IF ReanchoredGap(i) THEN "missed"
  ELSE IF i - 1 \in Executed /\ i + 1 \in Executed THEN "skipped"
  ELSE IF Complete(i) # {} /\ \A t \in Complete(i) : ~Plausible(Courses[i], t) THEN "uncertain"
  ELSE IF evidence[i].observed # {} THEN "uncertain"
  ELSE "missed"

Outcome(i) ==
  LET owner == IF Status(i) = "executed" THEN selected[i] ELSE None
  IN  [duty |-> duty, course |-> i, status |-> Status(i), vehicle |-> owner.vehicle,
       confidence |-> IF Courses[i].fallback \/ Status(i) \in {"vehicle_change_signal", "uncertain"} THEN "low"
                      ELSE IF Status(i) = "executed" THEN "high" ELSE "medium",
       from |-> IF owner = None THEN NoTime ELSE owner.departure,
       to |-> IF owner = None THEN NoTime ELSE owner.destination]

--------------------------------------------------------------------------------
(* Competing ownership *)

Owners(v) == {k \in DOMAIN outcomes : outcomes[k].status = "executed" /\ outcomes[k].vehicle = v}
Sooner(j, k) ==
  LET p == outcomes[j]  q == outcomes[k]
  IN  p.from < q.from \/ (p.from = q.from /\ (p.to < q.to \/ (p.to = q.to /\ j < k)))

\* mutant: of the active intervals only the latest to begin is remembered
Active_Latest(active, start) ==
  {k \in active : outcomes[k].to >= start /\ \A j \in active \ {k} : Sooner(j, k)}

\* mutant: an interval that ends as the next begins is no longer active
Active_Open(active, start) == {k \in active : outcomes[k].to > start}

Active(active, start) == {k \in active : outcomes[k].to >= start}

\* A sweep over the intervals of a vehicle by their beginning.
Conflicts(v) ==
  LET Sweep(s, k) ==
        LET active == Active(s.active, outcomes[k].from)
        IN  [active |-> active \union {k},
             conflicts |-> IF active = {} THEN s.conflicts ELSE s.conflicts \union active \union {k}]
  IN  Fold(Sweep, [active |-> {}, conflicts |-> {}], Sorted(Owners(v), Sooner)).conflicts

--------------------------------------------------------------------------------
(* Steps *)

Fresh ==
  /\ states' = [v \in Vehicles |-> {Start}] /\ aligned' = 0 /\ cut' = FALSE
  /\ selected' = <<>>

Init ==
  /\ day \in Days /\ duty = 1
  /\ evidence = <<>> /\ states = [v \in Vehicles |-> {Start}] /\ aligned = 0 /\ cut = FALSE
  /\ selected = <<>> /\ outcomes = <<>> /\ at = "evidence"

ExtractEvidence ==
  /\ at = "evidence"
  /\ evidence' = <<>> \o [i \in DOMAIN Courses |-> Evidence(i)]
  /\ at' = "paths"
  /\ UNCHANGED <<day, duty, states, aligned, cut, selected, outcomes>>

AlignCourse ==
  /\ at = "paths" /\ aligned < Len(Courses)
  /\ LET i == aligned + 1
         grown == [v \in Vehicles |-> Grown(states[v], Courses[i], Candidates(i, v))]
     IN  /\ states' = [v \in Vehicles |-> {p : p \in Kept(grown[v])}]
         /\ cut' = (cut \/ \E v \in Vehicles : Kept(grown[v]) # grown[v])
  /\ aligned' = aligned + 1
  /\ UNCHANGED <<day, duty, evidence, selected, outcomes, at>>

Choose ==
  /\ at = "paths" /\ aligned = Len(Courses)
  /\ selected' = IF Runners = {} THEN [i \in DOMAIN Courses |-> None] ELSE PathOf(Winner).picked
  /\ aligned' = 0
  /\ at' = "fill"
  /\ UNCHANGED <<day, duty, evidence, states, cut, outcomes>>

FillGap ==
  /\ at = "fill" /\ aligned < Len(Courses)
  /\ aligned' = aligned + 1
  /\ selected' = IF Runners = {} THEN selected ELSE [selected EXCEPT ![aligned + 1] = Filling(aligned + 1)]
  /\ UNCHANGED <<day, duty, evidence, states, cut, outcomes, at>>

Settle ==
  /\ at = "fill" /\ aligned = Len(Courses)
  /\ outcomes' = outcomes \o [i \in DOMAIN Courses |-> Outcome(i)]
  /\ at' = "settled"
  /\ UNCHANGED <<day, duty, evidence, states, aligned, cut, selected>>

NextDuty ==
  /\ at = "settled" /\ duty < Len(day.duties)
  /\ duty' = duty + 1 /\ evidence' = <<>> /\ at' = "evidence"
  /\ Fresh
  /\ UNCHANGED <<day, outcomes>>

Resolved ==
  LET conflicts == UNION {Conflicts(v) : v \in Vehicles}
  IN  [k \in DOMAIN outcomes |->
         IF k \in conflicts
         THEN [outcomes[k] EXCEPT !.status = "uncertain", !.confidence = "low", !.vehicle = 0,
                                  !.from = NoTime, !.to = NoTime]
         ELSE outcomes[k]]

Resolve ==
  /\ at = "settled" /\ duty = Len(day.duties)
  /\ outcomes' = Resolved
  /\ at' = "done"
  /\ UNCHANGED <<day, duty, evidence, states, aligned, cut, selected>>

Done == at = "done" /\ UNCHANGED vars
Next == ExtractEvidence \/ AlignCourse \/ Choose \/ FillGap \/ Settle \/ NextDuty \/ Resolve \/ Done
Spec == Init /\ [][Next]_vars

--------------------------------------------------------------------------------
(* Properties *)

TypeOK ==
  /\ at \in {"evidence", "paths", "fill", "settled", "done"}
  /\ duty \in DOMAIN day.duties /\ cut \in BOOLEAN
  /\ \A v \in Vehicles : states[v] # {} /\ Cardinality(states[v]) <= MaxStates
  /\ at \in {"fill", "settled"} => Len(selected) = Len(Courses)

\* The vehicle sent nothing on the course's line from before the window until it left.
SilentSince(i, v, departure) ==
  LET t == OfLine(i, v)
      first == WindowStart(i)
  IN  \A k \in DOMAIN t : t[k].time < departure => t[k].time < first

\* Reading only the pings near the schedule of a pattern, as align_execution does, loses
\* a traversal that a course could claim exactly when the vehicle was silent since before
\* the window: nothing bounds how long before leaving it was last seen at the terminal.
\* The comment over EVIDENCE_WINDOW_MARGIN_SECONDS makes no such exception.
TrimLosesOnlySilent ==
  at = "paths" /\ aligned = 0 =>
    \A i \in DOMAIN Courses : Located(Courses[i]) =>
      \A v \in Vehicles :
        LET all == {t \in Traversals(Courses[i], v, OfLine(i, v)) : t.destination # NoTime /\ Plausible(Courses[i], t)}
            read == {t \in all : ~SilentSince(i, v, t.departure)}
        IN  {<<t.departure, t.destination>> : t \in read} = {<<t.departure, t.destination>> : t \in Candidates(i, v)}

\* A vehicle makes one trip at a time: the complete traversals found for a course
\* and a vehicle do not overlap, dwell at the origin excluded.
DisjointTraversals ==
  at = "paths" =>
    \A i \in DOMAIN Courses : \A t, u \in Complete(i) :
      t # u /\ t.vehicle = u.vehicle => t.destination < u.departure \/ u.destination < t.departure

\* Unless the limit cut it, the search finds for each vehicle the coherent path that
\* runs most courses and, among those, the steadiest one.
Coherent ==
  LET all[i \in 0 .. Len(Courses)] ==
        IF i = 0 THEN [v \in Vehicles |-> {Start}]
        ELSE [v \in Vehicles |->
                {Pass(p) : p \in all[i - 1][v]}
                \union UNION {{Run(p, Courses[i], t) : t \in {t \in Candidates(i, v) : Follows(p, Courses[i], t)}}
                              : p \in all[i - 1][v]}]
  IN  all[Len(Courses)]
BestPath ==
  at = "fill" /\ aligned = 0 /\ ~cut =>
    \A v \in Vehicles : \A p \in Coherent[v] : p = PathOf(v) \/ ~Better(p, PathOf(v))

\* The courses a duty executed, gaps filled later included, were run one after the
\* other by one vehicle.
DutyInOrder ==
  \A j, k \in DOMAIN outcomes :
    LET p == outcomes[j]  q == outcomes[k]
    IN  j < k /\ p.duty = q.duty /\ p.status = "executed" /\ q.status = "executed" =>
          p.vehicle = q.vehicle /\ p.to < q.from

\* A course is executed only when no other vehicle's path explains as many courses of
\* the duty hardly worse and runs it.
Uncontested ==
  at = "settled" =>
    \A o \in {outcomes[k] : k \in DOMAIN outcomes} : o.duty = duty /\ o.status = "executed" =>
      ~\E v \in Vehicles \ {o.vehicle} :
         /\ PathOf(v).executed >= PathOf(o.vehicle).executed
         /\ PathOf(v).cost <= PathOf(o.vehicle).cost + TimingTie
         /\ PathOf(v).picked[o.course] # None

Overlap(p, q) == p.vehicle = q.vehicle /\ p.from <= q.to /\ q.from <= p.to
\* No moment of a vehicle is owned by two courses, of one duty or of two.
OwnedOnce ==
  at = "done" =>
    \A j, k \in DOMAIN outcomes :
      j # k /\ outcomes[j].status = "executed" /\ outcomes[k].status = "executed" => ~Overlap(outcomes[j], outcomes[k])

\* What overlaps another course's interval is about to be given up, on both sides, and
\* nothing else is.
ClashesYield ==
  at = "settled" /\ duty = Len(day.duties) =>
    \A k \in DOMAIN outcomes : outcomes[k].status = "executed" =>
      (Resolved[k] # outcomes[k]
       <=> \E j \in DOMAIN outcomes \ {k} : outcomes[j].status = "executed" /\ Overlap(outcomes[j], outcomes[k]))
==================================================================================
