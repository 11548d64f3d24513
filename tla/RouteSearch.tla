------------------------------- MODULE RouteSearch -------------------------------
(* Planning journeys: journey.plan, _Profile and the native round search of      *)
(* routing/src/search.rs.  Departure windows follow one another; a window runs   *)
(* its departures from the latest to the earliest and keeps the bounds of the    *)
(* later ones, a run adds one vehicle per round.  A step of the model is one     *)
(* window, one run, one marked entry of a round, or the end of a round.          *)
(*                                                                               *)
(* A network, of one service day (journey.Network, routing/src/network.rs), is a *)
(* record: nstops; patterns, a sequence of [stops, alights], the stops in order  *)
(* and the positions one may alight at; trips, a sequence of [pattern, board,    *)
(* expected, base, cum], one entry per position (board_by, the expected time,    *)
(* the base of the late bound, cumulative ride seconds); walks, a sequence of    *)
(* <<dest, seconds>> for each stop.  Times are small integers.                   *)
(*                                                                               *)
(* Abstractions: a label keeps its time, its departure and the walk before the   *)
(* first ride; the cache of permission masks (what it returns does not depend on *)
(* it), the counters, the filter of useful journeys and the checks of malformed  *)
(* input are left out.                                                           *)
EXTENDS Lists, SequencesExt

CONSTANTS
  NoBoard,    \* NO_BOARD: the trip cannot be boarded here
  Inf,        \* INF
  Buckets,    \* planner_range: <<lower, upper, ratio>> of ride lengths, in order
  Horizon,    \* MAX_JOURNEY_S
  Networks, Queries,   \* what is searched, and the rows live data has patched
  MaxVehicles,         \* MAX_VEHICLES
  Window,              \* PROFILE_WINDOW_S
  MaxEvents,           \* WINDOW_EVENTS
  Span                 \* PROFILE_SPAN_S

--------------------------------------------------------------------------------
(* Late arrivals *)

Step(upper, ratio, floor) == [upper |-> upper, ratio |-> ratio, floor |-> floor]

\* A step's floor: what a ride shorter than its bucket may need.
Carried(steps) ==
  IF steps = <<>> THEN 0 ELSE Greatest(Last(steps).floor, Last(steps).upper * Last(steps).ratio)

AddStep(steps, upper, ratio) == Append(steps, Step(upper, ratio, Carried(steps)))

\* Buckets are (lower, upper]; a gap between two has the default ratio, 1 here.
AddBucket(steps, bucket) ==
  LET end == IF steps = <<>> THEN 0 ELSE Last(steps).upper
      filled == IF bucket[1] > end THEN AddStep(steps, bucket[1], 1) ELSE steps
  IN  AddStep(filled, bucket[2], Greatest(1, bucket[3]))

\* The last step is open-ended.
Envelope == Fold(AddBucket, <<>>, Append(Buckets, <<0, Inf, 1>>))

High(duration) ==
  LET i == CHOOSE i \in DOMAIN Envelope : /\ duration <= Envelope[i].upper
                                          /\ \A j \in 1 .. i - 1 : Envelope[j].upper < duration
  IN  Greatest(Envelope[i].floor, duration * Envelope[i].ratio)

Ride(trip, b, a) == Greatest(0, trip.cum[a] - trip.cum[b])
Depart(trip, b) == IF trip.board[b] < NoBoard THEN Greatest(trip.expected[b], trip.board[b]) ELSE trip.expected[b]
Late(trip, b, a) ==
  Greatest(trip.base[b] + High(Ride(trip, b, a)), Greatest(trip.expected[a], Depart(trip, b)))

--------------------------------------------------------------------------------
(* Boarding lists *)

Stop(net, slot) == net.patterns[slot[1]].stops[slot[2]]
Alights(net, slot) ==
  LET p == net.patterns[slot[1]] IN SelectSeq([i \in 1 .. Len(p.stops) |-> i], LAMBDA a : a > slot[2] /\ a \in p.alights)
Slots(net) ==
  {slot \in (DOMAIN net.patterns) \X (1 .. 9) :
     slot[2] < Len(net.patterns[slot[1]].stops) /\ Alights(net, slot) # <<>>}
Before(x, y) == x[1] < y[1] \/ (x[1] = y[1] /\ x[2] < y[2])
SlotsAt(net, stop) == Sorted({slot \in Slots(net) : Stop(net, slot) = stop}, Before)

\* The pattern's trips that can be boarded at the position: <<board_by, trip>>,
\* in this order.
Boarding(net, slot) ==
  Sorted({<<net.trips[t].board[slot[2]], t>> : t \in {t \in DOMAIN net.trips :
    net.trips[t].pattern = slot[1] /\ net.trips[t].board[slot[2]] < NoBoard}}, Before)
Lists(net) == [slot \in Slots(net) |-> Boarding(net, slot)]

\* First position at which the pattern can be boarded at the stop.
BoardPosition(net, stop, p, fallback) ==
  LET at == {q \in 1 .. Len(net.patterns[p].stops) : <<p, q>> \in Slots(net) /\ net.patterns[p].stops[q] = stop}
  IN  IF at = {} THEN fallback ELSE Min(at)

--------------------------------------------------------------------------------
(* Live patches: <<trip, position, board_by, expected, late>> *)

PatchRow(net, row) ==
  LET t == row[1]  q == row[2]
      trip == [net.trips[t] EXCEPT !.board[q] = row[3], !.expected[q] = row[4]]
  IN  [net EXCEPT !.trips[t] = [trip EXCEPT !.base[q] = Greatest(row[5], Depart(trip, q))]]
Patched(net, rows) == Fold(PatchRow, net, rows)

\* mutant: a moved trip enters the list behind every earlier time only
Reenter_BeforeEquals(list, time, t) ==
  LET i == Len(SelectSeq(list, LAMBDA e : e[1] < time)) IN InsertAt(list, i + 1, <<time, t>>)

Reenter(list, time, t) ==
  LET i == Len(SelectSeq(list, LAMBDA e : Before(e, <<time, t>>))) IN InsertAt(list, i + 1, <<time, t>>)

\* The native copy moves the trip within the boarding list.
MoveTrip(lists, net, row) ==
  LET slot == <<net.trips[row[1]].pattern, row[2]>>
      others == SelectSeq(lists[slot], LAMBDA e : e[2] # row[1])
  IN  IF slot \notin DOMAIN lists \/ <<row[3], row[1]>> \in ToSet(lists[slot]) THEN lists
      ELSE [lists EXCEPT ![slot] = IF row[3] < NoBoard THEN Reenter(others, row[3], row[1]) ELSE others]
PatchedLists(net, rows) == Fold(LAMBDA lists, row : MoveTrip(lists, net, row), Lists(net), rows)

--------------------------------------------------------------------------------
(* Lower bounds of ride and walk times *)

\* Shortest ride of the pattern's segment after q, over its trips.
Segment(net, p, q) ==
  Greatest(0, Min({net.trips[t].cum[q + 1] - net.trips[t].cum[q] : t \in {t \in DOMAIN net.trips : net.trips[t].pattern = p}}))
Prefix(net, p, q) == Fold(LAMBDA sum, i : sum + Segment(net, p, i), 0, [i \in 1 .. q - 1 |-> i])

Edges(net) ==
  {<<net.patterns[s[1]].stops[s[2]], net.patterns[s[1]].stops[s[2] + 1], Segment(net, s[1], s[2])>> :
     s \in {s \in (DOMAIN net.patterns) \X (1 .. 9) : s[2] < Len(net.patterns[s[1]].stops)}}
  \union UNION {{<<stop, w[1], w[2]>> : w \in ToSet(net.walks[stop])} : stop \in 1 .. net.nstops}

\* What the backward search from the targets ends with: the least seconds from
\* each stop to a target, targets counting their egress; Inf beyond Horizon.
LowerBounds(net, targets) ==
  LET edges == Edges(net)
      seed == [s \in 1 .. net.nstops |-> IF s \in DOMAIN targets THEN targets[s] ELSE Inf]
      Relax(bound) == [s \in 1 .. net.nstops |->
        Min({bound[s]} \union {d \in {bound[e[2]] + e[3] : e \in {e \in edges : e[1] = s}} : d <= Horizon})]
      after[n \in Nat] == IF n = 0 THEN seed ELSE Relax(after[n - 1])
  IN  after[net.nstops]

--------------------------------------------------------------------------------
(* Journeys *)

VARIABLES
  net, query, lists, toTarget,   \* prepared: network, request, boarding lists, bounds
  walksOut, originBoard,         \* _Profile: initial walks, first boardable positions
  step,
  plan,     \* plan(): window [start, end, width], its events, journeys found
  bounds,   \* State: ride, scans and walking bounds, the target's
  run,      \* run_inner(): departure, horizon, vehicles, marked, target, ...
  found     \* journeys kept, <<depart, arrive, vehicles>>

prepared == <<net, query, lists, toTarget, walksOut, originBoard>>
vars == <<prepared, step, plan, bounds, run, found>>

Counts == 0 .. MaxVehicles
NoBounds == [k \in Counts |-> Inf]
Stops == 1 .. net.nstops
Origin == -1         \* source of a label that walked from the origin
Unrestricted == -2   \* UNRESTRICTED: the label ended a ride, or is at the origin

\* mutant: a bound is lowered for its own number of vehicles only
Lower_OwnCount(b, count, time) == [b EXCEPT ![count] = Least(@, time)]

\* Bounds::lower: a time with few vehicles also bounds the larger numbers.
Lower(b, count, time) == [k \in Counts |-> IF k >= count THEN Least(b[k], time) ELSE b[k]]

\* Ordered::set: a replaced entry keeps its place.
SetEntry(entries, entry) ==
  LET at == {i \in DOMAIN entries : entries[i].stop = entry.stop /\ entries[i].source = entry.source}
  IN  IF at = {} THEN Append(entries, entry) ELSE [entries EXCEPT ![Min(at)] = entry]

--------------------------------------------------------------------------------
(* The request *)

Origins == query.origins
Targets == query.targets        \* stop -> seconds of the walk out of it

\* Walks from the origins that are shorter than every earlier one to their post.
InitialWalks(n, q) ==
  LET all == FlattenSeq([i \in DOMAIN q.origins |->
               [j \in DOMAIN n.walks[q.origins[i]] |-> <<q.origins[i], n.walks[q.origins[i]][j][1], n.walks[q.origins[i]][j][2]>>]])
      Shortest(ws, dest) == Min({Inf} \union {w[3] : w \in {w \in ToSet(ws) : w[2] = dest}}
                                \union {w[2] : w \in {w \in ToSet(q.access) : w[1] = dest}})
  IN  Fold(LAMBDA ws, w : IF w[3] < Shortest(ws, w[2]) THEN Append(ws, w) ELSE ws, <<>>, all)

FirstBoards(n, q) ==
  [p \in DOMAIN n.patterns |->
     Min({Inf} \union {BoardPosition(n, o, p, Inf) : o \in ToSet(q.origins)})]

\* Every <<time, post>> a journey can leave for or from in [start, end).
Departures(start, end) ==
  LET Slot(post, walked) == {slot \in DOMAIN lists : Stop(net, slot) = post /\ (walked => originBoard[slot[1]] >= slot[2])}
      From(post, offset, walked) ==
        {<<e[1] - offset, post>> : e \in UNION {ToSet(lists[slot]) : slot \in Slot(post, walked)}}
      all == UNION {From(w[1], w[2], FALSE) : w \in ToSet(query.access)}
             \union UNION {From(o, 0, FALSE) : o \in ToSet(Origins)}
             \union UNION {UNION {From(w[1], w[2], TRUE) : w \in ToSet(net.walks[o])} : o \in ToSet(Origins)}
  IN  {e \in all : e[1] >= start /\ e[1] < end}

--------------------------------------------------------------------------------
(* plan(): windows *)

Fresh == [ride |-> [s \in Stops |-> NoBounds], scans |-> [slot \in DOMAIN lists |-> NoBounds],
          walking |-> [k \in Stops \X ({Origin} \union Stops) |-> NoBounds], target |-> NoBounds]
NoRun == [time |-> 0, target |-> 0, k |-> 0, at |-> 1, marked |-> <<>>, rides |-> <<>>, improved |-> <<>>,
          reached |-> <<>>, results |-> <<>>]

Init ==
  /\ query \in Queries
  /\ \E n \in Networks : net = Patched(n, query.patch) /\ lists = PatchedLists(n, query.patch)
  /\ toTarget = LowerBounds(net, query.targets)
  /\ walksOut = InitialWalks(net, query) /\ originBoard = FirstBoards(net, query)
  /\ step = "window"
  /\ plan = [start |-> query.after, end |-> query.after, width |-> Window, events |-> <<>>, first |-> TRUE]
  /\ bounds = Fresh /\ run = NoRun /\ found = {}

\* The window's departure times, at most MaxEvents of them, and its end.
NextWindow ==
  /\ step = "window"
  /\ plan.start < query.after + Span
  /\ LET end == Least(plan.start + plan.width, query.after + Span)
         times == Sorted({d[1] : d \in Departures(plan.start, end)}, LAMBDA x, y : x < y)
         capped == Len(times) > MaxEvents
     IN  plan' = [plan EXCEPT !.end = IF capped THEN times[MaxEvents + 1] ELSE end,
                              !.first = TRUE,
                              !.events = Reverse(IF capped THEN SubSeq(times, 1, MaxEvents) ELSE times)]
  /\ bounds' = Fresh /\ run' = NoRun /\ step' = "run"
  /\ UNCHANGED <<prepared, found>>

Dominates(j, o) == j[1] >= o[1] /\ j[2] <= o[2] /\ j[3] <= o[3] /\ j # o
FrontOf(S) == LET T == {j : j \in S} IN {j \in T : ~\E o \in T : Dominates(o, j)}

\* The journeys found are filtered, and the next window sized to what is missing.
EndWindow ==
  /\ step = "run" /\ plan.events = <<>>
  /\ LET front == FrontOf(found)
         kept == Cardinality(front)
         covered == plan.end - query.after
         missing == IF kept = 0 THEN 2 * covered ELSE ((query.results - kept) * covered * 5 + 4 * kept - 1) \div (4 * kept)
     IN  /\ found' = front
         /\ plan' = [plan EXCEPT !.start = plan.end, !.width = Greatest(Window, missing)]
         /\ step' = IF kept < query.results /\ plan.end < query.after + Span THEN "window" ELSE "done"
  /\ run' = NoRun
  /\ UNCHANGED <<prepared, bounds>>

--------------------------------------------------------------------------------
(* run_inner(): one departure *)

Entry(stop, source, time, depart, walk) ==
  [stop |-> stop, source |-> source, time |-> time, depart |-> depart, walk |-> walk]

\* An initial entry lowers its bounds; it is marked if its post is boarded now.
Mark(s, entry, allowed) == IF entry.stop \in allowed THEN [s EXCEPT !.marked = SetEntry(@, entry)] ELSE s
Access(s, w, time, allowed) ==
  LET key == <<w[1], Origin>>
  IN  IF time + w[2] >= s.walking[key][0] THEN s
      ELSE Mark([s EXCEPT !.walking[key] = Lower(@, 0, time + w[2])],
                Entry(w[1], Origin, time + w[2], -1, w[2]), allowed)
Stay(s, o, time, allowed) ==
  IF time >= s.ride[o][0] THEN s
  ELSE Mark([s EXCEPT !.ride[o] = Lower(@, 0, time)], Entry(o, Unrestricted, time, -1, 0), allowed)
WalkOut(s, w, time, allowed) ==
  IF time + w[3] >= s.ride[w[2]][0] THEN s ELSE Access(s, <<w[2], w[3]>>, time, allowed)

ByTime(marked) ==
  LET order == Sorted(DOMAIN marked, LAMBDA i, j : marked[i].time < marked[j].time
                                                         \/ (marked[i].time = marked[j].time /\ i < j))
  IN  <<>> \o [i \in DOMAIN order |-> marked[order[i]]]

\* The first run of a window boards anywhere; the others only at the posts of
\* their own departures, later ones being covered by the bounds they found.
StartRun ==
  /\ step = "run" /\ plan.events # <<>>
  /\ LET time == Head(plan.events)
         allowed == IF plan.first THEN Stops ELSE {d[2] : d \in Departures(time, time + 1)}
         s0 == [ride |-> bounds.ride, walking |-> bounds.walking, marked |-> <<>>]
         s1 == Fold(LAMBDA s, w : Access(s, w, time, allowed), s0, query.access)
         s2 == Fold(LAMBDA s, o : Stay(s, o, time, allowed), s1, Origins)
         s3 == Fold(LAMBDA s, w : WalkOut(s, w, time, allowed), s2, walksOut)
     IN  /\ bounds' = [bounds EXCEPT !.ride = s3.ride, !.walking = s3.walking]
         /\ run' = [NoRun EXCEPT !.time = time, !.k = 1, !.marked = ByTime(s3.marked),
                                 !.target = Least(time + Horizon, bounds.target[1])]
  /\ step' = "round"
  /\ plan' = [plan EXCEPT !.events = Tail(@), !.first = FALSE]
  /\ UNCHANGED <<prepared, found>>

--------------------------------------------------------------------------------
(* A round: scanning the boarding lists at a marked post *)

\* Boarding later than this cannot improve any post of the pattern.
Deadline(s, slot) ==
  Max({-1} \union
      {LET dest == net.patterns[slot[1]].stops[a]
           seconds == Prefix(net, slot[1], a) - Prefix(net, slot[1], slot[2])
       IN  Least(s.ride[dest][run.k], s.target - toTarget[dest]) - seconds : a \in ToSet(Alights(net, slot))})

Improve(s, entry, final) ==
  LET s1 == [s EXCEPT !.ride[entry.stop] = Lower(@, run.k, entry.time), !.changed = TRUE,
                      !.rides = SetEntry(@, entry), !.improved = SetEntry(@, entry)]
  IN  IF entry.stop \in DOMAIN Targets /\ final < s.target
      THEN [s1 EXCEPT !.target = final, !.reached = Append(@, <<entry.depart, final>>)]
      ELSE s1

\* One alighting position of a trip; cut when riding on is of no use.
Alight(s, m, trip, slot, a) ==
  LET dest == net.patterns[slot[1]].stops[a]
      low == trip.base[slot[2]] + Ride(trip, slot[2], a)
      arrival == Late(trip, slot[2], a)
      depart == IF m.depart = -1 THEN trip.board[slot[2]] - m.walk ELSE m.depart
  IN  IF s.cut THEN s
      ELSE IF low >= s.target THEN [s EXCEPT !.cut = TRUE]
      ELSE IF low >= s.ride[dest][run.k] \/ low + toTarget[dest] >= s.target THEN s
      ELSE IF arrival >= s.target THEN [s EXCEPT !.cut = TRUE]
      ELSE IF arrival < s.ride[dest][run.k] /\ arrival + toTarget[dest] < s.target
           THEN Improve(s, Entry(dest, Unrestricted, arrival, depart, 0),
                        arrival + (IF query.egress /\ dest \in DOMAIN Targets THEN Targets[dest] ELSE 0))
      ELSE s

BoardTrip(s, m, slot, e) ==
  IF s.over \/ e[1] >= s.bound THEN [s EXCEPT !.over = TRUE]
  ELSE LET s1 == Fold(LAMBDA x, a : Alight(x, m, net.trips[e[2]], slot, a),
                          [s EXCEPT !.changed = FALSE, !.cut = FALSE], Alights(net, slot))
       IN  IF s1.changed THEN [s1 EXCEPT !.bound = Deadline(s1, slot)] ELSE s1

\* A walk must not lead to a trip that could be boarded where it began.
Permitted(m, slot) ==
  CASE m.source = Unrestricted -> TRUE
    [] m.source = Origin -> originBoard[slot[1]] >= slot[2]
    [] OTHER -> BoardPosition(net, m.source, slot[1], slot[2]) >= slot[2]

\* What an earlier scan of the list has covered is not scanned again.
ScanSlot(s, m, slot, remaining) ==
  LET until == s.scans[slot][run.k - 1]
      s1 == [s EXCEPT !.scans[slot] = Lower(@, run.k - 1, m.time)]
      todo == SelectSeq(lists[slot], LAMBDA e : e[1] >= m.time /\ e[1] < Least(until, remaining))
  IN  IF ~Permitted(m, slot) \/ m.time >= until THEN s
      ELSE Fold(LAMBDA x, e : BoardTrip(x, m, slot, e), [s1 EXCEPT !.bound = Deadline(s1, slot), !.over = FALSE], todo)

Working == [ride |-> bounds.ride, scans |-> bounds.scans, walking |-> bounds.walking, target |-> run.target,
            rides |-> run.rides, improved |-> run.improved, reached |-> run.reached,
            bound |-> 0, over |-> FALSE, changed |-> FALSE, cut |-> FALSE]
Keep(s) ==
  /\ bounds' = [bounds EXCEPT !.ride = s.ride, !.scans = s.scans, !.walking = s.walking]
  /\ run' = [run EXCEPT !.at = @ + 1, !.target = s.target, !.rides = s.rides, !.improved = s.improved, !.reached = s.reached]

ScanEntry ==
  /\ step = "round" /\ run.at <= Len(run.marked)
  /\ LET m == run.marked[run.at]
         remaining == run.target - toTarget[m.stop]
     IN  Keep(IF m.time >= remaining THEN Working
              ELSE Fold(LAMBDA s, slot : ScanSlot(s, m, slot, remaining), Working, SlotsAt(net, m.stop)))
  /\ UNCHANGED <<prepared, step, plan, found>>

--------------------------------------------------------------------------------
(* The end of a round *)

WalkOn(s, m, w) ==
  LET time == m.time + w[2]  key == <<w[1], m.stop>>
      entry == Entry(w[1], m.stop, time, m.depart, 0)
  IN  IF time >= s.walking[key][run.k] \/ time >= s.ride[w[1]][run.k] \/ time + toTarget[w[1]] >= s.target THEN s
      ELSE LET s1 == [s EXCEPT !.walking[key] = Lower(@, run.k, time), !.improved = SetEntry(@, entry)]
           IN  IF w[1] \in DOMAIN Targets /\ ~query.egress
               THEN [s1 EXCEPT !.target = time, !.reached = Append(@, <<m.depart, time>>)] ELSE s1

\* What a walked-in label may board.
Mask(m) == {slot \in ToSet(SlotsAt(net, m.stop)) : Permitted(m, slot)}

\* Of walks to one post with the same permissions only the first earliest is kept.
Prune(improved) ==
  LET Keeps(i) == improved[i].source = Unrestricted \/
        \A j \in DOMAIN improved \ {i} :
          (/\ improved[j].source # Unrestricted /\ improved[j].stop = improved[i].stop
           /\ Mask(improved[j]) = Mask(improved[i])) =>
          improved[i].time < improved[j].time \/ (improved[i].time = improved[j].time /\ i < j)
      kept == Sorted({i \in DOMAIN improved : Keeps(i)}, LAMBDA i, j : i < j)
  IN  <<>> \o [i \in DOMAIN kept |-> improved[kept[i]]]

EndRound ==
  /\ step = "round" /\ run.at > Len(run.marked)
  /\ LET s == Fold(LAMBDA x, m : Fold(LAMBDA y, w : WalkOn(y, m, w), x, net.walks[m.stop]), Working, run.rides)
         earliest == Min({r[2] : r \in ToSet(s.reached)})
         best == s.reached[Min({i \in DOMAIN s.reached : s.reached[i][2] = earliest})]
         target == IF s.reached = <<>> THEN bounds.target ELSE Lower(bounds.target, run.k, earliest)
         results == IF s.reached = <<>> THEN run.results ELSE Append(run.results, <<best[1], best[2], run.k>>)
         marked == Prune(s.improved)
         last == run.k = MaxVehicles \/ marked = <<>>
     IN  /\ bounds' = [bounds EXCEPT !.walking = s.walking, !.target = target]
         /\ run' = IF last THEN NoRun
                   ELSE [NoRun EXCEPT !.time = run.time, !.k = run.k + 1, !.marked = ByTime(marked), !.results = results,
                                      !.target = Least(run.time + Horizon, target[run.k + 1])]
         /\ step' = IF last THEN "run" ELSE "round"
         /\ found' = IF last THEN found \union {j \in ToSet(results) : j[1] < plan.end} ELSE found
  /\ UNCHANGED <<prepared, plan>>

Done == step = "done" /\ UNCHANGED vars
Next == NextWindow \/ StartRun \/ ScanEntry \/ EndRound \/ EndWindow \/ Done
Spec == Init /\ [][Next]_vars

--------------------------------------------------------------------------------
(* Reference: every journey there is *)

Boardings(stop, time, source) ==
  {<<t, slot>> \in (DOMAIN net.trips) \X Slots(net) :
     /\ net.trips[t].pattern = slot[1] /\ Stop(net, slot) = stop
     /\ net.trips[t].board[slot[2]] >= time /\ net.trips[t].board[slot[2]] < NoBoard
     /\ Permitted([source |-> source], slot)}

\* A ride does not end where the journey began.
Rides(depart, b) ==
  {<<depart, Late(net.trips[b[1]], b[2][2], a), net.patterns[b[2][1]].stops[a]>> :
     a \in {a \in ToSet(Alights(net, b[2])) : net.patterns[b[2][1]].stops[a] \notin ToSet(Origins)}}

Starts == {<<o, 0, Unrestricted>> : o \in ToSet(Origins)} \union {<<w[1], w[2], Origin>> : w \in ToSet(query.access)}
          \union UNION {{<<w[1], w[2], Origin>> : w \in ToSet(net.walks[o])} : o \in ToSet(Origins)}

\* <<depart, arrival, post>> after n rides, walks only between rides.
After[n \in Nat] ==
  IF n = 1
  THEN UNION {UNION {Rides(net.trips[b[1]].board[b[2][2]] - s[2], b) : b \in Boardings(s[1], query.after + s[2], s[3])} : s \in Starts}
  ELSE UNION {UNION {Rides(r[1], b) : b \in Boardings(r[3], r[2], Unrestricted)
                \union UNION {Boardings(w[1], r[2] + w[2], r[3]) : w \in ToSet(net.walks[r[3]])}} : r \in After[n - 1]}

Journeys ==
  {j \in UNION {UNION {
       (IF r[3] \in DOMAIN Targets THEN {<<r[1], r[2] + (IF query.egress THEN Targets[r[3]] ELSE 0), n>>} ELSE {})
       \union (IF query.egress THEN {} ELSE {<<r[1], r[2] + w[2], n>> : w \in {w \in ToSet(net.walks[r[3]]) : w[1] \in DOMAIN Targets}})
         : r \in After[n]} : n \in 1 .. MaxVehicles} :
     j[2] < j[1] + Horizon}

--------------------------------------------------------------------------------
(* Properties *)

\* Shapes of the state; bounds never rise with more vehicles.
TypeOK ==
  /\ step \in {"window", "run", "round", "done"}
  /\ run.k \in Counts /\ \A i \in DOMAIN run.marked : run.marked[i].stop \in Stops
  /\ plan.start <= plan.end /\ found \subseteq Nat \X Nat \X (1 .. MaxVehicles)
  /\ \A s \in Stops, k \in 1 .. MaxVehicles : bounds.ride[s][k] <= bounds.ride[s][k - 1]

\* Of the journeys that leave before the last window's end, every one that no
\* journey improves on is offered, and what is offered exists at those times and
\* none of it improves on another: nothing pruned by the bounds of another departure, by the lower bounds, by
\* what was scanned before, by permissions or between windows is missing.  And
\* enough were found, or the whole span is covered.
FrontComplete ==
  step = "done" =>
    LET all == {j : j \in Journeys}
        leaving == {j \in all : j[1] < plan.end}
    IN  /\ FrontOf(all) \intersect leaving \subseteq found
        /\ found \subseteq leaving /\ FrontOf(found) = found
        /\ Cardinality(found) >= query.results \/ plan.end = query.after + Span

\* What pruning relies on: no late arrival is before the ride without delay, none
\* falls as the ride gets longer, and no journey reaches a target from a post
\* sooner than its lower bound, ride by ride and walk by walk.
BoundsHold ==
  /\ \A d \in 0 .. Horizon : d <= High(d) /\ High(d) <= High(d + 1)
  /\ \A t \in DOMAIN net.trips, slot \in DOMAIN lists :
       net.trips[t].pattern = slot[1] =>
         \A a \in ToSet(Alights(net, slot)) :
           toTarget[Stop(net, slot)] <= Late(net.trips[t], slot[2], a) - net.trips[t].base[slot[2]]
                                        + toTarget[net.patterns[slot[1]].stops[a]]
  /\ \A s \in Stops, w \in UNION {ToSet(net.walks[x]) : x \in Stops} :
       w \in ToSet(net.walks[s]) => toTarget[s] <= w[2] + toTarget[w[1]]

\* The boarding lists a live patch moves trips in are those that a network with
\* the patched times would be built with.
PatchedListsBuilt == lists = Lists(net)
==================================================================================
