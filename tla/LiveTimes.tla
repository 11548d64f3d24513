------------------------------- MODULE LiveTimes --------------------------------
(* live_times.row_times: the times of a duty's trips moved by where its vehicle is.  *)
(* A fix carries its delay down its trip by the calibration and, through a           *)
(* turnaround, into the next trip. Times are seconds; what the code computes as a    *)
(* float is in eighths of one, with shares of a half between stops and alphas of     *)
(* halves, and is rounded where the code rounds.                                     *)
EXTENDS Lists

CONSTANTS
  NoBoard,      \* NO_BOARD
  PassedM,      \* a stop this far behind the vehicle is passed
  Tolerance,    \* of "be at the stop by"
  LeaveLaterWithin,
  Calibrations, \* [horizons, alphas (in halves), bands, errors, turnaround]
  Duties,       \* two trips one after the other: [sched, expected, board, late, dist], one entry per stop
  Delays, Lags  \* what a fix may be late by, and how old it may be

VARIABLES
  duty, calibration, fix, now,  \* what row_times is given: the fix is of the duty's first trip
  starts,     \* the next trip's predicted start, in eighths
  out,        \* moved rows: [trip, row, board, expected, late]
  at

vars == <<duty, calibration, fix, now, starts, out, at>>

\* Along a trip neither the timetable nor, by a running maximum, the usual times go
\* back, and the load makes no late time earlier than the usual one; a calibration has
\* an alpha and bands for each horizon, and errors for each band.
Rising(s) == \A i, j \in DOMAIN s : i <= j => s[i] <= s[j]
TripOK(trip) ==
  LET n == Len(trip.sched)
  IN  /\ n \in Nat /\ n > 1
      /\ trip.sched \in [1 .. n -> Int] /\ trip.expected \in [1 .. n -> Nat]
      /\ trip.board \in [1 .. n -> Int] /\ trip.late \in [1 .. n -> Int] /\ trip.dist \in [1 .. n -> Int]
      /\ Rising(trip.sched) /\ Rising(trip.expected) /\ Rising(trip.dist)
      /\ \A i \in 1 .. n : trip.late[i] >= trip.expected[i]
CalibrationOK(c) ==
  LET n == Len(c.horizons)
  IN  /\ n \in Nat /\ c.horizons \in [1 .. n -> Int] /\ c.alphas \in [1 .. n -> Nat] /\ c.turnaround \in Int
      /\ \A i \in 1 .. n : LET m == Len(c.bands[i])
                           IN  m \in Nat \ {0} /\ c.bands[i] \in [1 .. m -> Int] /\ c.errors[i] \in [1 .. m -> Int \X Int \X Int]
TimesAssumption ==
  /\ NoBoard \in Int /\ PassedM \in Nat /\ Tolerance \in Int /\ LeaveLaterWithin \in Int
  /\ Delays \subseteq Int /\ Lags \subseteq Nat
  /\ \A d \in Duties : Len(d) = 2 /\ TripOK(d[1]) /\ TripOK(d[2])
  /\ \A c \in Calibrations : CalibrationOK(c)

Floor(u) == u \div 8
Ceil(u) == -((-u) \div 8)
\* Python's round: a half goes to the even neighbour.
Round(u) == LET n == (u + 4) \div 8 IN IF u % 8 = 4 /\ n % 2 = 1 THEN n - 1 ELSE n
Never == -1000

\* Matcher.at's usual delay, between two stops half of each.
Usual(trip, dist) ==
  LET delay(i) == trip.expected[i] - trip.sched[i]
      i == CHOOSE i \in DOMAIN trip.dist : trip.dist[i] <= dist /\ \A j \in DOMAIN trip.dist : j > i => trip.dist[j] > dist
  IN  IF trip.dist[i] = dist THEN 8 * delay(i) ELSE 4 * (delay(i) + delay(i + 1))

\* Calibration.ahead: the first horizon that reaches so far, and its last band that
\* the excess reaches or else the first; none beyond the horizons.
Ahead(seconds, excess) ==
  LET reach == {i \in DOMAIN calibration.horizons : seconds <= calibration.horizons[i]}
      i == CHOOSE i \in reach : \A j \in reach : i <= j
      in == {b \in DOMAIN calibration.bands[i] : b = 1 \/ 8 * calibration.bands[i][b] <= excess}
      band == CHOOSE b \in in : \A c \in in : c <= b
      e == calibration.errors[i][band]
  IN  IF reach = {} THEN {}
      ELSE {[carried |-> (calibration.alphas[i] * excess) \div 2, low |-> 8 * e[1], mid |-> 8 * e[2], high |-> 8 * e[3]]}

Row(trip, row, board, expected, late) == {[trip |-> trip, row |-> row, board |-> board, expected |-> expected, late |-> late]}

\* _keep_order
\* mutant: past the horizon the usual times are kept.
InOrderRow_Usual(t, row, previous) == {}
InOrderRow(t, row, previous) ==
  LET trip == duty[t]
  IN  IF 8 * trip.expected[row] < previous
      THEN Row(t, row, trip.board[row], Ceil(previous), Greatest(trip.late[row], Ceil(previous))) ELSE {}

\* "Be at the stop by" may always move earlier, and later only for a stop soon ahead.
MayLeaveLater(dist, expected) == dist > fix.dist /\ expected - 8 * now <= 8 * LeaveLaterWithin
LiveBoard(base, q, expected) == Least(Floor(base + q.low + 8 * Tolerance), Floor(expected))
Board(usual, live, dist, expected) ==
  IF usual < NoBoard /\ (live < usual \/ MayLeaveLater(dist, expected)) THEN live ELSE usual

\* _running: a fold over the rows with the time of the row before.
RunRow(acc, row) ==
  LET trip == duty[1]
      excess == 8 * fix.delay - Usual(trip, fix.dist)
      ahead == Ahead(trip.sched[row] - (fix.seen - fix.delay), excess)
  IN  IF trip.dist[row] < fix.dist - PassedM
      THEN [acc EXCEPT !.out = @ \union Row(1, row, NoBoard, trip.expected[row], trip.late[row])]
      ELSE IF ahead = {} THEN [acc EXCEPT !.out = @ \union InOrderRow(1, row, acc.previous)]
      ELSE LET q == CHOOSE q \in ahead : TRUE
               base == 8 * trip.expected[row] + q.carried
               expected == Greatest(base + q.mid, acc.previous)
           IN  [out |-> acc.out \union Row(1, row, Board(trip.board[row], LiveBoard(base, q, expected), trip.dist[row], expected),
                                           Round(expected), Ceil(Greatest(base + q.high, expected))),
                previous |-> expected, arrival |-> IF row = Len(trip.sched) THEN expected ELSE Never]

Indices(s) == [i \in 1 .. Len(s) |-> i]
Given ==
  /\ at = "given"
  /\ LET run == Fold(RunRow, [out |-> {}, previous |-> Never, arrival |-> Never], Indices(duty[1].sched))
     IN  IF fix.waiting
         THEN out' = {} /\ starts' = IF fix.arrived = Never THEN Never ELSE 8 * (fix.arrived + calibration.turnaround)
         ELSE out' = run.out /\ starts' = IF run.arrival = Never THEN Never ELSE run.arrival + 8 * calibration.turnaround
  /\ at' = "starting" /\ UNCHANGED <<duty, calibration, fix, now>>

\* _starting: only the expected and late times of a trip that will leave late.
StartLate(late, expected, usual) == Ceil(Greatest(Greatest(late, expected), 8 * usual))
StartRow(t, acc, row) ==
  LET trip == duty[t]
      excess == starts - 8 * trip.expected[1]
      ahead == Ahead(trip.sched[row] - trip.sched[1], excess)
  IN  IF ahead = {} THEN [acc EXCEPT !.out = @ \union InOrderRow(t, row, acc.previous)]
      ELSE LET q == CHOOSE q \in ahead : TRUE
               usual == 8 * trip.expected[row] + q.carried
               expected == IF row = 1 THEN starts ELSE Greatest(usual + q.mid, acc.previous)
               late == IF row = 1 THEN starts + q.high - q.mid ELSE usual + q.high
           IN  [out |-> acc.out \union Row(t, row, trip.board[row], Round(expected), StartLate(late, expected, trip.late[row])),
                previous |-> expected]
Starting ==
  /\ at = "starting"
  /\ LET t == IF fix.waiting THEN 1 ELSE 2
         Step(acc, row) == StartRow(t, acc, row)
         moved == Fold(Step, [out |-> {}, previous |-> Never], Indices(duty[t].sched))
     IN  out' = IF starts = Never \/ starts <= 8 * duty[t].expected[1] THEN out ELSE out \union moved.out
  /\ at' = "done" /\ UNCHANGED <<duty, calibration, fix, now, starts>>

\* A vehicle anywhere on the first trip or waiting for it, with any plausible delay.
Init ==
  /\ duty \in Duties /\ calibration \in Calibrations /\ starts = Never /\ out = {} /\ at = "given"
  /\ \E delay \in Delays, i \in 1 .. Len(duty[1].sched) - 1, half \in BOOLEAN, waiting \in BOOLEAN, lag \in Lags :
       LET trip == duty[1]
           sched == trip.sched[i] + (IF half THEN (trip.sched[i + 1] - trip.sched[i]) \div 2 ELSE 0)
           seen == IF waiting THEN trip.sched[1] + delay ELSE sched + delay
       IN  /\ fix = [dist |-> trip.dist[i] + (IF half THEN (trip.dist[i + 1] - trip.dist[i]) \div 2 ELSE 0),
                     delay |-> delay, seen |-> seen, waiting |-> waiting, arrived |-> IF waiting /\ ~half THEN seen - lag ELSE Never]
           /\ now = seen + lag /\ (waiting => i = 1)

Next == Given \/ Starting \/ (at = "done" /\ UNCHANGED vars)

Spec == Init /\ [][Next]_vars

TypeOK ==
  /\ at \in {"given", "starting", "done"}
  /\ \A r \in out : r.trip \in 1 .. 2 /\ r.row \in DOMAIN duty[r.trip].sched

-----------------------------------------------------------------------------------
Rows(t) == DOMAIN duty[t].sched
IsMoved(t, i) == \E r \in out : r.trip = t /\ r.row = i
MovedRow(t, i) == CHOOSE r \in out : r.trip = t /\ r.row = i
Expected(t, i) == IF IsMoved(t, i) THEN MovedRow(t, i).expected ELSE duty[t].expected[i]
Passed(t, i) == t = 1 /\ ~fix.waiting /\ duty[t].dist[i] < fix.dist - PassedM

\* A vehicle is not expected at a stop before it is at the one ahead of it, also where
\* the calibration ends between them or its errors change from band to band.
StopsInOrder ==
  at = "done" => \A t \in 1 .. 2 : \A i \in Rows(t) :
    i + 1 \in Rows(t) /\ ~Passed(t, i) => Expected(t, i) <= Expected(t, i + 1)

\* A moved stop's times agree: of a vehicle on the way nobody is told to be there after
\* it is expected where the plan told nobody so, and the late bound is not before the
\* expected time; of a trip that starts late it is not before the timetable's either.
TimesAgree ==
  \A r \in out :
    /\ r.late >= r.expected
    /\ r.board < NoBoard /\ r.trip = 1 /\ ~fix.waiting /\ duty[1].board[r.row] <= duty[1].expected[r.row] =>
         r.board <= r.expected
    /\ r.trip = 2 \/ fix.waiting => r.late >= duty[r.trip].late[r.row]

\* Who plans by the timetable still gets the vehicle: one is told to come later than
\* the timetable says only when the vehicle is near, on its way to the stop, and the
\* stop is soon.
PlanHolds ==
  \A r \in out : r.board < NoBoard /\ r.board > duty[r.trip].board[r.row] =>
    /\ r.trip = 1 /\ ~fix.waiting /\ duty[1].dist[r.row] > fix.dist
    /\ r.expected - now <= LeaveLaterWithin + 1

-----------------------------------------------------------------------------------
(* What makes them inductive *)

FixOK ==
  /\ fix.dist \in Int /\ fix.delay \in Int /\ fix.seen \in Int /\ fix.arrived \in Int /\ fix.waiting \in BOOLEAN
  /\ duty[1].dist[1] <= fix.dist /\ fix.dist <= duty[1].dist[Len(duty[1].dist)]

\* The stops are in order all the time; each row is moved once, and the trip of a
\* vehicle that waits, or the next one, is moved last.
TimesInv ==
  /\ duty \in Duties /\ calibration \in Calibrations /\ FixOK /\ now \in Int /\ starts \in Int
  /\ at \in {"given", "starting", "done"}
  /\ out \subseteq [trip : 1 .. 2, row : Nat, board : Int, expected : Int, late : Int]
  /\ \A r \in out : r.row \in Rows(r.trip)
  /\ \A r, s \in out : r.trip = s.trip /\ r.row = s.row => r = s
  /\ at = "given" => out = {}
  /\ at = "starting" => \A r \in out : r.trip = 1 /\ ~fix.waiting
  /\ \A t \in 1 .. 2 : \A i \in Rows(t) :
       i + 1 \in Rows(t) /\ ~Passed(t, i) => Expected(t, i) <= Expected(t, i + 1)
  /\ TimesAgree /\ PlanHolds
==================================================================================
