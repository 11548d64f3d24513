------------------------------ MODULE LiveVehicles ------------------------------
(* live.Matcher and live_times.view: requests share a matcher that reads vehicles'   *)
(* positions as trips of their duty and remembers each vehicle's last fix, and a     *)
(* network patched with the fixes of one feed object. The vehicles drive a duty to   *)
(* and fro along one street, so that a place alone does not tell the trip; a place   *)
(* is a distance from one end, and both ends are termini. Shapes and interpolation   *)
(* are left out: timetables run one place a tick, and usual delays are none.         *)
EXTENDS Lists

CONSTANTS
  Vehicles,       \* vehicles in service under the duty's line and brigade
  Silent,         \* vehicles that may be missing from an object
  Joins,          \* <<vehicle, the trip it is put on>> in the feed's order
  Due,            \* timetable at each trip's first stop: odd trips leave place 0
  Length,         \* places from one end to the other
  BeforeTrip, AfterTrip, Earliest, Latest, Stuck, Memory, Speed,
  MaxTime         \* ticks, a bound of the model

VARIABLES
  time,
  truth,      \* each vehicle: its trip and the places it has gone
  feed,       \* the last two feed objects: their time, and the place and truth of each vehicle in them
  last,       \* Matcher.last: a vehicle's last fix
  updatedAt, fixes,  \* Matcher's object and its fixes by trip
  stood,      \* the trip a vehicle has been seen standing for, and since when
  followed,   \* vehicles whose last fix is right
  wrong,      \* what is wrong with the last matching: <<kind, vehicle>>
  found,      \* objects whose fixes a request has and has not shown
  view,       \* _View: the object the shared network is patched to
  given       \* the view last given: the object of its network and of its fixes

vars == <<time, truth, feed, last, updatedAt, fixes, stood, followed, wrong, found, view, given>>
matcher == <<last, updatedAt, fixes, stood, followed, wrong>>

Trips == DOMAIN Due
None == -1
NoFix == [trip |-> 0, seen |-> None, dist |-> 0, delay |-> 0, waiting |-> FALSE, arrived |-> None]

\* Distance along the trip's shape.
Along(trip, place) == IF trip % 2 = 1 THEN place ELSE Length - place

-----------------------------------------------------------------------------------
(* The vehicles and the poller *)

\* A vehicle leaves its first stop when the trip is due or later, drives on or stands,
\* and stands for the next trip once it has arrived.
Moves(v) ==
  LET t == truth[v]
      on(trip, dist) == IF dist >= Length /\ trip < Len(Due) THEN [trip |-> trip + 1, dist |-> 0]
                        ELSE [trip |-> trip, dist |-> Least(dist, Length)]
  IN  {t} \union (IF t.dist = 0 /\ time + 1 < Due[t.trip] THEN {} ELSE {on(t.trip, t.dist + k) : k \in 1 .. 2})

\* The poller writes an object; a silent vehicle is not in it. The refresher reads each
\* object, and a request is done within two of them.
Tick ==
  /\ time < MaxTime /\ time' = time + 1 /\ found = {} /\ (feed # <<>> => given[2] # None)
  /\ \E seen \in {Vehicles \ s : s \in SUBSET Silent}, to \in [Vehicles -> UNION {Moves(v) : v \in Vehicles}] :
       /\ \A v \in Vehicles : to[v] \in Moves(v)
       /\ truth' = to
       /\ feed' = <<[at |-> time', place |-> [v \in seen |-> Along(to[v].trip, to[v].dist)], truth |-> to]>>
                  \o (IF feed = <<>> THEN <<>> ELSE <<feed[1]>>)
  /\ given' = <<None, None>> /\ UNCHANGED <<matcher, found, view>>

-----------------------------------------------------------------------------------
(* live.Matcher *)

\* A reading is a fix and its cost; one that continues the last fix beats every other.
Continues == 100
Size(n) == IF n < 0 THEN -n ELSE n
Reading(trip, at, dist, delay, waiting, arrived, cost) ==
  {[fix |-> [trip |-> trip, seen |-> at, dist |-> dist, delay |-> delay, waiting |-> waiting, arrived |-> arrived],
    cost |-> cost]}

Arrival(previous, at) == previous.arrived
Waiting(previous, at, trip) ==
  LET delay == at - Due[trip]
      stays == previous.trip = trip /\ previous.waiting
      comes == previous.trip # 0 /\ ~previous.waiting /\ previous.trip + 1 = trip
      arrived == IF stays THEN Arrival(previous, at) ELSE IF comes THEN at ELSE None
  IN  IF delay < -BeforeTrip \/ delay > Latest \/ (delay > Stuck /\ (arrived = None \/ at - arrived > Stuck)) THEN {}
      ELSE Reading(trip, at, 0, delay, TRUE, arrived, Greatest(delay, 0) - (IF stays \/ comes THEN Continues ELSE 0))

\* mutant: only the place decides, not the last fix.
Follows_Never(previous, at, trip, along) == FALSE
Follows(previous, at, trip, along) ==
  /\ previous.trip = trip
  /\ along >= previous.dist /\ along <= previous.dist + Greatest(0, at - previous.seen) * Speed
Running(previous, at, trip, along) ==
  LET delay == at - (Due[trip] + along)
  IN  IF delay < Earliest \/ delay > Latest THEN {}
      ELSE Reading(trip, at, along, delay, FALSE, None,
                   Size(delay) - (IF Follows(previous, at, trip, along) THEN Continues ELSE 0))

\* Trips whose timetable is near; at the end of one the vehicle waits for the next.
ReadAs(previous, at, place, trip) ==
  LET along == Along(trip, place)
  IN  IF at < Due[trip] - BeforeTrip \/ at > Due[trip] + Length + AfterTrip THEN {}
      ELSE IF along = Length THEN (IF trip + 1 \in Trips THEN Waiting(previous, at, trip + 1) ELSE {})
      ELSE IF along = 0 THEN Waiting(previous, at, trip)
      ELSE Running(previous, at, trip, along)
Better(best, new) == IF new # {} /\ (best = {} \/ \A n \in new, b \in best : n.cost < b.cost) THEN new ELSE best
Match(previous, at, place) == Fold(LAMBDA best, trip : Better(best, ReadAs(previous, at, place, trip)), {}, [t \in Trips |-> t])

\* Two vehicles on one trip: the one in service, else the better reading.
Holds(other, reading) ==
  \/ other.fix.waiting /\ ~reading.fix.waiting
  \/ other.fix.waiting = reading.fix.waiting /\ reading.cost < other.cost

\* Matcher.update: what each vehicle is read as, and what remains of the memory.
Remembered(now) == [v \in Vehicles |-> IF now - last[v].seen <= Memory THEN last[v] ELSE NoFix]
Readings(object) == [v \in DOMAIN object.place |-> Match(last[v], object.at, object.place[v])]
Held(readings) ==
  [t \in {r.fix.trip : r \in UNION {readings[v] : v \in DOMAIN readings}} |->
     LET claims == {v \in DOMAIN readings : \E r \in readings[v] : r.fix.trip = t}
         of(v) == CHOOSE r \in readings[v] : TRUE
         order == SelectSeq(Joins, LAMBDA j : j[1] \in claims)
     IN  Fold(LAMBDA h, j : IF Holds(h, of(j[1])) THEN of(j[1]) ELSE h, of(order[1][1]), order).fix]

-----------------------------------------------------------------------------------
(* Requests *)

\* What a matching got wrong: a vehicle turned onto another trip whose times it moves,
\* although it was read right in the object before and is neither too early
\* nor too late; one that
\* stands at its terminus for long, long past due; one parked there read as the trip's
\* although another runs it.
Wrong(object, readings, read, fixOf(_)) ==
  LET truly(v) == object.truth[v]
      delay(v) == object.at - Due[truly(v).trip] - truly(v).dist
      held == Held(readings)
  IN  {<<"turned", v>> : v \in {v \in read \cap followed : /\ object.at = last[v].seen + 1
                                  /\ delay(v) \in Earliest .. Latest
                                  /\ fixOf(v).trip # truly(v).trip /\ (fixOf(v).waiting => fixOf(v).arrived # None)}}
      \union {<<"stuck", v>> : v \in {v \in read : /\ fixOf(v).waiting /\ fixOf(v).trip = truly(v).trip
                                       /\ delay(v) > Stuck /\ stood[v][1] = truly(v).trip /\ object.at - stood[v][2] > Stuck}}
      \union {<<"parked", v>> : v \in {v \in read : ~fixOf(v).waiting /\ held[fixOf(v).trip].waiting}}

\* live.current: the object is taken before the matcher's lock, so that one request may
\* bring the object before the one another has brought.
Update ==
  \E object \in {feed[i] : i \in DOMAIN feed} : \E readings \in {Readings(object)} :
  LET fixOf(v) == (CHOOSE x \in readings[v] : TRUE).fix
      read == {v \in DOMAIN object.place : readings[v] # {}}
      stands(v) == object.truth[v].dist = 0
  IN  /\ found' = found \union {object.at} /\ UNCHANGED <<time, truth, feed, view, given>>
      /\ IF object.at = updatedAt THEN UNCHANGED matcher
         ELSE /\ updatedAt' = object.at /\ fixes' = Held(readings) /\ wrong' = Wrong(object, readings, read, fixOf)
              /\ last' = [v \in Vehicles |-> IF v \in read THEN fixOf(v) ELSE Remembered(object.at)[v]]
              /\ followed' = {v \in read : fixOf(v).trip = object.truth[v].trip} \union (followed \ read)
              /\ stood' = [v \in Vehicles |-> IF ~stands(v) THEN <<0, None>>
                             ELSE IF v \in DOMAIN object.place /\ stood[v][1] # object.truth[v].trip
                             THEN <<object.truth[v].trip, object.at>> ELSE stood[v]]

\* live_times.view under its lock: the shared network is patched to the object found.
\* mutant: a network that is patched is taken as it is.
Patched_Once(at) == view # None
Patched(at) == view = at
View ==
  \E at \in found :
    /\ view' = IF Patched(at) THEN view ELSE at
    /\ given' = <<view', at>> /\ found' = found \ {at}
    /\ UNCHANGED <<time, truth, feed, matcher>>

Init ==
  /\ time = 0 /\ feed = <<>> /\ last = [v \in Vehicles |-> NoFix] /\ updatedAt = None /\ fixes = <<>>
  /\ truth = [v \in Vehicles |-> [trip |-> (CHOOSE j \in {Joins[i] : i \in DOMAIN Joins} : j[1] = v)[2], dist |-> 0]]
  /\ stood = [v \in Vehicles |-> <<0, None>>] /\ followed = {} /\ wrong = {} /\ found = {} /\ view = None /\ given = <<None, None>>

Next == Tick \/ Update \/ View

Spec == Init /\ [][Next]_vars

TypeOK ==
  /\ time \in 0 .. MaxTime /\ updatedAt \in None .. time /\ view \in None .. time /\ found \subseteq 0 .. time
  /\ DOMAIN fixes \subseteq Trips /\ \A v \in Vehicles : last[v].trip \in Trips \union {0} /\ last[v].seen <= time

\* A vehicle that was read right and is in the next object is not read as on another
\* trip whose times it would move, although the way back is the same street and the
\* other trip's timetable may be closer.
TripKept == \A w \in wrong : w[1] # "turned"

\* A vehicle seen standing at its terminus for long, long past due, is not waiting for
\* its trip: silences do not make it look newly arrived.
StuckServesNothing == \A w \in wrong : w[1] # "stuck"

\* A trip that is being run is not held by a vehicle parked at its start.
RunnerHolds == \A w \in wrong : w[1] # "parked"

\* The network, the fixes and the time a request is given are of one object.
OneObject == given[1] = given[2]
==================================================================================
