-------------------------------- MODULE TripFacts --------------------------------
(* facts.py of the matcher: a course's alignment becomes a trip fact, with the   *)
(* quality of the observation, and one event for each expected passenger stop.   *)
(* The queries that join and aggregate the rows are modelled by what they        *)
(* compute; a course has one confidence, all its crossings share it.             *)
EXTENDS StopAlignment

CONSTANTS
  LargePingGap,        \* LARGE_PING_GAP_SECONDS
  TerminalTolerance,   \* TERMINAL_STOP_TOLERANCE
  ProgressLag,         \* TERMINAL_PROGRESS_LAG_SECONDS
  LargeStopGap,        \* LARGE_STOP_SEQUENCE_GAP
  MaxSpeedEvents, MaxSpeedSegments   \* MAX_TOLERATED_SPEED_*

VARIABLE fact

MaxOf(S) == CHOOSE x \in S : \A y \in S : x >= y
MinOf(S) == CHOOSE x \in S : \A y \in S : x <= y

\* Stops that must be served; the others are optional.
Required == {i \in Passengers : Exec.settled /\ ~Stops[i].request}
Expected == {i \in Passengers : Exec.settled}
Arrived == {i \in Expected : selected # <<>> /\ selected[i] # None}

\* alignment_confidence of an arrival; "none" when there is none.
Confidence(i) == IF i \notin Arrived THEN "none" ELSE IF ambiguous THEN "medium" ELSE "high"
Detected == {i \in Required : Confidence(i) = "high"}

Ordinal(i) == Cardinality({j \in Required : j <= i})
StopGap ==
  MaxOf({0} \union {Ordinal(i) - Ordinal(j) : <<i, j>> \in {<<i, j>> \in Detected \X Detected :
                      j < i /\ \A k \in Detected : ~(j < k /\ k < i)}})
NonMonotonic == \E i, j \in Detected : i < j /\ selected[i].time > selected[j].time

Owned == SelectSeq(Pings, LAMBDA p : Exec.from <= p[1] /\ p[1] <= Exec.to)
PingGap == MaxOf({0} \union {Owned[k + 1][1] - Owned[k][1] : k \in 1 .. Len(Owned) - 1})
TooFast == {k \in 1 .. Len(Owned) - 1 : Abs(Owned[k + 1][2] - Owned[k][2]) > MaxSpeed * (Owned[k + 1][1] - Owned[k][1])}
SpeedEvents == {k \in TooFast : k - 1 \notin TooFast}

--------------------------------------------------------------------------------
(* classify_trip *)

FirstObserved == Required # {} /\ Detected # {} /\ MinOf(Detected) <= MinOf(Required) + TerminalTolerance
LastObserved == Required # {} /\ Detected # {} /\ MaxOf(Detected) >= MaxOf(Required) - TerminalTolerance
EndDelay == Delay(selected[MaxOf(Detected)])
Stale == Required # {} /\ Detected # {} /\ ~LastObserved /\ EndDelay >= -ProgressLag

\* Shares of the required stops, in tenths.
Complete == Required # {} /\ 10 * Cardinality(Detected) >= 8 * Cardinality(Required)
Broken == Required # {} /\ 10 * Cardinality(Detected) < 3 * Cardinality(Required)
BadAssignment ==
  \/ Broken \/ PingGap > 2 * LargePingGap \/ NonMonotonic
  \/ Cardinality(SpeedEvents) > MaxSpeedEvents \/ Cardinality(TooFast) > MaxSpeedSegments

\* mutant: a long silence of the vehicle does not count against a complete trip
Quality_AnyPingGap ==
  IF ~Exec.settled \/ BadAssignment THEN "broken"
  ELSE IF Complete /\ FirstObserved /\ LastObserved THEN "complete" ELSE "partial"

Quality ==
  IF ~Exec.settled \/ BadAssignment THEN "broken"
  ELSE IF Complete /\ FirstObserved /\ LastObserved /\ StopGap <= LargeStopGap /\ PingGap <= LargePingGap
       THEN "complete"
  ELSE "partial"

ServiceClass ==
  IF ~Exec.settled \/ BadAssignment THEN "matching_failure"
  ELSE IF StopGap > LargeStopGap \/ Stale THEN "modified"
  ELSE IF FirstObserved /\ LastObserved THEN "regular"
  ELSE "truncated"

\* The event of an expected stop.
Status(i, service) ==
  IF Confidence(i) = "high" THEN "observed"
  ELSE IF Confidence(i) # "none" THEN "uncertain"
  ELSE IF service = "matching_failure" THEN "uncertain"
  ELSE IF Stops[i].request THEN "skipped_optional" ELSE "missed"

NoFact == [quality |-> "none"]
FactsInit == Init /\ fact = NoFact

\* Courses without high confidence are not accepted.
Build ==
  /\ at = "done" /\ Exec.eligible /\ fact = NoFact
  /\ LET service == ServiceClass
     IN  fact' = [quality |-> Quality, service |-> service, detected |-> Cardinality(Detected),
                  expected |-> Cardinality(Required), events |-> [i \in Expected |-> Status(i, service)]]
  /\ UNCHANGED vars

FactsNext == Build \/ (Next /\ UNCHANGED fact)

--------------------------------------------------------------------------------
(* Properties *)

\* A stop is reported as missed only on evidence: no arrival at the stop is
\* published, and of a course with required stops the path is not ambiguous and no
\* less than the broken ratio of those stops was seen.
MissedOnEvidence ==
  fact # NoFact =>
    \A i \in DOMAIN fact.events :
      fact.events[i] \in {"missed", "skipped_optional"} =>
        /\ i \notin Arrived
        /\ Required # {} => ~ambiguous /\ 10 * fact.detected >= 3 * fact.expected

\* The trip's quality, its class of service and its events tell one story: what is
\* complete is regular, what is broken is a matching failure and misses nothing,
\* and as many required stops are observed as the trip counts.
FactsAgree ==
  fact # NoFact =>
    /\ fact.quality = "broken" <=> fact.service = "matching_failure"
    /\ fact.quality = "complete" =>
         /\ fact.service = "regular"
         /\ 10 * Cardinality({i \in Required : fact.events[i] = "missed"}) <= 2 * fact.expected
    /\ fact.service = "matching_failure" => \A i \in DOMAIN fact.events : fact.events[i] \in {"observed", "uncertain"}
    /\ fact.detected = Cardinality({i \in Required : fact.events[i] = "observed"})

\* A complete trip was followed all the way: between any two required stops that
\* were observed one after the other few others lie, and the vehicle was never silent
\* for long while the course owned it.
CompleteIsFollowed ==
  fact # NoFact /\ fact.quality = "complete" =>
    /\ \A i, j \in Required :
         i < j /\ (\A k \in Required : i <= k /\ k <= j => fact.events[k] # "observed") =>
           Cardinality({k \in Required : i <= k /\ k <= j}) < LargeStopGap
    /\ \A k \in 1 .. Len(Pings) - 1 :
         Exec.from <= Pings[k][1] /\ Pings[k + 1][1] <= Exec.to => Pings[k + 1][1] - Pings[k][1] <= LargePingGap
==================================================================================
