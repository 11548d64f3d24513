------------------------------ MODULE StopAlignment ------------------------------
(* stop_alignment.py of the matcher: which GPS segment is the crossing of which  *)
(* scheduled stop of an executed course.  Candidates are segments near a stop,   *)
(* within the course's ownership; a beam of histories grows stop by stop; the    *)
(* best one is freed of incoherent delays and its terminals are timed again from *)
(* the dwell outside ownership.                                                  *)
(*                                                                               *)
(* Streets are a line, distances in units of 25 m, times in minutes, costs in    *)
(* sixtieths of the code's.  A history holds its selection instead of parents    *)
(* and ranks: ranks follow the order of the selections' signatures.              *)
EXTENDS Lists

CONSTANTS
  Courses,           \* inputs: [exec, stops, pings]
  Regular, Expanded, Close,   \* radii
  MaxGap, MaxSpeed,  \* of a segment
  PreOwnership,      \* PRE_OWNERSHIP_SEGMENT_SECONDS
  Dwell,             \* TERMINAL_DWELL_SECONDS
  MaxStates, MaxCandidates,
  Missing, Ambiguity, ExpandedPenalty, ResidualWeight, DistanceWeight,   \* costs
  MaxDelayChange

VARIABLES course, candidates, beam, full, selected, ambiguous, at
vars == <<course, candidates, beam, full, selected, ambiguous, at>>

None == [stop |-> 0]
Nowhere == -1000

Stops == course.stops      \* [pos, time, passenger, request]; in order
Pings == course.pings      \* <<time, pos>>, in time order
Exec == course.exec        \* [eligible, from, to, sourceFrom, sourceTo]
Passengers == {i \in DOMAIN Stops : Stops[i].passenger}
First == IF Passengers = {} THEN 1 ELSE CHOOSE i \in Passengers : \A j \in Passengers : i <= j
LastOne == CHOOSE i \in Passengers : \A j \in Passengers : i >= j

Lower == Greatest(Exec.from, Exec.sourceFrom)
Upper == Least(Exec.to, Exec.sourceTo)

--------------------------------------------------------------------------------
(* Candidates *)

Abs(x) == IF x < 0 THEN -x ELSE x
Distance(p, a, b) == IF Least(a, b) <= p /\ p <= Greatest(a, b) THEN 0 ELSE Least(Abs(p - a), Abs(p - b))

Radius(i) == IF Stops[i].request \/ ~Stops[i].passenger \/ i = First \/ i = LastOne THEN Expanded ELSE Regular

\* Consecutive pings far enough from each other in time, not in speed.
Segments(pings) ==
  {s \in 1 .. Len(pings) - 1 :
     LET gap == pings[s + 1][1] - pings[s][1]
     IN  1 <= gap /\ gap <= MaxGap /\ Abs(pings[s + 1][2] - pings[s][2]) <= MaxSpeed * gap}

\* The segment's crossing of the stop, timed in proportion to the ends' distances.
Crossing(i, s, pings, radius) ==
  LET a == pings[s]  b == pings[s + 1]
      near == Abs(Stops[i].pos - a[2])
      both == near + Abs(Stops[i].pos - b[2])
  IN  [stop |-> i, segment |-> s, radius |-> radius, from |-> a[1], to |-> b[1],
       distance |-> Distance(Stops[i].pos, a[2], b[2]),
       time |-> a[1] + (IF both = 0 THEN (b[1] - a[1] + 1) \div 2 ELSE (2 * (b[1] - a[1]) * near + both) \div (2 * both))]
Crossings(i, pings, radius) ==
  {c \in {Crossing(i, s, pings, radius) : s \in Segments(pings)} : c.distance <= radius}

\* Pings within ownership, after the last one shortly before it.
Bounded ==
  LET inside == SelectSeq(Pings, LAMBDA p : Lower <= p[1] /\ p[1] <= Upper)
      before == SelectSeq(Pings, LAMBDA p : Exec.sourceFrom <= p[1] /\ p[1] < Lower /\ Lower - p[1] <= PreOwnership)
  IN  IF inside = <<>> \/ before = <<>> THEN inside ELSE <<before[Len(before)]>> \o inside

Earlier(c, d) ==
  \/ c.time < d.time
  \/ c.time = d.time /\ (c.distance < d.distance \/ (c.distance = d.distance /\ c.segment < d.segment))

\* The segment that leads into ownership is for the first passenger stop only.
CrossingCandidates(i) ==
  LET near == IF Stops[i].pos = Nowhere THEN {}
              ELSE {c \in Crossings(i, Bounded, Radius(i)) : c.from >= Lower \/ i = First}
  IN  {c \in near : Cardinality({d \in near : Earlier(d, c)}) < MaxCandidates}

--------------------------------------------------------------------------------
(* The beam *)

Delay(c) == c.time - Stops[c.stop].time
Cost(c) ==
  DistanceWeight + (DistanceWeight * c.distance) \div c.radius + ResidualWeight * Abs(Delay(c))
    + (IF c.radius = Expanded THEN ExpandedPenalty ELSE 0)

Token(c) == IF c = None THEN <<-1, -1>> ELSE <<c.segment, c.time>>
TokenLess(t, u) == t[1] < u[1] \/ (t[1] = u[1] /\ t[2] < u[2])
SignatureLess(s, t) ==
  \E i \in DOMAIN s : TokenLess(Token(s[i]), Token(t[i])) /\ \A j \in 1 .. i - 1 : Token(s[j]) = Token(t[j])
Better(s, t) ==
  \/ s.count > t.count
  \/ s.count = t.count /\ (s.cost < t.cost \/ (s.cost = t.cost /\ SignatureLess(s.selected, t.selected)))
Best(S) == CHOOSE s \in S : \A t \in S \ {s} : Better(s, t)

Empty == [count |-> 0, cost |-> 0, last |-> -1, selected |-> <<>>]
Skip(s) == [s EXCEPT !.cost = @ + Missing, !.selected = Append(@, None)]
Take(s, c) == [count |-> s.count + 1, cost |-> s.cost + Cost(c), last |-> c.segment, selected |-> Append(s.selected, c)]

\* mutant: a segment may be used again by the next stop
Before_OrSame(states, segment) == {s \in states : s.last <= segment}

Before(states, segment) == {s \in states : s.last < segment}

\* A candidate extends the best history that ends before its segment.
Extended(states, alternatives) ==
  {Skip(s) : s \in states}
  \union {LET before == Best(Before(states, g))
          IN  Take(before, CHOOSE c \in alternatives : c.segment = g)
          : g \in {g \in {c.segment : c \in alternatives} : Before(states, g) # {}}}

Frontiers(states) == {s \in states : \A t \in states \ {s} : t.last = s.last => Better(s, t)}

\* Kept: the history without a segment, the one ending earliest, and the best others.
Pruned(states) ==
  LET frontiers == {s : s \in Frontiers(states)}
      none == {s \in frontiers : s.last = -1}
      some == frontiers \ none
      first == {s \in some : \A t \in some : s.last <= t.last}
      others == some \ first
  IN  none \union first
      \union {s \in others : Cardinality({t \in others : Better(t, s)}) < MaxStates - Cardinality(none \union first)}

--------------------------------------------------------------------------------
(* Delays and terminals *)

\* mutant: only a delay that grows ends a regime
SplitBefore_Growing(chosen, k) == Delay(chosen[k]) - Delay(chosen[k - 1]) > MaxDelayChange

SplitBefore(chosen, k) == Abs(Delay(chosen[k]) - Delay(chosen[k - 1])) > MaxDelayChange

\* Where the delay jumps a regime ends; the longest is kept, then the most punctual.
Coherent(selection) ==
  LET chosen == SelectSeq(selection, LAMBDA c : c # None)
      RegimeFrom(k) == {j \in k .. Len(chosen) : \A l \in k + 1 .. j : ~SplitBefore(chosen, l)}
      starts == {k \in DOMAIN chosen : k = 1 \/ SplitBefore(chosen, k)}
      Lateness(k) == Fold(LAMBDA sum, j : sum + Abs(Delay(chosen[j])), 0,
                          Sorted(RegimeFrom(k), LAMBDA i, j : i < j))
      Preferred(k, l) ==
        LET n == Cardinality(RegimeFrom(k))  m == Cardinality(RegimeFrom(l))
        IN  n > m \/ (n = m /\ (Lateness(k) < Lateness(l) \/ (Lateness(k) = Lateness(l) /\ k < l)))
      kept == CHOOSE k \in starts : \A l \in starts \ {k} : Preferred(k, l)
      retained == {chosen[j] : j \in RegimeFrom(kept)}
  IN  IF Cardinality(starts) <= 1 THEN selection
      ELSE [i \in DOMAIN selection |-> IF selection[i] \in retained THEN selection[i] ELSE None]

\* Pings after ownership, as long as they stay at the destination.
DestinationDwell ==
  LET after == SelectSeq(Pings, LAMBDA p : p[1] > Upper)
      Stays(k) == /\ after[k][1] - Upper <= Dwell
                  /\ after[k][1] - (IF k = 1 THEN Upper ELSE after[k - 1][1]) <= MaxGap
                  /\ Abs(after[k][2] - Stops[LastOne].pos) <= Expanded
      lengths == {n \in 0 .. Len(after) : \A k \in 1 .. n : Stays(k)}
  IN  SubSeq(after, 1, CHOOSE n \in lengths : \A l \in lengths : l <= n)

\* The last close crossing on leaving the origin, the first on reaching the
\* destination, from pings just outside ownership.
DwellCrossings(i) ==
  LET before == SelectSeq(Pings, LAMBDA p : Exec.sourceFrom <= p[1] /\ p[1] < Lower /\ Lower - p[1] <= Dwell)
      inside == SelectSeq(Pings, LAMBDA p : p[1] >= Lower)
      until == SelectSeq(Pings, LAMBDA p : p[1] <= Upper)
      origin == {c \in Crossings(i, before \o SubSeq(inside, 1, Least(1, Len(inside))), Close) : i = First /\ c.from < Lower}
      arrival == IF i # LastOne THEN {}
                 ELSE {c \in Crossings(i, SubSeq(until, Greatest(1, Len(until)), Len(until)) \o DestinationDwell, Close) :
                         c.to > Upper}
  IN  IF Stops[i].pos = Nowhere THEN {}
      ELSE IF arrival # {} THEN {CHOOSE c \in arrival : \A d \in arrival : <<c.time, c.segment>> = <<d.time, d.segment>>
                                                            \/ TokenLess(<<c.time, c.segment>>, <<d.time, d.segment>>)}
      ELSE IF origin # {} THEN {CHOOSE c \in origin : \A d \in origin : <<c.time, c.segment>> = <<d.time, d.segment>>
                                                            \/ TokenLess(<<d.time, d.segment>>, <<c.time, c.segment>>)}
      ELSE {}

\* Only a selected terminal is timed again, and only in the passengers' order.
KeepsOrder(selection, i, c) ==
  /\ selection[i] # None
  /\ \A j \in Passengers \ {i} : selection[j] # None =>
       IF j < i THEN selection[j].time <= c.time ELSE c.time <= selection[j].time

Retimed(selection) ==
  [i \in DOMAIN selection |->
     LET dwell == {c \in (IF i \in Passengers THEN DwellCrossings(i) ELSE {}) : KeepsOrder(selection, i, c)}
     IN  IF dwell = {} THEN selection[i] ELSE CHOOSE c \in dwell : TRUE]

--------------------------------------------------------------------------------
(* Steps *)

Init ==
  /\ course \in Courses
  /\ candidates = <<>> /\ beam = {Empty} /\ full = FALSE
  /\ selected = <<>> /\ ambiguous = FALSE /\ at = "start"

Refuse ==
  /\ at = "start" /\ ~Exec.eligible
  /\ at' = "done"
  /\ UNCHANGED <<course, candidates, beam, full, selected, ambiguous>>

Generate ==
  /\ at = "start" /\ Exec.eligible
  /\ candidates' = <<>> \o [i \in DOMAIN Stops |-> {c : c \in CrossingCandidates(i)}]
  /\ at' = "align"
  /\ UNCHANGED <<course, beam, full, selected, ambiguous>>

Aligned == Len((CHOOSE s \in beam : TRUE).selected)
Align ==
  /\ at = "align" /\ Aligned < Len(Stops)
  /\ LET states == {s : s \in Extended(beam, candidates[Aligned + 1])}
     IN  /\ beam' = Pruned(states)
         /\ full' = (full \/ Pruned(states) # Frontiers(states))
  /\ UNCHANGED <<course, candidates, selected, ambiguous, at>>

Rivals(best) == {s \in beam \ {best} : s.count = best.count /\ s.cost - best.cost <= Ambiguity}
Select ==
  /\ at = "align" /\ Aligned = Len(Stops)
  /\ LET best == Best(beam)
         chosen == Coherent(best.selected)
     IN  /\ selected' = chosen
         /\ ambiguous' = \E s \in Rivals(best) : Coherent(s.selected) # chosen
  /\ at' = "retime"
  /\ UNCHANGED <<course, candidates, beam, full>>

Retime ==
  /\ at = "retime"
  /\ selected' = Retimed(selected)
  /\ at' = "done"
  /\ UNCHANGED <<course, candidates, beam, full, ambiguous>>

Done == at = "done" /\ UNCHANGED vars
Next == Refuse \/ Generate \/ Align \/ Select \/ Retime \/ Done

--------------------------------------------------------------------------------
(* Reference: every monotone selection without reuse *)

Selections ==
  LET all[n \in 0 .. Len(Stops)] ==
        IF n = 0 THEN {Empty}
        ELSE {Skip(s) : s \in all[n - 1]}
             \union UNION {{Take(s, c) : c \in {c \in candidates[n] : c.segment > s.last}} : s \in all[n - 1]}
  IN  all[Len(Stops)]

--------------------------------------------------------------------------------
(* Properties *)

TypeOK ==
  /\ at \in {"start", "align", "retime", "done"}
  /\ ambiguous \in BOOLEAN /\ full \in BOOLEAN
  /\ at = "retime" => Len(selected) = Len(Stops)
  /\ Cardinality(beam) <= MaxStates

\* Unless the beam was cut, the selection is the best there is: no monotone
\* selection without reuse of a segment explains more stops, or as many at less cost.
BestAlignment ==
  at = "align" /\ ~full /\ Aligned = Len(Stops) =>
    LET all == {s : s \in Selections}
        best == Best(beam)
    IN  best \in all /\ \A s \in all : s = best \/ s.count < best.count \/ (s.count = best.count /\ s.cost >= best.cost)

\* Passengers arrive at their stops in order, the terminals that were timed
\* again from outside ownership included, and both terminals at once.
PassengerOrder ==
  at = "done" /\ selected # <<>> =>
    \A i, j \in Passengers : i < j /\ selected[i] # None /\ selected[j] # None => selected[i].time <= selected[j].time

\* What happened outside the course's ownership belongs to another course: only
\* the terminals may be timed there, and not further off than their dwell.
WithinOwnership ==
  at \in {"retime", "done"} /\ selected # <<>> =>
    \A i \in DOMAIN selected : selected[i] # None =>
      LET c == selected[i]
      IN  /\ c.from >= Lower \/ (i = First /\ c.time >= Exec.sourceFrom /\ Lower - c.time <= Dwell)
          /\ c.to <= Upper \/ (i = LastOne /\ c.time - Upper <= Dwell)

\* A course is called ambiguous only when another selection of as many stops costs
\* hardly more; and then it is, if that selection ends on another segment and
\* what is kept of it differs.
AmbiguityJustified ==
  at = "retime" /\ ~full =>
    LET all == {s : s \in Selections}
        best == Best(beam)
        close == {s \in all : s.count = best.count /\ s.cost - best.cost <= Ambiguity /\ s # best}
    IN  /\ ambiguous => \E s \in close : Coherent(s.selected) # selected
        /\ (\E s \in close : /\ s.last # best.last
                             /\ \A t \in all : t.last = s.last /\ t.count = s.count => Coherent(t.selected) # selected)
           => ambiguous

\* What is kept has no jump in its delays, and dropping a regime keeps the larger part.
CoherentDelays ==
  at = "retime" =>
    LET chosen == SelectSeq(selected, LAMBDA c : c # None)
    IN  /\ \A k \in 2 .. Len(chosen) : Abs(Delay(chosen[k]) - Delay(chosen[k - 1])) <= MaxDelayChange
        /\ \A i \in DOMAIN selected : selected[i] # None => selected[i] = Best(beam).selected[i]
==================================================================================
