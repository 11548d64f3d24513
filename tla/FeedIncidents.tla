------------------------------ MODULE FeedIncidents ------------------------------
(* poller_health.py: an hour's report on one vehicle type is computed from the   *)
(* hour's summary, its baseline, the preceding hour's summary and report. The    *)
(* minutes are walked once; incidents and losses of telemetry are opened after a *)
(* number of minutes on end and closed after as many. Times are minutes; a       *)
(* collection that starts within a minute is a half more.                        *)
EXTENDS Lists

CONSTANTS
  MinutesPerHour, Duration,   \* MINUTES_PER_HOUR, duration_minutes
  MaxRecent,                  \* MAX_RECENT_INTERVALS
  Summaries,                  \* what a minute may show: sequences of kinds; "absent" is too few attempts
  Amended,                    \* what an hour's summary may have become when it is read again
  Baselines,                  \* the usual fleet of each minute: "none", "quiet" (too small to judge) or "judged"
  Starts,                     \* twice the minute collection started, or NotConfirmed
  Seeds,                      \* reports a history may start from
  MaxHour                     \* hours of a history, a bound of the model

VARIABLES
  hour,       \* the hour to evaluate
  started,    \* collection_started_at, doubled
  summary,    \* the last evaluated hour's summary, as it was read
  before,     \* the summary read for the hour before
  prior,      \* the report the last evaluation continued, as it was restored
  report      \* the last evaluation's report

vars == <<hour, started, summary, before, prior, report>>

NotConfirmed == -1
Absent == <<>>          \* no summary, or an invalid one
None == <<>>
Minutes == 1 .. MinutesPerHour
At(h, m) == MinutesPerHour * h + m - 1
End(h) == MinutesPerHour * (h + 1)
FleetReasons == {"low_fleet", "no_accepted"}

Kinds == {"absent", "failing", "empty", "low", "good"}
Usual == {"none", "quiet", "judged"}
BadReasons == FleetReasons \union {"api_failures"}

Elements(s) == {s[k] : k \in DOMAIN s}
LastOf(n, s) == SubSeq(s, Greatest(1, Len(s) - n + 1), Len(s))
MayAppend(s, ok, x) == IF ok THEN Append(s, x) ELSE s

--------------------------------------------------------------------------------
(* Evidence of a minute *)

\* validate_summary: a minute that precedes the collection makes the summary invalid.
Readable(s, h) ==
  IF s # Absent /\ started # NotConfirmed
     /\ \E m \in Minutes : s[m] # "absent" /\ 2 * (At(h, m) + 1) <= started
  THEN Absent ELSE s

Monitored(s, m) == s # Absent /\ s[m] # "absent"

\* "" when nothing is wrong.
BadReason(kind, expected) ==
  IF kind = "failing" THEN "api_failures"
  ELSE IF expected # "judged" THEN ""
  ELSE IF kind = "empty" THEN "no_accepted"
  ELSE IF kind = "low" THEN "low_fleet"
  ELSE ""

RecoveryEvidence(active, expected) == active # None /\ active[1].reason \in FleetReasons => expected = "judged"

\* preceding_bad_tail: the bad minutes the preceding hour ended with, by its own baseline.
PrecedingBadTail(h, s, baseline) ==
  IF s = Absent THEN <<>>
  ELSE LET Reason(m) == IF Monitored(s, m) THEN BadReason(s[m], baseline[m]) ELSE ""
           tail == {m \in Minutes : \A k \in m .. MinutesPerHour : Reason(k) # ""}
       IN  LastOf(Duration, [k \in 1 .. Cardinality(tail) |->
             LET m == MinutesPerHour - Cardinality(tail) + k IN [at |-> At(h - 1, m), reason |-> Reason(m)]])

Event(transition, active, at) == [transition |-> transition, start |-> active.start, at |-> at, reason |-> active.reason]

--------------------------------------------------------------------------------
(* The walk of the minutes *)

\* mutant: a gap leaves the bad minutes before it
Forgotten_Gap(w) == [w EXCEPT !.good = <<>>]

\* A minute without evidence ends both tails.
Forgotten(w) == [w EXCEPT !.bad = <<>>, !.good = <<>>]

Worse(w, at, reason) ==
  LET bad == LastOf(Duration, Append(w.bad, [at |-> at, reason |-> reason]))
      opens == w.active = None /\ Len(bad) >= Duration
      active == IF opens THEN <<[start |-> bad[1].at, reason |-> bad[1].reason]>> ELSE w.active
  IN  [w EXCEPT !.monitored = @ + 1, !.anyBad = TRUE, !.bad = bad, !.good = <<>>, !.active = active,
                !.events = MayAppend(@, opens, Event("degraded", active[1], at + 1))]

Better(w, at, proves) ==
  LET good == IF proves THEN LastOf(Duration, Append(w.good, at)) ELSE <<>>
      closes == w.active # None /\ Len(good) >= Duration
  IN  [w EXCEPT !.monitored = @ + 1, !.bad = <<>>, !.good = good,
                !.active = IF closes THEN None ELSE @,
                !.intervals = MayAppend(@, closes, [start |-> w.active[1].start, end |-> good[1], reason |-> w.active[1].reason]),
                !.events = MayAppend(@, closes, Event("recovered", w.active[1], good[1]))]

Walked(h, s, baseline, w0) ==
  LET Minute(w, m) ==
        IF started = NotConfirmed \/ 2 * (At(h, m) + 1) <= started THEN Forgotten(w)
        ELSE IF ~Monitored(s, m) THEN [Forgotten(w) EXCEPT !.gaps = TRUE]
        ELSE LET reason == BadReason(s[m], baseline[m])
             IN  IF reason # "" THEN Worse(w, At(h, m), reason)
                 ELSE Better(w, At(h, m), RecoveryEvidence(w.active, baseline[m]))
  IN  Fold(Minute, w0, [m \in Minutes |-> m])

\* monitoring_transitions: loss and return of telemetry, walked on its own.
Watched(h, s, w0) ==
  LET Gap(w, at) ==
        LET gap == LastOf(Duration, Append(w.gap, at))
            opens == w.active = None /\ Len(gap) >= Duration
        IN  [active |-> IF opens THEN <<gap[1]>> ELSE w.active, gap |-> gap, good |-> <<>>,
             events |-> MayAppend(w.events, opens, Event("monitoring_gap", [start |-> gap[1], reason |-> "monitoring_gap"], at + 1))]
      Seen(w, at) ==
        LET good == LastOf(Duration, Append(w.good, at))
            closes == w.active # None /\ Len(good) >= Duration
        IN  [active |-> IF closes THEN None ELSE w.active, gap |-> <<>>, good |-> good,
             events |-> MayAppend(w.events, closes, Event("monitoring_restored", [start |-> w.active[1], reason |-> "monitoring_gap"], good[1]))]
      Minute(w, m) ==
        IF started = NotConfirmed \/ 2 * At(h, m) < started THEN [w EXCEPT !.gap = <<>>, !.good = <<>>]
        ELSE IF Monitored(s, m) THEN Seen(w, At(h, m)) ELSE Gap(w, At(h, m))
  IN  Fold(Minute, w0, [m \in Minutes |-> m])

\* mutant: an incident carried into hours that cannot be judged is forgotten
Status_Forgets(h, w, baseline) ==
  LET judged == \E m \in Minutes : baseline[m] = "judged"
  IN  IF started = NotConfirmed \/ started >= End(h) * 2 THEN "not_monitored"
      ELSE IF w.active # None /\ w.monitored > 0 /\ (judged \/ w.anyBad) THEN "degraded"
      ELSE IF w.gaps THEN "monitoring_gap"
      ELSE IF End(h - 1) * 2 < started /\ started < End(h) * 2 THEN "partial"
      ELSE IF \A m \in Minutes : baseline[m] = "none" THEN "warming_up"
      ELSE "healthy"

\* mode_status
Status(h, w, baseline) ==
  LET partial == End(h - 1) * 2 < started /\ started < End(h) * 2
      judged == \E m \in Minutes : baseline[m] = "judged"
  IN  IF started = NotConfirmed \/ started >= End(h) * 2 THEN "not_monitored"
      ELSE IF w.active # None /\ w.monitored > 0 /\ (judged \/ w.anyBad) THEN "degraded"
      ELSE IF w.gaps THEN IF partial THEN "partial" ELSE "monitoring_gap"
      ELSE IF partial THEN "partial"
      ELSE IF \A m \in Minutes : baseline[m] = "none" THEN "warming_up"
      ELSE IF w.active # None THEN "degraded"
      ELSE "healthy"

--------------------------------------------------------------------------------
(* evaluate *)

\* An incident of a retired rule is closed at the first evaluation.
Retired(active) == active # None /\ active[1].reason = "stale_heavy"

\* rebaseline_prior_report
Rebaselined(r, h) == [r EXCEPT !.active = None, !.bad = <<>>, !.good = <<>>, !.resetAt = End(h - 1)]

\* An hour's intervals replace the entries of the same incidents.
Recent(old, intervals) ==
  LET Put(r, i) == Append(Fold(LAMBDA kept, x : MayAppend(kept, x.start # i.start, x), <<>>, r), i)
  IN  LastOf(MaxRecent, Fold(Put, old, intervals))

\* summary_after_reset
AfterReset(s, h, r) == IF r.resetAt > End(h - 2) THEN Absent ELSE s

\* The report of hour h, continuing r; last is the preceding hour's summary.
Evaluated(h, s, baseline, r, last, reset) ==
  LET p == IF reset THEN Rebaselined(r, h) ELSE r
      known == AfterReset(last, h, p)
      retired == Retired(p.active)
      closed == IF retired THEN <<[start |-> p.active[1].start, end |-> End(h - 1), reason |-> p.active[1].reason]>> ELSE <<>>
      watched == Watched(h, s, [active |-> p.monitoring.active, gap |-> p.monitoring.gap, good |-> p.monitoring.good,
                                 events |-> IF reset THEN <<Event("rebaseline", r.active[1], End(h - 1))>> ELSE <<>>])
      w == Walked(h, s, baseline,
             [active |-> IF retired THEN None ELSE p.active, bad |-> PrecedingBadTail(h, known, p.baseline),
              good |-> IF retired \/ known = Absent THEN <<>> ELSE p.good,
              intervals |-> closed,
              events |-> MayAppend(watched.events, retired, Event("recovered", p.active[1], End(h - 1))),
              monitored |-> 0, gaps |-> FALSE, anyBad |-> FALSE])
      intervals == IF w.active = None THEN w.intervals
                   ELSE Append(w.intervals, [start |-> w.active[1].start, end |-> End(h), reason |-> w.active[1].reason])
  IN  [status |-> Status(h, w, baseline), baseline |-> baseline, intervals |-> intervals,
       events |-> w.events,
       active |-> w.active, bad |-> w.bad, good |-> w.good, resetAt |-> p.resetAt,
       monitoring |-> [active |-> watched.active, gap |-> watched.gap, good |-> watched.good],
       recent |-> Recent(r.recent, intervals)]

\* validate_report_tail, validate_report_interval, validate_report_event
ValidTail(times, h) ==
  /\ \A k \in DOMAIN times : times[k] \in End(h - 1) .. End(h) - 1
  /\ \A k \in 1 .. Len(times) - 1 : times[k + 1] = times[k] + 1
ValidInterval(i, h) == i.start <= i.end /\ i.end <= End(h)
ValidEvent(e, h) ==
  /\ e.start <= e.at /\ e.at <= End(h)
  /\ e.transition = "rebaseline" => e.at = End(h - 1) /\ e.reason \in FleetReasons
ValidMonitoring(m, h) ==
  /\ \A at \in Elements(m.active) : at < End(h)
  /\ ValidTail(m.gap, h) /\ ValidTail(m.good, h) /\ (m.gap = <<>> \/ m.good = <<>>)
ValidState(r, h) ==
  /\ r.resetAt <= End(h - 1)
  /\ \A a \in Elements(r.active) : a.start <= End(h)
  /\ ValidTail([k \in DOMAIN r.bad |-> r.bad[k].at], h) /\ ValidTail(r.good, h) /\ (r.bad = <<>> \/ r.good = <<>>)
  /\ ValidMonitoring(r.monitoring, h)
ValidEvents(events, h) ==
  /\ \A e \in Elements(events) : ValidEvent(e, h)
  /\ \A k, l \in DOMAIN events :
       k # l => <<events[k].transition, events[k].start>> # <<events[l].transition, events[l].start>>

\* validate_report, without which no report is read
ValidReport(r, h) ==
  /\ Len(r.recent) <= MaxRecent /\ Len(r.intervals) <= MinutesPerHour
  /\ \A i \in Elements(r.intervals) \union Elements(r.recent) : ValidInterval(i, h)
  /\ ValidState(r, h) /\ ValidEvents(r.events, h)

\* preceding_report after an hour nobody evaluated: the tails are discarded.
Restored(r) == [r EXCEPT !.bad = <<>>, !.good = <<>>, !.monitoring.gap = <<>>, !.monitoring.good = <<>>]

\* evaluate_report: the preceding hour's summary is read anew, and may have been uploaded
\* or replaced since that hour was evaluated; it is not used after an hour nobody
\* evaluated. An operator may reset an open fleet incident.
Evaluate ==
  /\ ValidReport(report, hour - 1)
  /\ \E skipped \in 0 .. 1, read \in Summaries \union {Absent}, again \in Amended \union {summary, Absent},
        baseline \in Baselines, reset \in BOOLEAN :
       LET h == hour + skipped
           s == Readable(read, h)
           r == IF skipped = 1 THEN Restored(report) ELSE report
           last == IF skipped = 1 THEN Absent ELSE Readable(again, h - 1)
       IN  /\ h <= MaxHour
           /\ skipped = 1 => again = Absent
           /\ reset => report.active # None /\ report.active[1].reason \in FleetReasons
           /\ summary' = s /\ before' = last
           /\ prior' = r
           /\ report' = Evaluated(h, s, baseline, r, last, reset)
           /\ hour' = h + 1
  /\ UNCHANGED started

Init ==
  /\ hour = 1 /\ started \in Starts /\ summary = Absent /\ before = Absent
  /\ report \in Seeds /\ prior = report

Next == Evaluate \/ ((hour > MaxHour \/ ~ValidReport(report, hour - 1)) /\ UNCHANGED vars)

Spec == Init /\ [][Next]_vars

--------------------------------------------------------------------------------
TypeOK ==
  /\ hour \in 1 .. MaxHour + 1 /\ started \in Nat \union {NotConfirmed}
  /\ Len(summary) \in {0, MinutesPerHour} /\ Len(before) \in {0, MinutesPerHour}
  /\ \A r \in {prior, report} : Len(r.active) <= 1 /\ Len(r.bad) <= Duration /\ Len(r.good) <= Duration

\* The two hours the last evaluation saw, minute by minute.
Ever == hour > 1
this == hour - 1
Window == End(this - 2) .. End(this) - 1
SummaryAt(t) == IF t < End(this - 1) THEN before ELSE summary
MinuteOf(t) == t - (IF t < End(this - 1) THEN End(this - 2) ELSE End(this - 1)) + 1
BaselineAt(t) == IF t < End(this - 1) THEN prior.baseline[MinuteOf(t)] ELSE report.baseline[MinuteOf(t)]
Collected(t) == started # NotConfirmed /\ 2 * (t + 1) > started
Seen(t) == Collected(t) /\ t >= report.resetAt /\ Monitored(SummaryAt(t), MinuteOf(t))
Bad(t) == Seen(t) /\ BadReason(SummaryAt(t)[MinuteOf(t)], BaselineAt(t)) # ""
Fine(t) == Seen(t) /\ ~Bad(t)
Within(a, i) == i.start <= a /\ a < i.end

\* validate_report accepts every report evaluate writes: a report that fails is never
\* read again and stops the monitor.
ReportReadable == ValidReport(report, this)

\* A fleet that was bad for the whole duration is inside an incident of the report,
\* even when the minutes fall into two hours or a retired incident was still open.
NothingMissed ==
  Ever =>
    \A t \in Window :
      (t >= End(this - 1) /\ t - Duration + 1 >= End(this - 2) /\ \A u \in t - Duration + 1 .. t : Bad(u))
        => \E i \in Elements(report.intervals) :
             i.reason # "stale_heavy" /\ Within(t, i) /\ Within(t - Duration + 1, i)

\* An alert is earned: bad minutes for the whole duration, all of them read by this
\* evaluation. Neither a gap nor minutes from before a reset count.
IncidentEarned ==
  Ever => \A e \in Elements(report.events) :
    e.transition = "degraded" => \A u \in e.start .. e.start + Duration - 1 : u \in Window /\ Bad(u) /\ u < e.at

\* A recovery is earned: as many good minutes on end, of which those before this hour
\* were handed on by the report; a lost fleet is back only by minutes that usually
\* run a fleet.
RecoveryEarned ==
  Ever => \A e \in Elements(report.events) :
    e.transition = "recovered" /\ e.reason # "stale_heavy" =>
      \A u \in e.at .. e.at + Duration - 1 :
        /\ u \in Window /\ (u >= End(this - 1) => Fine(u)) /\ (u < End(this - 1) => u \in Elements(prior.good) /\ u >= report.resetAt)
        /\ e.reason \in FleetReasons /\ u >= End(this - 1) => report.baseline[MinuteOf(u)] = "judged"

\* What is open before the k-th event, by the events before it and what was open first.
OpenBy(events, opening, closing, first, k) ==
  LET told == {j \in 1 .. k - 1 : events[j].transition \in opening \union closing}
      j == CHOOSE j \in told : \A l \in told : l <= j
  IN  IF told = {} THEN first ELSE IF events[j].transition \in opening THEN {events[j].start} ELSE {}
Alternate(events, opening, closing, first, last) ==
  /\ \A k \in DOMAIN events :
       LET open == OpenBy(events, opening, closing, first, k)
       IN  /\ events[k].transition \in opening => open = {}
           /\ events[k].transition \in closing => open = {events[k].start}
  /\ OpenBy(events, opening, closing, first, Len(events) + 1) = last
IncidentOpen(r) == {a.start : a \in Elements(r.active)}

\* Transitions tell the whole story: applied in order to the state before the hour
\* they lead to the state after it, and none opens what is open or closes what is not.
EventsAlternate ==
  Ever =>
    /\ Alternate(report.events, {"degraded"}, {"recovered", "rebaseline"}, IncidentOpen(prior), IncidentOpen(report))
    /\ Alternate(report.events, {"monitoring_gap"}, {"monitoring_restored"},
                 Elements(prior.monitoring.active), Elements(report.monitoring.active))

\* "healthy" is only said of an hour all of whose minutes were watched, that no
\* incident reaches into and in which nothing was bad for the whole duration.
HealthyMeansWatched ==
  Ever /\ report.status = "healthy" =>
    /\ \A t \in End(this - 1) .. End(this) - 1 : Seen(t)
    /\ report.active = None
    /\ \A i \in Elements(report.intervals) : i.end < End(this)
--------------------------------------------------------------------------------
(* What makes them inductive *)

Reasons == BadReasons \union {"stale_heavy"}
Statuses == {"not_monitored", "degraded", "partial", "monitoring_gap", "warming_up", "healthy"}
Transitions == {"rebaseline", "degraded", "recovered", "monitoring_gap", "monitoring_restored"}
Starting == [start : Int, reason : Reasons]
Interval == [start : Int, end : Int, reason : Reasons]
Reports ==
  [status : Statuses, baseline : [Minutes -> Usual], intervals : Seq(Interval), recent : Seq(Interval),
   events : Seq([transition : Transitions, start : Int, at : Int, reason : Reasons \union {"monitoring_gap"}]),
   active : Seq(Starting), bad : Seq([at : Int, reason : BadReasons]), good : Seq(Int),
   resetAt : Int, monitoring : [active : Seq(Int), gap : Seq(Int), good : Seq(Int)]]

\* The last minutes up to t, at most as many as open or close an incident.
IsTail(times, t) ==
  times \in Seq(Int) /\ Len(times) <= Duration /\ \A k \in DOMAIN times : times[k] = t - Len(times) + k

\* What a report of hour h that the code has written says, beyond being valid: tails
\* end with the hour, what is open has lasted, and the good minutes are later than its
\* start.
Written(r, h) ==
  /\ r \in Reports /\ ValidReport(r, h) /\ Len(r.active) <= 1 /\ Len(r.monitoring.active) <= 1
  /\ IsTail(r.good, End(h) - 1) /\ IsTail(r.monitoring.gap, End(h) - 1) /\ IsTail(r.monitoring.good, End(h) - 1)
  /\ \A a \in Elements(r.active) : a.start + Duration <= End(h) /\ \A u \in Elements(r.good) : a.start <= u
  /\ \A t \in Elements(r.monitoring.active) : t < End(h) /\ \A u \in Elements(r.monitoring.good) : t <= u

IncidentsAssumption ==
  /\ MinutesPerHour \in Nat /\ MinutesPerHour > 2 /\ Duration \in 1 .. MinutesPerHour /\ MaxRecent \in Nat \ {0}
  /\ Summaries \subseteq [Minutes -> Kinds] /\ Amended \subseteq [Minutes -> Kinds] /\ Baselines \subseteq [Minutes -> Usual]
  /\ Starts \subseteq Nat \union {NotConfirmed} /\ MaxHour \in Nat
  /\ \A r \in Seeds : Written(r, 0)

\* The last summary has no minute before the collection, and the report says what one that
\* the code has written says.
IncidentsInv ==
  /\ hour \in Nat \ {0} /\ started \in Nat \union {NotConfirmed}
  /\ summary \in [Minutes -> Kinds] \union {Absent} /\ before \in [Minutes -> Kinds] \union {Absent}
  /\ summary # Absent /\ started # NotConfirmed => \A m \in Minutes : summary[m] # "absent" => 2 * (At(this, m) + 1) > started
  /\ Written(report, this) /\ prior \in Reports
  /\ NothingMissed /\ IncidentEarned /\ RecoveryEarned /\ EventsAlternate /\ HealthyMeansWatched
==================================================================================
