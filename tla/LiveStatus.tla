------------------------------- MODULE LiveStatus -------------------------------
(* live_status.py: the status page's panel, derived on read from two public        *)
(* objects: the poller's heartbeat (live.json) and the monitor's feed history.     *)
(* Each is read at most once per TTL, and a read may fail for as long as it likes. *)
EXTENDS Integers

CONSTANTS
  LiveTtl, HistoryTtl,
  SilentAfter,     \* SILENT_AFTER_SECONDS
  StaleAfter,      \* HISTORY_STALE_AFTER, and the lookahead of the usual fleet
  Beat,            \* heartbeat_interval_seconds of the poller
  Hour,            \* what one publication of the monitor covers
  Reports,         \* of the vehicle types: "failing", "thin" (few vehicles) or "full"
  Evaluations,     \* of an hour: [usual |-> "night" or "day", ongoing |-> BOOLEAN]
  MaxTime, MaxTroubles

\* Two beats may pass before a poller counts as silent.
StatusAssumption ==
  /\ LiveTtl \in Nat \ {0} /\ HistoryTtl \in Nat \ {0} /\ Beat \in Nat \ {0} /\ Hour \in Nat \ {0}
  /\ SilentAfter \in Nat /\ SilentAfter >= LiveTtl + Beat /\ StaleAfter \in Nat

VARIABLES
  now,
  live, history,   \* the objects in the bucket, or Missing or Malformed
  up, beating,     \* whether the poller runs, and since when every heartbeat was published
  readable, since, \* whether the frontend can read, and since when that is so
  cached,          \* _live and _history
  panel,           \* what live_view answered in this tick
  troubles

vars == <<now, live, history, up, beating, readable, since, cached, panel, troubles>>

Missing == [kind |-> "missing"]
Malformed == [kind |-> "malformed"]
None == [kind |-> "none"]
Never == -1
Heartbeat(t, report) == [kind |-> "heartbeat", at |-> t, report |-> report]
\* The usual fleet is below the minimum at night.
History(end, e) == [kind |-> "history", end |-> end, usual |-> e.usual, ongoing |-> e.ongoing]

(* _refresh *)

Due(c, ttl) == c.fetched = Never \/ now - c.fetched >= ttl
\* mutant: the time of the last attempt is taken for that of the last answer.
TooOld_Fetched(c, ttl) == c.read = Never \/ now - c.fetched > 2 * ttl + SilentAfter
TooOld(c, ttl) == c.read = Never \/ now - c.read > 2 * ttl + SilentAfter
Answer(object) ==
  [fetched |-> now, read |-> now,
   value |-> IF object \in {Missing, Malformed} THEN None ELSE object,
   state |-> CASE object = Missing -> "missing" [] object = Malformed -> "unavailable" [] OTHER -> "ok"]
\* A transient error keeps the last copy, a persistent one drops it.
Failed(c, ttl) ==
  IF TooOld(c, ttl) THEN [c EXCEPT !.fetched = now, !.value = None, !.state = "unavailable"]
                    ELSE [c EXCEPT !.fetched = now]
\* mutant: what was once found missing is not asked for again.
Refreshed_Settled(c, ttl, object) ==
  IF ~Due(c, ttl) \/ c.state = "missing" THEN c ELSE IF readable THEN Answer(object) ELSE Failed(c, ttl)
Refreshed(c, ttl, object) ==
  IF ~Due(c, ttl) THEN c ELSE IF readable THEN Answer(object) ELSE Failed(c, ttl)

(* build_live *)

\* mutant: an incident of an old history is believed.
Stale_Never(h) == FALSE
Stale(h) == h # None /\ now - h.end > StaleAfter
UsualNow(h) == IF h = None \/ now - h.end >= StaleAfter THEN "unknown" ELSE h.usual
\* mutant: a copy is as good as its last successful read.
Silent_Read(hb) == hb = None
Silent(hb) == hb = None \/ now - hb.at > SilentAfter
Problem(hb, h) == hb.report = "failing" \/ (hb.report = "thin" /\ UsualNow(h) = "day")
Ongoing(h) == ~Stale(h) /\ h # None /\ h.ongoing
Overall(hb, h) ==
  IF Silent(hb) THEN "offline" ELSE IF Problem(hb, h) \/ Ongoing(h) THEN "problems" ELSE "online"

(* Requests *)

\* The two reads are under a lock each, and within one TTL the second finds what
\* another request left there.
LiveView ==
  \E l \in {Refreshed(cached.live, LiveTtl, live)} :
    \E h \in {IF l.state = "unavailable" THEN cached.history ELSE Refreshed(cached.history, HistoryTtl, history)} :
      /\ cached' = [live |-> l, history |-> h]
      /\ panel' = IF l.state = "unavailable" THEN "unavailable" ELSE Overall(l.value, h.value)
      /\ UNCHANGED <<now, live, history, up, beating, readable, since, troubles>>

(* The poller, the monitor and the bucket *)

Tick ==
  /\ now < MaxTime
  /\ now' = now + 1 /\ panel' = "none"
  /\ IF up /\ now' % Beat = 0
       THEN \E report \in Reports : live' = Heartbeat(now', report)
       ELSE live' = live
  /\ UNCHANGED <<history, up, beating, readable, since, cached, troubles>>

Trouble == troubles < MaxTroubles /\ troubles' = troubles + 1

\* _write_public_status: the upload fails and is logged; or another writes nonsense.
BeatFails ==
  /\ Trouble /\ up /\ now < MaxTime /\ (now + 1) % Beat = 0
  /\ now' = now + 1 /\ panel' = "none" /\ beating' = now'
  /\ live' \in {live, Malformed}
  /\ UNCHANGED <<history, up, readable, since, cached>>
Stops ==
  /\ Trouble /\ up /\ up' = FALSE /\ beating' = now
  /\ UNCHANGED <<now, live, history, readable, since, cached, panel>>
Starts ==
  /\ ~up /\ up' = TRUE /\ beating' = now
  /\ UNCHANGED <<now, live, history, readable, since, cached, panel, troubles>>
Publish ==
  LET end == Hour * (now \div Hour)
  IN  /\ history.kind = "history" => history.end < end
      /\ \E e \in Evaluations : history' = History(end, e)
      /\ UNCHANGED <<now, live, up, beating, readable, since, cached, panel, troubles>>
Breaks ==
  /\ Trouble /\ readable /\ readable' = FALSE /\ since' = now
  /\ UNCHANGED <<now, live, history, up, beating, cached, panel>>
Heals ==
  /\ ~readable /\ readable' = TRUE /\ since' = now
  /\ UNCHANGED <<now, live, history, up, beating, cached, panel, troubles>>

Unread == [fetched |-> Never, read |-> Never, value |-> None, state |-> "unavailable"]
Init ==
  /\ now = 0 /\ live = Missing /\ history = Missing
  /\ up = TRUE /\ beating = 0
  /\ readable = TRUE /\ since = 0
  /\ cached = [live |-> Unread, history |-> Unread]
  /\ panel = "none" /\ troubles = 0

\* The bounds on time and troubles may stop it.
Over == now = MaxTime /\ UNCHANGED vars
Next == LiveView \/ Tick \/ BeatFails \/ Stops \/ Starts \/ Publish \/ Breaks \/ Heals \/ Over
Spec == Init /\ [][Next]_vars

TypeOK ==
  /\ now \in 0 .. MaxTime /\ beating \in 0 .. MaxTime /\ since \in 0 .. MaxTime
  /\ up \in BOOLEAN /\ readable \in BOOLEAN /\ troubles \in 0 .. MaxTroubles
  /\ live.kind \in {"missing", "malformed", "heartbeat"} /\ history.kind \in {"missing", "history"}
  /\ \A o \in {"live", "history"} :
       cached[o].fetched \in Never .. now /\ cached[o].read \in Never .. now
       /\ cached[o].state \in {"ok", "missing", "unavailable"}
  /\ panel \in {"none", "unavailable", "offline", "problems", "online"}

\* Who reads without trouble, of a poller that beats, is never told it is offline.
\* (While reads fail it may be, for a while, although the module's text says a broken
\* credential "must not look like a stopped poller".)
OfflineEarned ==
  panel = "offline" => now - beating < LiveTtl + Beat \/ ~up \/ ~readable \/ now - since < LiveTtl

\* "Reads that keep failing also end in unavailable": one TTL after the copy's limit
\* nothing is derived from it any more, whatever it says.
FailureEnds ==
  panel \notin {"none", "unavailable"} => readable \/ now - since <= 3 * LiveTtl + SilentAfter

\* A poller that stopped is not shown as running once it has been silent for
\* SilentAfter, whatever copy of its last heartbeat is held.
OutageSeen == panel \in {"online", "problems"} /\ ~up => now - beating <= SilentAfter

\* A monitor that stopped while it saw an incident does not keep the panel at it.
IncidentFades ==
  panel = "problems" /\ cached.live.value.report = "full" =>
    history.kind = "history" /\ now - history.end <= StaleAfter

--------------------------------------------------------------------------------
(* What makes the safety properties inductive *)

Heartbeats == [kind : {"heartbeat"}, at : Nat, report : Reports]
Histories == [kind : {"history"}, end : Nat, usual : {e.usual : e \in Evaluations},
              ongoing : {e.ongoing : e \in Evaluations}]
Copies(objects) ==
  [fetched : {Never} \union Nat, read : {Never} \union Nat, value : {None} \union objects,
   state : {"ok", "missing", "unavailable"}]
Shapes ==
  /\ now \in Nat /\ beating \in 0 .. now /\ since \in 0 .. now
  /\ up \in BOOLEAN /\ readable \in BOOLEAN
  /\ live \in {Missing, Malformed} \union Heartbeats /\ history \in {Missing} \union Histories
  /\ cached \in [live : Copies(Heartbeats), history : Copies(Histories)]

\* A heartbeat is of the last beat, unless a beat failed or the poller was not up then;
\* none is of a time at which it was down.
BeatInv ==
  /\ up => \A t \in beating + 1 .. now : t % Beat = 0 => live.kind = "heartbeat" /\ live.at >= t
  /\ live.kind = "heartbeat" => live.at <= now /\ (up \/ live.at <= beating)

\* The copy is of a heartbeat there was.
ReadInv ==
  /\ cached.live.read <= cached.live.fetched /\ cached.live.fetched <= now
  /\ cached.live.value # None => cached.live.value.at <= now /\ (up \/ cached.live.value.at <= beating)

\* While reads succeed it is of the time it was fetched at,
FreshInv ==
  readable /\ up /\ cached.live.fetched > since =>
    \A t \in beating + 1 .. cached.live.fetched :
      t % Beat = 0 => cached.live.value # None /\ cached.live.value.at >= t

\* and while they fail it is of before, and given up in time.
FailingInv ==
  ~readable =>
    /\ cached.live.read <= since
    /\ cached.live.fetched - since > 2 * LiveTtl + SilentAfter => cached.live.state = "unavailable"

HistoryInv ==
  cached.history.value # None => history.kind = "history" /\ cached.history.value.end <= history.end

\* What the panel says is of this tick.
PanelInv == OfflineEarned /\ FailureEnds /\ OutageSeen /\ IncidentFades

StatusInv == Shapes /\ BeatInv /\ ReadInv /\ FreshInv /\ FailingInv /\ HistoryInv /\ PanelInv
================================================================================
