----------------------------- MODULE HealthReports -----------------------------
(* dag_poller_health.py: one report per hour is created once in the bucket and   *)
(* then only gains acknowledgements; alert tasks retry a window of reports as an *)
(* outbox, publish tasks keep one public history. The tasks of a run, of later   *)
(* runs and of an operator's replay interleave at every read and write, fail and *)
(* die anywhere. Which events an evaluation finds is FeedIncidents' matter.      *)
EXTENDS Integers, FiniteSets

CONSTANTS
  Workers,
  Ids,         \* event identities
  Hours,       \* 1 .. n
  Window,      \* OUTBOX_RETRY_HOURS
  MaxJobs      \* tasks started, a bound of the model

VARIABLES
  report,      \* the stored report of each hour; generation 0 while there is none
  rows,        \* the warehouse rows of each hour
  history,     \* the public history object: generation, newest hour, the events it shows
  received,    \* identities the webhook has received
  logged,      \* identities written to the log
  job,         \* what each worker is doing
  started,     \* tasks started
  drained,     \* hours an alert task that succeeded has answered for
  resets       \* hours an operator's reset was reported to have been applied to

vars == <<report, rows, history, received, logged, job, started, drained, resets>>

Acks == {"delivered", "logged"}
NoReport == [gen |-> 0, acks |-> [i \in Ids |-> "absent"], reset |-> FALSE]
Events(r) == {i \in Ids : r.acks[i] # "absent"}
Content(r) == [events |-> Events(r), reset |-> r.reset]
Unknown == [events |-> {}, reset |-> FALSE]
First(h) == IF h < Window THEN 1 ELSE h - Window + 1

Idle == [kind |-> "idle", step |-> "", hour |-> 0, reset |-> FALSE, webhook |-> FALSE, copy |-> [h \in Hours |-> NoReport],
         known |-> [i \in Ids |-> ""], at |-> 0, event |-> "", acked |-> {}]
Doing(w, kind, step) == job[w].kind = kind /\ job[w].step = step
Ends(w) == job' = [job EXCEPT ![w] = Idle]
Copied(w, h) == job[w].copy[h]

--------------------------------------------------------------------------------
\* mutant: a write replaces whatever is there
Matches_None(h, generation) == TRUE

\* write_object: if_generation_match
Matches(h, generation) == report[h].gen = generation

Stored(h, r) == report' = [report EXCEPT ![h] = [r EXCEPT !.gen = report[h].gen + 1]]

\* A task of a DAG run or an operator's replay starts on an hour.
Start(w) ==
  /\ job[w] = Idle /\ started < MaxJobs /\ started' = started + 1
  /\ \E kind \in {"evaluate", "persist", "publish", "alert"}, h \in Hours, reset, webhook \in BOOLEAN :
       /\ (reset => kind = "evaluate") /\ (webhook => kind = "alert")
       /\ job' = [job EXCEPT ![w] = [Idle EXCEPT
            !.kind = kind, !.hour = h, !.reset = reset, !.webhook = webhook, !.step = "read",
            !.at = IF kind = "alert" THEN First(h) ELSE 0,
            !.acked = IF kind = "alert" THEN {i \in Ids : \E k \in First(h) .. h : report[k].acks[i] \in Acks} ELSE {}]]
  /\ UNCHANGED <<report, rows, history, received, logged, drained, resets>>

\* A task fails, times out, or its worker dies.
Fail(w) ==
  /\ job[w] # Idle /\ Ends(w)
  /\ UNCHANGED <<report, rows, history, received, logged, started, drained, resets>>

--------------------------------------------------------------------------------
(* freeze_report *)

\* matching_reset_retry
Resumes(r, reset) == reset => r.reset

Frozen(w, r) ==
  LET j == job[w]
  IN  /\ Resumes(r, j.reset) /\ Ends(w)
      /\ resets' = resets \union (IF j.reset THEN {j.hour} ELSE {})

FindReport(w) ==
  LET h == job[w].hour
  IN  /\ Doing(w, "evaluate", "read")
      /\ \/ report[h].gen > 0 /\ Frozen(w, report[h])
         \/ /\ report[h].gen = 0
            /\ job' = [job EXCEPT ![w].step = IF job[w].reset THEN "order" ELSE "judge"]
            /\ UNCHANGED resets
      /\ UNCHANGED <<report, rows, history, received, logged, started, drained>>

\* ensure_chronological_reset
CheckOrder(w) ==
  LET h == job[w].hour
  IN  /\ Doing(w, "evaluate", "order")
      /\ history.hour < h /\ \A k \in Hours : k >= h => report[k].gen = 0
      /\ job' = [job EXCEPT ![w].step = "judge"]
      /\ UNCHANGED <<report, rows, history, received, logged, started, drained, resets>>

\* evaluate_report: it continues the preceding hour's report when there is one.
Judge(w) ==
  LET h == job[w].hour
      told == IF h - 1 \in Hours THEN Events(report[h - 1]) ELSE {}
  IN  /\ Doing(w, "evaluate", "judge")
      /\ \E new \in SUBSET (Ids \ told) :
           /\ job[w].reset => new # {}
           /\ job' = [job EXCEPT ![w].step = "create",
                ![w].copy[h] = [gen |-> 0, reset |-> job[w].reset, acks |-> [i \in Ids |-> IF i \in new THEN "pending" ELSE "absent"]]]
      /\ UNCHANGED <<report, rows, history, received, logged, started, drained, resets>>

\* Created only where there is none; the loser of a race takes the winner's report.
CreateReport(w) ==
  LET h == job[w].hour
  IN  /\ Doing(w, "evaluate", "create")
      /\ \/ Matches(h, 0) /\ Stored(h, Copied(w, h)) /\ Frozen(w, Copied(w, h))
         \/ /\ ~Matches(h, 0) /\ UNCHANGED <<report, resets>>
            /\ job' = [job EXCEPT ![w].step = "reread"]
      /\ UNCHANGED <<rows, history, received, logged, started, drained>>

Reread(w) ==
  /\ Doing(w, "evaluate", "reread") /\ Frozen(w, report[job[w].hour])
  /\ UNCHANGED <<report, rows, history, received, logged, started, drained>>

--------------------------------------------------------------------------------
(* persist_hour and publish_hour read the frozen report only. *)

ReadFrozen(w) ==
  LET h == job[w].hour
  IN  /\ Doing(w, "persist", "read") \/ Doing(w, "publish", "read")
      /\ report[h].gen > 0
      /\ job' = [job EXCEPT ![w].copy[h] = report[h], ![w].step = IF job[w].kind = "persist" THEN "rows" ELSE "history"]
      /\ UNCHANGED <<report, rows, history, received, logged, started, drained, resets>>

\* persist_rows replaces the hour's rows in one transaction.
PersistRows(w) ==
  LET h == job[w].hour
  IN  /\ Doing(w, "persist", "rows") /\ rows' = [rows EXCEPT ![h] = Content(Copied(w, h))] /\ Ends(w)
      /\ UNCHANGED <<report, history, received, logged, started, drained, resets>>

\* mutant: a backfill is published like any hour
Newer_Never(hour) == FALSE

Newer(hour) == history.hour > hour

\* publish_history: a backfill ends here.
ReadHistory(w) ==
  /\ Doing(w, "publish", "history")
  /\ job' = [job EXCEPT ![w] = IF Newer(job[w].hour) THEN Idle ELSE [job[w] EXCEPT !.step = "collect", !.at = history.gen]]
  /\ UNCHANGED <<report, rows, history, received, logged, started, drained, resets>>

\* The earlier reports, as they are found.
CollectReports(w) ==
  /\ Doing(w, "publish", "collect")
  /\ job' = [job EXCEPT ![w].step = "write", ![w].copy = [h \in Hours |-> IF h < job[w].hour THEN report[h] ELSE @[h]]]
  /\ UNCHANGED <<report, rows, history, received, logged, started, drained, resets>>

WriteHistory(w) ==
  LET h == job[w].hour
  IN  /\ Doing(w, "publish", "write") /\ history.gen = job[w].at /\ Ends(w)
      /\ history' = [gen |-> history.gen + 1, hour |-> h,
                     shows |-> [k \in Hours |-> IF k <= h THEN Content(Copied(w, k)) ELSE Unknown]]
      /\ UNCHANGED <<report, rows, received, logged, started, drained, resets>>

--------------------------------------------------------------------------------
(* retry_alert_outbox *)

\* remember_acknowledgements: a delivery takes precedence over a log line.
Remembered(known, r) ==
  [i \in Ids |-> IF r.acks[i] = "delivered" THEN "delivered"
                 ELSE IF r.acks[i] = "logged" /\ known[i] = "" THEN "logged" ELSE known[i]]

\* mutant: every report is replayed for itself
Acknowledged_Alone(r, known) == r

\* acknowledge_known_events
Acknowledged(r, known) ==
  [r EXCEPT !.acks = [i \in Ids |-> IF r.acks[i] = "pending" /\ known[i] # "" THEN known[i] ELSE r.acks[i]]]

\* mutant: the hour's own report is all that is delivered
NextAt_Newest(w) == job[w].hour + 1

NextAt(w) == job[w].at + 1

LoadReport(w) ==
  LET j == job[w]
  IN  /\ Doing(w, "alert", "read")
      /\ j.at = j.hour => report[j.at].gen > 0
      /\ job' = [job EXCEPT ![w].copy[j.at] = report[j.at], ![w].known = Remembered(j.known, report[j.at]),
                            ![w].step = IF j.at = j.hour THEN "settle" ELSE "read",
                            ![w].at = IF j.at = j.hour THEN First(j.hour) ELSE j.at + 1]
      /\ UNCHANGED <<report, rows, history, received, logged, started, drained, resets>>

\* A write of the copy of a report, which from then on has the new generation.
WritesCopy(w, r, step) ==
  LET at == job[w].at
  IN  /\ Matches(at, Copied(w, at).gen) /\ Stored(at, r)
      /\ job' = [job EXCEPT ![w].copy[at] = [r EXCEPT !.gen = report[at].gen + 1], ![w].step = step, ![w].event = ""]

Settle(w) ==
  LET r == Copied(w, job[w].at)
      s == Acknowledged(r, job[w].known)
  IN  /\ Doing(w, "alert", "settle")
      /\ IF s # r THEN WritesCopy(w, s, "deliver") ELSE job' = [job EXCEPT ![w].step = "deliver"] /\ UNCHANGED report
      /\ UNCHANGED <<rows, history, received, logged, started, drained, resets>>

\* deliver_report_alerts: a transport error ends the task, the event stays pending.
AfterFailure(w, i) == Idle

\* The request may have been received even when its answer is lost.
Send(w) ==
  /\ Doing(w, "alert", "deliver")
  /\ \E i \in Ids :
       /\ Copied(w, job[w].at).acks[i] = "pending"
       /\ IF ~job[w].webhook THEN logged' = logged \union {i} /\ UNCHANGED received
          ELSE received' \in {received, received \union {i}} /\ UNCHANGED logged
       /\ \/ (i \in received' \/ ~job[w].webhook) /\ job' = [job EXCEPT ![w].step = "record", ![w].event = i]
          \/ job[w].webhook /\ job' = [job EXCEPT ![w] = AfterFailure(w, i)]
  /\ UNCHANGED <<report, rows, history, started, drained, resets>>

Record(w) ==
  LET j == job[w]
  IN  /\ Doing(w, "alert", "record")
      /\ WritesCopy(w, [Copied(w, j.at) EXCEPT !.acks[j.event] = IF j.webhook THEN "delivered" ELSE "logged"], "deliver")
      /\ UNCHANGED <<rows, history, received, logged, started, drained, resets>>

\* Nothing is pending in this report: on to the next, or the task succeeds.
NextReport(w) ==
  LET j == job[w]
  IN  /\ Doing(w, "alert", "deliver") /\ \A i \in Ids : Copied(w, j.at).acks[i] # "pending"
      /\ IF NextAt(w) <= j.hour
         THEN /\ job' = [job EXCEPT ![w].step = "settle", ![w].at = NextAt(w), ![w].known = Remembered(j.known, Copied(w, j.at))]
              /\ UNCHANGED drained
         ELSE Ends(w) /\ drained' = drained \union {k \in First(j.hour) .. j.hour : Copied(w, k).gen > 0}
      /\ UNCHANGED <<report, rows, history, received, logged, started, resets>>

--------------------------------------------------------------------------------
\* The run starts with some reports left pending by earlier tasks.
Init ==
  /\ \E r \in {NoReport, [gen |-> 1, acks |-> [i \in Ids |-> "pending"], reset |-> FALSE]} : report = [h \in Hours |-> r]
  /\ rows = [h \in Hours |-> Unknown]
  /\ history = [gen |-> 0, hour |-> 0, shows |-> [h \in Hours |-> Unknown]]
  /\ received = {} /\ logged = {} /\ job = [w \in Workers |-> Idle] /\ started = 0 /\ drained = {} /\ resets = {}

Next ==
  \/ \E w \in Workers :
       \/ Start(w) \/ Fail(w) \/ FindReport(w) \/ CheckOrder(w) \/ Judge(w) \/ CreateReport(w) \/ Reread(w)
       \/ ReadFrozen(w) \/ PersistRows(w) \/ ReadHistory(w) \/ CollectReports(w) \/ WriteHistory(w)
       \/ LoadReport(w) \/ Settle(w) \/ Send(w) \/ Record(w) \/ NextReport(w)
  \/ started = MaxJobs /\ (\A w \in Workers : job[w] = Idle) /\ UNCHANGED vars

Spec == Init /\ [][Next]_vars

--------------------------------------------------------------------------------
TypeOK ==
  /\ \A h \in Hours : report[h].gen \in Nat /\ \A i \in Ids : report[h].acks[i] \in {"absent", "pending"} \union Acks
  /\ history.gen \in Nat /\ history.hour \in 0 .. Cardinality(Hours) /\ received \subseteq Ids /\ logged \subseteq Ids
  /\ started \in 0 .. MaxJobs /\ drained \subseteq Hours /\ resets \subseteq Hours

\* A report never changes once it exists, but for pending events that become
\* acknowledged: no concurrent task withdraws or relabels an acknowledgement.
FrozenStands ==
  \A h \in Hours : report[h].gen > 0 =>
    /\ Content(report'[h]) = Content(report[h])
    /\ \A i \in Ids : report[h].acks[i] \in Acks => report'[h].acks[i] = report[h].acks[i]

\* What the warehouse and the public page show of an hour is the stored report, or
\* nothing: no task publishes an evaluation that lost the race.
PublishedAgrees ==
  \A h \in Hours :
    /\ rows[h] \in {Unknown, Content(report[h])}
    /\ history.shows[h] \in {Unknown, Content(report[h])}

\* An event is delivered only if the webhook received it, and logged only if it was logged.
AckHonest ==
  \A h \in Hours, i \in Ids :
    /\ report[h].acks[i] = "delivered" => i \in received
    /\ report[h].acks[i] = "logged" => i \in logged

\* What some report of the window acknowledged before a task read it is not sent again
\* by that task, though another report still has it pending.
NotRepeated == \A w \in Workers : job[w].step = "record" => job[w].event \notin job[w].acked

\* An alert task that succeeds leaves nothing pending in the reports it read.
SuccessMeansDrained == \A h \in drained, i \in Ids : report[h].acks[i] # "pending"

\* The public history never goes back to an older hour.
HistoryForward == history'.hour >= history.hour

\* An operator is told that a reset was applied only if the stored report has it.
ResetHonoured == \A h \in resets : report[h].reset

--------------------------------------------------------------------------------
(* What makes the safety properties inductive *)

ReportsAssumption == Window \in Nat \ {0} /\ "" \notin Ids /\ \E n \in Hours : Hours = 1 .. n

Reports == [gen : Nat, acks : [Ids -> {"absent", "pending"} \union Acks], reset : BOOLEAN]
Contents == [events : SUBSET Ids, reset : BOOLEAN]
JobShapes == [kind : {"idle", "evaluate", "persist", "publish", "alert"},
         step : {"", "read", "order", "judge", "create", "reread", "rows", "history", "collect", "write", "settle", "deliver", "record"},
         hour : Hours \union {0}, reset : BOOLEAN, webhook : BOOLEAN, copy : [Hours -> Reports],
         known : [Ids -> {""} \union Acks], at : Nat, event : Ids \union {""}, acked : SUBSET Ids]
Shapes ==
  /\ report \in [Hours -> Reports] /\ rows \in [Hours -> Contents] /\ job \in [Workers -> JobShapes]
  /\ history \in [gen : Nat, hour : Nat, shows : [Hours -> Contents]]
  /\ drained \subseteq Hours /\ resets \subseteq Hours

\* Before it is created a report is empty.
CreatedInv == \A h \in Hours : report[h].gen = 0 => report[h] = NoReport

\* A stored report says at least what a copy of it says, and the same while it has the
\* copy's generation. Only an evaluation holds a report that is not stored yet.
Reflects(r, s) ==
  /\ s.gen > 0 /\ s.gen <= r.gen /\ Content(s) = Content(r) /\ \A i \in Ids : s.acks[i] \in Acks => r.acks[i] = s.acks[i]
  /\ s.gen = r.gen => s = r
CopiesInv ==
  \A w \in Workers, h \in Hours :
    \/ Copied(w, h) = NoReport \/ Reflects(report[h], Copied(w, h))
    \/ Doing(w, "evaluate", "create") \/ Doing(w, "evaluate", "reread")
JudgedInv ==
  \A w \in Workers : Doing(w, "evaluate", "create") =>
    LET r == Copied(w, job[w].hour)
    IN  r.gen = 0 /\ r.reset = job[w].reset /\ \A i \in Ids : r.acks[i] \in {"absent", "pending"}

\* A task that publishes knows which history it read, and that it was not a newer one.
PublishInv ==
  \A w \in Workers : job[w].kind = "publish" /\ job[w].step \in {"collect", "write"} =>
    job[w].at <= history.gen /\ (job[w].at = history.gen => history.hour <= job[w].hour)

\* An alert task reads its window first, then knows what it found acknowledged, and
\* leaves the reports it is done with without anything pending.
Outboxes == {w \in Workers : job[w].kind = "alert"}
Reading(w) == job[w].step = "read"
HoursInv ==
  \A w \in Workers :
    /\ job[w].kind # "idle" => job[w].hour \in Hours
    /\ job[w].kind = "alert" => job[w].step \in {"read", "settle", "deliver", "record"} /\ job[w].at \in First(job[w].hour) .. job[w].hour
    /\ job[w].step = "record" => job[w].kind = "alert"
KnownInv ==
  \A w \in Outboxes, i \in Ids :
    /\ job[w].known[i] = "delivered" => i \in received
    /\ job[w].known[i] = "logged" => i \in logged
    /\ i \in job[w].acked => \/ job[w].known[i] # ""
                             \/ Reading(w) /\ \E k \in job[w].at .. job[w].hour : report[k].acks[i] \in Acks
SettledInv ==
  \A w \in Outboxes :
    /\ job[w].step \in {"deliver", "record"} =>
         \A i \in Ids : Copied(w, job[w].at).acks[i] = "pending" => job[w].known[i] = ""
    /\ job[w].step = "record" =>
         /\ job[w].event \in Ids /\ Copied(w, job[w].at).acks[job[w].event] = "pending"
         /\ IF job[w].webhook THEN job[w].event \in received ELSE job[w].event \in logged
DoneInv ==
  \A w \in Outboxes : ~Reading(w) =>
    \A k \in First(job[w].hour) .. job[w].at - 1, i \in Ids : Copied(w, k).acks[i] # "pending"
DrainedInv == \A h \in drained : report[h].gen > 0 /\ \A i \in Ids : report[h].acks[i] # "pending"

ReportsInv ==
  /\ Shapes /\ CreatedInv /\ CopiesInv /\ JudgedInv /\ PublishInv /\ HoursInv /\ KnownInv /\ SettledInv
  /\ DoneInv /\ DrainedInv /\ PublishedAgrees /\ AckHonest /\ ResetHonoured
==================================================================================
