----------------------------- MODULE DailyWarehouse ------------------------------
(* dag_daily_gps: the graph of the nightly warehouse build and what its tasks do *)
(* to the tables they share: the schedule tables (rebuilt for the date, then for *)
(* the date before, then restored), the partitioned facts, coverage, status,     *)
(* serving universe and marts. A pair of dbt run and dbt test is one task, whose *)
(* failure may come before or after the table was written; the three fact tables *)
(* of a date are one. The matcher's publication and the wait for a historical    *)
(* refresh are MatcherPublication's and WriterExclusion's concern.               *)
EXTENDS Lists

CONSTANTS
  Days,       \* processing dates, consecutive; the one before the first has no archive
  Excluded,   \* HISTORICAL_DAILY_EXCLUSION_REASONS and the dates before the archive
  Governing,  \* int_gtfs_processing_snapshot: each date's GTFS snapshot
  Trips,      \* scheduled trips and who may drive them: <<trip, vehicle>>
  MatchedTrips, \* what a run may match of a service date: sets of Trips, a trip may be driven twice
  MaxRuns     \* runs and failures of their tasks, a bound of the model

VARIABLES
  run,        \* the current or last run: its date and configuration
  done,       \* its tasks that succeeded
  failed,     \* its tasks that failed
  dead,       \* its tasks in upstream_failed
  ended,      \* whether it is over
  tables,     \* the warehouse
  unsent,     \* dates whose marts were rebuilt and not announced to the serving export
  closed,     \* dates whose facts a run of the following date has completed
  runs, faults

vars == <<run, done, failed, dead, ended, tables, unsent, closed, runs, faults>>

Dates == Days \union {d - 1 : d \in Days}
Nothing == "nothing"   \* never built
Empty == "empty"       \* built from a schedule that holds no row of the snapshot asked for

\* The tasks, each after those it waits for.
Order ==
  <<"guard", "wait", "snapshot", "priorSnapshot", "staging", "hourly", "load", "publish", "dependencies",
    "schedule", "facts", "priorFacts", "coverage", "status", "priorSchedule", "priorCoverage",
    "priorStatus", "priorUniverse", "restore", "universe", "priorMarts", "marts", "emit">>
Tasks == {Order[k] : k \in DOMAIN Order}
\* mutant: the status no longer waits for the date before.
CoverageInputs_Today == {"facts", "hourly"}
CoverageInputs == {"facts", "priorFacts", "hourly"}
PriorMartInputs == {"priorUniverse", "universe"}
Before(t) ==
  CASE t \in {"guard", "wait"} -> {}
    [] t \in {"snapshot", "priorSnapshot"} -> {"guard"}
    [] t = "staging" -> {"snapshot"}
    [] t = "hourly" -> {"staging"}
    [] t = "load" -> {"snapshot", "staging"}
    [] t = "publish" -> {"load", "wait"}
    [] t \in {"dependencies", "schedule"} -> {"snapshot", "wait"}
    [] t \in {"facts", "priorFacts"} -> {"publish", "dependencies", "schedule"}
    [] t = "coverage" -> CoverageInputs
    [] t = "status" -> {"coverage"}
    [] t = "priorSchedule" -> {"status", "priorSnapshot"}
    [] t = "priorCoverage" -> {"priorSchedule"}
    [] t = "priorStatus" -> {"priorCoverage"}
    [] t = "priorUniverse" -> {"priorStatus"}
    [] t = "restore" -> {"priorUniverse"}
    [] t = "universe" -> {"restore"}
    [] t = "priorMarts" -> PriorMartInputs
    [] t = "marts" -> {"priorMarts"}
    [] t = "emit" -> {"marts"}
AllDone(t) == t = "restore"

\* upstream_failed, which the scheduler spreads through the tasks that need every success;
\* no chain of them is longer than sixteen.
Spread(lost) == lost \union {t \in Tasks : ~AllDone(t) /\ Before(t) \intersect lost # {}}
Spread4(lost) == Spread(Spread(Spread(Spread(lost))))
Downstream == [t \in Tasks |-> Spread4(Spread4(Spread4(Spread4({t}))))]
Dead(t) == Downstream[t] \ {t}
Settled(t) == t \in done \union failed \union dead
Ready(t) ==
  /\ ~ended /\ ~Settled(t)
  /\ IF AllDone(t) THEN \A u \in Before(t) : Settled(u) ELSE Before(t) \subseteq done

D == run.date
Prior == run.date - 1
\* The XCom of selected_gtfs_snapshot_id, rendered as None when the task did not succeed.
Selected == IF "snapshot" \in done THEN Governing[D] ELSE "None"

\* _guard_excluded_historical_processing_date and _guard_prior_publication.
GuardPasses == D \notin Excluded /\ run.skip = (Prior \in Excluded)
\* _validated_historical_restore_command.
RestorePasses == "wait" \in done /\ (run.historical => "guard" \in done)
Passes(t) ==
  /\ t = "guard" => GuardPasses
  /\ t = "snapshot" => D \in DOMAIN Governing
  /\ t = "priorSnapshot" => run.skip \/ Prior \in DOMAIN Governing
  /\ t = "restore" => RestorePasses

\* Tasks whose command only prints that it is skipped.
Skipped(t) ==
  \/ run.skip /\ t \in {"priorFacts", "priorSchedule", "priorCoverage", "priorStatus", "priorUniverse", "priorMarts"}
  \/ run.historical /\ t \in {"dependencies", "priorUniverse", "universe", "priorMarts", "marts"}

\* fct_trip.sql. A row is of a <<trip, vehicle>> and the processing date it was matched
\* on; a run of the date keeps what later runs completed, a run of the following date
\* what it has no replacement for. Rows replace and keep out others by their trip alone.
Later(s) == {r \in tables.facts[s] : r[2] > s}
\* mutant: the rows of later runs are kept beside new ones of the same trip.
CurrentRows_Both == {<<p[2], D>> : p \in {q \in tables.matched[D] : q[1] = D}} \union Later(D)
\* mutant: the partition is replaced.
CurrentRows_Replaced ==
  {<<p[2], D>> : p \in {q \in tables.matched[D] : q[1] = D /\ \A r \in Later(D) : r[1][1] # q[2][1]}}
CurrentRows ==
  {<<p[2], D>> : p \in {q \in tables.matched[D] : q[1] = D /\ \A r \in Later(D) : r[1][1] # q[2][1]}} \union Later(D)
PriorRows ==
  LET new == {p[2] : p \in {q \in tables.matched[D] : q[1] = Prior}}
  IN  {<<t, D>> : t \in new} \union {r \in tables.facts[Prior] : r[2] < D /\ \A t \in new : t[1] # r[1][1]}

\* What a model that filters the schedule tables by its snapshot finds in them.
Found(snapshot) == IF tables.schedule = snapshot /\ snapshot # "None" THEN snapshot ELSE Empty

\* matcher_input_policy.
InputDates == IF run.skip THEN {D} ELSE {Prior, D}

\* The possible contents of the warehouse after a task's writes.
Written(t) ==
  CASE t = "publish" ->
         {[tables EXCEPT !.matched[D] = UNION {{d} \X found[d] : d \in InputDates}] : found \in [InputDates -> MatchedTrips]}
    [] t = "schedule" -> {[tables EXCEPT !.schedule = Selected]}
    [] t = "facts" -> {[tables EXCEPT !.facts[D] = CurrentRows]}
    [] t = "priorFacts" -> {[tables EXCEPT !.facts[Prior] = PriorRows]}
    [] t = "coverage" -> {[tables EXCEPT !.coverage[D] = Found(Selected)]}
    [] t = "status" -> {[tables EXCEPT !.status[D] = @ \union {D}]}
    [] t = "priorSchedule" -> {[tables EXCEPT !.schedule = Governing[Prior]]}
    [] t = "priorCoverage" -> {[tables EXCEPT !.coverage[Prior] = Found(Governing[Prior])]}
    [] t = "priorStatus" -> {[tables EXCEPT !.status[Prior] = @ \union {D}]}
    [] t = "priorUniverse" -> {[tables EXCEPT !.universe[Prior] = Found(Governing[Prior])]}
    [] t = "restore" -> {[tables EXCEPT !.schedule = Selected]}
    [] t = "universe" -> {[tables EXCEPT !.universe[D] = Found(Selected)]}
    [] t = "priorMarts" -> {[tables EXCEPT !.marts[Prior] = tables.facts[Prior]]}
    [] t = "marts" -> {[tables EXCEPT !.marts[D] = tables.facts[D]]}
    [] OTHER -> {tables}

\* The dates emit_gps_models_date_asset announces.
Changed == IF run.historical THEN {} ELSE IF run.skip THEN {D} ELSE {Prior, D}

Start(d, skip, historical) ==
  /\ ended /\ runs + faults < MaxRuns
  /\ run' = [date |-> d, skip |-> skip, historical |-> historical]
  /\ done' = {} /\ failed' = {} /\ dead' = {} /\ ended' = FALSE /\ runs' = runs + 1
  /\ UNCHANGED <<tables, unsent, closed, faults>>

Writes(t) ==
  /\ tables' \in IF Skipped(t) THEN {tables} ELSE Written(t)
  /\ unsent' = (unsent \union (IF Skipped(t) THEN {} ELSE IF t = "marts" THEN {D} ELSE IF t = "priorMarts" THEN {Prior} ELSE {}))
               \ (IF t = "emit" THEN Changed ELSE {})
  /\ closed' = IF t = "priorFacts" /\ ~Skipped(t) THEN closed \union {Prior} ELSE closed

Succeed(t) ==
  /\ Ready(t) /\ Passes(t) /\ Writes(t)
  /\ done' = done \union {t}
  /\ UNCHANGED <<run, failed, dead, ended, runs, faults>>

Fail(t) ==
  /\ Ready(t)
  /\ IF Passes(t)
     THEN /\ runs + faults < MaxRuns /\ faults' = faults + 1
          /\ \/ UNCHANGED <<tables, unsent, closed>>
             \/ t # "emit" /\ Writes(t)
     ELSE UNCHANGED <<tables, unsent, closed, faults>>
  /\ failed' = failed \union {t} /\ dead' = dead \union Dead(t)
  /\ UNCHANGED <<run, done, ended, runs>>

\* The run is over when its tasks are; fail_on_any_task_failure and the emission are its leaves.
End ==
  /\ ~ended /\ \A t \in Tasks : Settled(t)
  /\ ended' = TRUE
  /\ UNCHANGED <<run, done, failed, dead, tables, unsent, closed, runs, faults>>
Succeeded == ended /\ "emit" \in done

Init ==
  /\ run = [date |-> 0, skip |-> FALSE, historical |-> FALSE]
  /\ done = {} /\ failed = {} /\ dead = {} /\ ended = TRUE
  /\ tables = [matched |-> [d \in Days |-> {}], schedule |-> Nothing, facts |-> [d \in Dates |-> {}],
               coverage |-> [d \in Dates |-> Nothing], status |-> [d \in Dates |-> {}],
               universe |-> [d \in Dates |-> Nothing], marts |-> [d \in Dates |-> {}]]
  /\ unsent = {} /\ closed = {} /\ runs = 0 /\ faults = 0

Next ==
  \/ \E d \in Days, skip, historical \in BOOLEAN : Start(d, skip, historical)
  \/ \E t \in Tasks \ (done \union failed \union dead) : Succeed(t) \/ Fail(t)
  \/ End
  \/ ended /\ runs + faults = MaxRuns /\ UNCHANGED vars

Spec == Init /\ [][Next]_vars

TypeOK ==
  /\ done \union failed \union dead \subseteq Tasks
  /\ done \intersect failed = {} /\ dead \intersect (done \union failed) = {}
  /\ \A d \in Dates : tables.facts[d] \subseteq Trips \X {d, d + 1}
  /\ unsent \subseteq Dates /\ closed \subseteq Dates

\* No failure is swallowed: the run only succeeds when every task did, although one
\* task runs whatever became of those before it.
NoSilentFailure == Succeeded => failed = {}

\* All that its service date's facts hold of a trip one run has matched, whichever runs,
\* reruns and corrections of the date and of the one after did: no row of one stands
\* beside a row of another, of the same vehicle or of a different one.
OncePerTrip == \A d \in Dates : \A r, q \in tables.facts[d] : r[1][1] = q[1][1] => r[2] = q[2]

\* "A historical rerun of D must not discard overnight completions already published
\* by D+1" (fct_trip.sql): only a run of the following date takes such a row away.
Kept == \A d \in Dates : D # d + 1 => Later(d) \subseteq tables'.facts[d]
CompletionsKept == [][Kept]_vars

\* What is derived from the shared schedule tables is derived from the date's own
\* snapshot, although a run rebuilds them for two dates, and a successful run leaves
\* them as its own date needs them. (A run that fails before it has a snapshot still
\* restores them, for the snapshot "None", and so derives an empty universe.)
OwnSchedule ==
  /\ \A d \in Dates : tables.coverage[d] # Empty
  /\ Succeeded =>
       /\ tables.schedule = Governing[D]
       /\ ~run.historical => tables.universe[D] = Governing[D]

\* A status that a run wrote for its own date says that the facts of the date before
\* are completed, unless they are excluded.
StatusMeansFinal ==
  \A d \in Days : d \in tables.status[d] => d - 1 \in closed \union Excluded

\* After a successful run, the marts follow the facts on every date the run announced.
\* A correction announces and rebuilds none.
MartsFollow ==
  Succeeded /\ ~run.historical =>
    \A d \in {Prior, D} \ Excluded : d \notin unsent /\ tables.marts[d] = tables.facts[d]

--------------------------------------------------------------------------------
(* What makes the safety properties inductive *)

DailyAssumption ==
  /\ Days \subseteq Int /\ MatchedTrips \subseteq SUBSET Trips
  /\ \A d \in DOMAIN Governing : Governing[d] \notin {"None", Nothing, Empty}

Snapshots == {Governing[d] : d \in DOMAIN Governing} \union {"None", Nothing, Empty}
Shapes ==
  /\ run \in [date : Int, skip : BOOLEAN, historical : BOOLEAN]
  /\ done \union failed \union dead \subseteq Tasks
  /\ tables \in [matched : [Days -> SUBSET (Int \X Trips)], schedule : Snapshots, facts : [Dates -> SUBSET (Trips \X Int)],
                 coverage : [Dates -> Snapshots], status : [Dates -> SUBSET Days], universe : [Dates -> Snapshots],
                 marts : [Dates -> SUBSET (Trips \X Int)]]

\* A task ran after those it waits for, once; what is dead has a reason upstream.
Ran == done \union failed
GraphInv ==
  /\ done \intersect failed = {} /\ dead \intersect Ran = {}
  /\ \A t \in Ran : IF AllDone(t) THEN \A u \in Before(t) : Settled(u) ELSE Before(t) \subseteq done
  /\ \A t \in dead : ~AllDone(t) /\ Before(t) \intersect (failed \union dead) # {}
RunInv ==
  /\ ~ended \/ done # {} => D \in Days
  /\ "guard" \in done => GuardPasses
  /\ "snapshot" \in done => D \in DOMAIN Governing
  /\ "priorSnapshot" \in done => run.skip \/ Prior \in DOMAIN Governing

\* Whose schedule the shared tables hold, from one task to the next.
ScheduleInv ==
  /\ "schedule" \in done /\ "priorSchedule" \notin Ran => tables.schedule = Governing[D]
  /\ "priorSchedule" \in done /\ "restore" \notin Ran => run.skip \/ tables.schedule = Governing[Prior]
  /\ {"restore", "priorUniverse"} \subseteq done => tables.schedule = Governing[D]
  /\ {"universe", "priorUniverse"} \subseteq done => run.historical \/ tables.universe[D] = Governing[D]

FinishedInv ==
  /\ "priorFacts" \in done => run.skip \/ Prior \in closed
  /\ "marts" \in done => run.historical \/ tables.marts[D] = tables.facts[D]
  /\ "priorMarts" \in done => run.historical \/ run.skip \/ tables.marts[Prior] = tables.facts[Prior]
  /\ "emit" \in done => Changed \intersect unsent = {}

DailyInv ==
  /\ Shapes /\ GraphInv /\ RunInv /\ ScheduleInv /\ FinishedInv
  /\ OncePerTrip /\ StatusMeansFinal /\ \A d \in Dates : tables.coverage[d] # Empty
==================================================================================
