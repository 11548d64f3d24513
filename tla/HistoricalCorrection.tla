-------------------------- MODULE HistoricalCorrection --------------------------
(* matcher_historical_correction.py: a plan of corrections for a range of dates, *)
(* and controllers that execute it: one dag_daily_gps run per date in order, then *)
(* one serving refresh over every affected date. Run ids are deterministic, so a  *)
(* controller that dies is simply started again; two may run at once. The DAG     *)
(* runs and their export jobs are modelled as the controller sees them.           *)
EXTENDS Integers, FiniteSets

CONSTANTS
  Controllers,
  Requests,      \* what an operator asks to be planned: [start, end, through, excluded, mapped]
  MaxDays, MaxRefreshDays,  \* DEFAULT_MAX_DAYS, MAX_SERVING_REFRESH_DAYS
  Eligible,      \* HISTORICAL_DAILY_ELIGIBLE_START_DATE
  MaxStarts, MaxFailures    \* controllers started, DAG runs that fail: bounds of the model

VARIABLES
  request,
  plan,        \* the approved plan, or None
  daily,       \* the state of each date's dag_daily_gps run
  refresh,     \* the serving refresh's run: state and export id
  exports,     \* export ids for which export jobs were started
  unserved,    \* corrected service dates that no export has published since
  ctl,         \* what each controller is doing
  starts, failures, retries

vars == <<request, plan, daily, refresh, exports, unserved, ctl, starts, failures, retries>>

None == [days |-> {}, refreshDays |-> {}]
Absent == [state |-> "none", export |-> 0]
PlanId == 0          \* the export id of a first attempt; retry n has the id n
Idle == [step |-> "idle", at |-> 0, retry |-> FALSE, export |-> 0]

--------------------------------------------------------------------------------
(* build_historical_correction_plan *)

Excluded(d) == d \in request.excluded

\* _eligible_processing_dates; a controller takes them in order.
EligibleDates == {d \in request.start .. request.end : ~Excluded(d)}

\* affected_partitions: the prior service date too, unless its raw data is excluded.
Affected(d) == {d} \union (IF Excluded(d - 1) THEN {} ELSE {d - 1})

RefreshDays(days) ==
  LET affected == UNION {Affected(d) : d \in days}
  IN  {d \in 0 .. request.through : ~Excluded(d) /\ \E a \in affected : a <= d}

Plan ==
  LET days == EligibleDates
      refreshed == RefreshDays(days)
      bounded == request.start <= request.end /\ request.end <= request.through
                 /\ request.start >= Eligible /\ request.end - request.start + 1 <= MaxDays
  IN  IF bounded /\ days # {} /\ days \subseteq request.mapped
         /\ Cardinality(refreshed) <= MaxRefreshDays /\ refreshed \subseteq request.mapped
      THEN [days |-> days, refreshDays |-> refreshed] ELSE None

--------------------------------------------------------------------------------
(* execute_historical_correction_plan *)

Set(c, step) == ctl' = [ctl EXCEPT ![c].step = step]
Ends(c) == ctl' = [ctl EXCEPT ![c] = Idle]
First(days) == CHOOSE d \in days : \A e \in days : d <= e
Later(c) == {d \in plan.days : d > ctl[c].at}

\* mutant: a date's correction is not waited for
AfterDay_Refresh(c) == [ctl[c] EXCEPT !.step = "refresh"]

AfterDay(c) ==
  IF Later(c) # {} THEN [ctl[c] EXCEPT !.at = First(Later(c)), !.step = "day"] ELSE [ctl[c] EXCEPT !.step = "refresh"]

\* An operator starts the controller, the first time or again.
Start(c) ==
  /\ plan # None /\ ctl[c] = Idle /\ starts < MaxStarts /\ starts' = starts + 1
  /\ \E retry \in BOOLEAN : ctl' = [ctl EXCEPT ![c] = [step |-> "day", at |-> First(plan.days), retry |-> retry, export |-> PlanId]]
  /\ UNCHANGED <<request, plan, daily, refresh, exports, unserved, failures, retries>>

\* The controller dies, a wait times out, a command fails.
Fail(c) ==
  /\ ctl[c] # Idle /\ ctl[c].step # "done" /\ Ends(c)
  /\ UNCHANGED <<request, plan, daily, refresh, exports, unserved, starts, failures, retries>>

\* A correction that failed must be cleared by an operator: the controller raises.
ReadDay(c) ==
  /\ ctl[c].step = "day"
  /\ \/ daily[ctl[c].at] = "success" /\ ctl' = [ctl EXCEPT ![c] = AfterDay(c)]
     \/ daily[ctl[c].at] \in {"queued", "running"} /\ Set(c, "await")
     \/ daily[ctl[c].at] = "failed" /\ Ends(c)
     \/ daily[ctl[c].at] = "none" /\ Set(c, "trigger")
  /\ UNCHANGED <<request, plan, daily, refresh, exports, unserved, starts, failures, retries>>

\* airflow dags trigger refuses a run id that exists.
TriggerDay(c) ==
  /\ ctl[c].step = "trigger"
  /\ \/ daily[ctl[c].at] = "none" /\ daily' = [daily EXCEPT ![ctl[c].at] = "queued"] /\ Set(c, "await")
     \/ daily[ctl[c].at] # "none" /\ Ends(c) /\ UNCHANGED daily
  /\ UNCHANGED <<request, plan, refresh, exports, unserved, starts, failures, retries>>

\* wait_for_dag_run
AwaitDay(c) ==
  /\ ctl[c].step = "await"
  /\ \/ daily[ctl[c].at] = "success" /\ ctl' = [ctl EXCEPT ![c] = AfterDay(c)]
     \/ daily[ctl[c].at] = "failed" /\ Ends(c)
  /\ UNCHANGED <<request, plan, daily, refresh, exports, unserved, starts, failures, retries>>

ReadRefresh(c) ==
  /\ ctl[c].step = "refresh"
  /\ \/ refresh.state = "success" /\ Set(c, "done")
     \/ refresh.state \in {"queued", "running", "exporting"} /\ Set(c, "await refresh")
     \/ refresh.state = "failed" /\ (IF ctl[c].retry THEN Set(c, "delete") ELSE Ends(c))
     \/ refresh.state = "none" /\ Set(c, "launch")
  /\ UNCHANGED <<request, plan, daily, refresh, exports, unserved, starts, failures, retries>>

\* mutant: the run is deleted in whatever state it is by now
Deletable_Any == refresh.state # "none"

\* _delete_failed_dag_run reads the state again.
Deletable == refresh.state = "failed"

DeleteRefresh(c) ==
  /\ ctl[c].step = "delete"
  /\ \/ /\ Deletable /\ refresh' = Absent /\ retries' = retries + 1
        /\ ctl' = [ctl EXCEPT ![c].step = "launch", ![c].export = retries + 1]
     \/ ~Deletable /\ Ends(c) /\ UNCHANGED <<refresh, retries>>
  /\ UNCHANGED <<request, plan, daily, exports, unserved, starts, failures>>

LaunchRefresh(c) ==
  /\ ctl[c].step = "launch"
  /\ \/ refresh = Absent /\ refresh' = [state |-> "queued", export |-> ctl[c].export] /\ Set(c, "await refresh")
     \/ refresh # Absent /\ Ends(c) /\ UNCHANGED refresh
  /\ UNCHANGED <<request, plan, daily, exports, unserved, starts, failures, retries>>

AwaitRefresh(c) ==
  /\ ctl[c].step = "await refresh"
  /\ \/ refresh.state = "success" /\ Set(c, "done")
     \/ refresh.state = "failed" /\ Ends(c)
  /\ UNCHANGED <<request, plan, daily, refresh, exports, unserved, starts, failures, retries>>

--------------------------------------------------------------------------------
(* The DAG runs *)

RunDay(d) ==
  /\ \/ daily[d] = "queued" /\ daily' = [daily EXCEPT ![d] = "running"] /\ UNCHANGED <<unserved, failures>>
     \/ /\ daily[d] = "running" /\ daily' = [daily EXCEPT ![d] = "success"]
        /\ unserved' = unserved \union {d} \union ({d - 1} \ request.excluded) /\ UNCHANGED failures
     \/ /\ daily[d] = "running" /\ failures < MaxFailures /\ failures' = failures + 1
        /\ daily' = [daily EXCEPT ![d] = "failed"]
        /\ \E part \in SUBSET {d, d - 1} : unserved' = unserved \union (part \ request.excluded)
  /\ UNCHANGED <<request, plan, refresh, exports, ctl, starts, retries>>

\* An operator clears a failed correction, which Airflow then queues again.
ClearDay(d) ==
  /\ daily[d] = "failed" /\ daily' = [daily EXCEPT ![d] = "queued"]
  /\ UNCHANGED <<request, plan, refresh, exports, unserved, ctl, starts, failures, retries>>

\* dag_historical_serving_refresh: the days are validated and rebuilt, then exported.
\* An export id whose jobs exist makes the export fail.
RunRefresh ==
  LET Becomes(state) == refresh' = [refresh EXCEPT !.state = state]
  IN  /\ \/ refresh.state = "queued" /\ Becomes("running") /\ UNCHANGED <<exports, unserved, failures>>
         \/ /\ refresh.state = "running" /\ refresh.export \notin exports
            /\ Becomes("exporting") /\ exports' = exports \union {refresh.export} /\ UNCHANGED <<unserved, failures>>
         \/ /\ refresh.state = "running" /\ refresh.export \in exports
            /\ Becomes("failed") /\ UNCHANGED <<exports, unserved, failures>>
         \/ /\ refresh.state = "exporting" /\ Becomes("success") /\ unserved' = unserved \ plan.refreshDays
            /\ UNCHANGED <<exports, failures>>
         \/ /\ refresh.state \in {"running", "exporting"} /\ failures < MaxFailures /\ failures' = failures + 1
            /\ Becomes("failed") /\ UNCHANGED <<exports, unserved>>
      /\ UNCHANGED <<request, plan, daily, ctl, starts, retries>>

--------------------------------------------------------------------------------
Init ==
  /\ request \in Requests /\ plan = Plan
  /\ daily = [d \in plan.days |-> "none"] /\ refresh = Absent
  /\ exports = {} /\ unserved = {} /\ ctl = [c \in Controllers |-> Idle]
  /\ starts = 0 /\ failures = 0 /\ retries = 0

Stopped == \A c \in Controllers : ctl[c].step = "done" \/ (ctl[c] = Idle /\ (starts = MaxStarts \/ plan = None))

Next ==
  \/ \E c \in Controllers :
       \/ Start(c) \/ Fail(c) \/ ReadDay(c) \/ TriggerDay(c) \/ AwaitDay(c)
       \/ ReadRefresh(c) \/ DeleteRefresh(c) \/ LaunchRefresh(c) \/ AwaitRefresh(c)
  \/ \E d \in plan.days : RunDay(d) \/ ClearDay(d)
  \/ RunRefresh
  \/ Stopped /\ UNCHANGED vars

Spec == Init /\ [][Next]_vars

--------------------------------------------------------------------------------
TypeOK ==
  /\ \A d \in plan.days : daily[d] \in {"none", "queued", "running", "success", "failed"}
  /\ refresh.state \in {"none", "queued", "running", "exporting", "success", "failed"}
  /\ starts \in 0 .. MaxStarts /\ failures \in 0 .. MaxFailures

\* Every service date a correction may rewrite is in the refresh, which leaves out no
\* date from the first of them to the last requested, but the excluded ones.
PlanCovers ==
  plan # None =>
    /\ \A d \in plan.days : {d, d - 1} \ request.excluded \subseteq plan.refreshDays
    /\ \A d \in plan.refreshDays, e \in 0 .. request.through : e >= d /\ e \notin request.excluded => e \in plan.refreshDays
    /\ plan.refreshDays \intersect request.excluded = {} /\ plan.refreshDays \subseteq request.mapped

\* The refresh is only ever launched when every correction of the plan has succeeded,
\* by whichever controller, across restarts and failures.
RefreshLast == refresh # Absent => \A d \in plan.days : daily[d] = "success"

\* A controller that succeeds leaves every rewritten date published.
SuccessMeansServed == (\E c \in Controllers : ctl[c].step = "done") => unserved = {}

\* A refresh that succeeded, or that is under way, is never withdrawn by another controller.
RefreshStands == refresh.state \in {"queued", "running", "exporting", "success"} => refresh'.state # "none"

\* dag_historical_serving_refresh.py:161 and matcher_historical_correction.py:433: a
\* refresh that is run again has a new export id, because of the jobs of the attempt
\* before it.
NewExport == refresh.state = "queued" => refresh.export \notin exports

--------------------------------------------------------------------------------
(* What makes the safety properties inductive *)

CorrectionAssumption ==
  Eligible \in Nat \ {0} /\ \A r \in Requests : r.start \in Int /\ r.end \in Int /\ r.through \in Int

Correcting == {"day", "trigger", "await"}
Refreshing == {"refresh", "delete", "launch", "await refresh", "done"}
Corrected == \A d \in plan.days : daily[d] = "success"
Shapes ==
  /\ request \in Requests /\ plan = Plan /\ retries \in Nat
  /\ daily \in [plan.days -> {"none", "queued", "running", "success", "failed"}]
  /\ refresh \in [state : {"none", "queued", "running", "exporting", "success", "failed"}, export : Nat]
  /\ refresh.state = "none" => refresh = Absent
  /\ ctl \in [Controllers -> [step : {"idle"} \union Correcting \union Refreshing, at : Nat, retry : BOOLEAN, export : Nat]]

\* A controller has seen every date before its own succeed, and all of them before it
\* turns to the refresh.
OrderInv ==
  \A c \in Controllers :
    /\ ctl[c].step \in Correcting => ctl[c].at \in plan.days /\ \A d \in plan.days : d < ctl[c].at => daily[d] = "success"
    /\ ctl[c].step \in Refreshing => Corrected
    /\ ctl[c].step = "done" => refresh.state = "success"

\* Corrections are over before the refresh starts, so what it publishes stays published.
ServedInv == unserved \subseteq plan.refreshDays /\ (refresh.state = "success" => unserved = {})

CorrectionInv == Shapes /\ OrderInv /\ RefreshLast /\ ServedInv
==================================================================================
