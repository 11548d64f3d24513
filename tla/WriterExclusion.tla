---------------------------- MODULE WriterExclusion ----------------------------
(* How the historical serving refresh and the scheduled warehouse writers     *)
(* (dag_daily_gps, dag_gtfs_load) keep out of each other's way: two waits that *)
(* read the Airflow metadata database, a second check in the refresh's         *)
(* validation, and restorations that run after failures but refuse to write    *)
(* without the value their wait or validation returned.                        *)
(*                                                                             *)
(* Airflow itself is external: the scheduler's steps, the trigger rules and    *)
(* the states are modelled as the DAG files use them.  Tasks between which no  *)
(* check of either side can tell are one task here ("prepare": what a writer   *)
(* does outside the shared tables; "write": its gated rebuilds; "serve": the   *)
(* rebuilds that hang off its restoration only).                               *)
EXTENDS Integers

CONSTANTS Refresh,      \* dag_historical_serving_refresh
          Restoring,    \* writer DAGs with a schedule restoration: dag_daily_gps
          Loading,      \* writer DAGs without one: dag_gtfs_load
          Handovers     \* the schedulers considered, see handover

Writers == Restoring \union Loading
Dags == Writers \union {Refresh}

ASSUME ExclusionAssumption ==
  /\ Refresh \notin Writers
  /\ Restoring \intersect Loading = {}
  /\ Handovers \subseteq BOOLEAN

VARIABLES run,     \* state of each DAG's run (max_active_runs = 1)
          task,    \* state of each task of that run
          returned, \* DAGs whose run holds the return value (XCom) of its Gate
          handover \* TRUE: a task's end and the scheduling of its successors are
                   \* one step; FALSE: the scheduler gets there later.  Never changes.

vars == <<run, task, returned, handover>>

RunStates == {"none", "queued", "running", "success", "failed"}
ActiveRunStates == {"queued", "running"}

\* "checked": still running, its check of the other side was favourable.
TaskStates == {"none", "scheduled", "running", "checked",
               "success", "failed", "upstream_failed"}
\* mutant: a task that is scheduled and waits for a worker is not counted
ActiveTaskStates_RunningOnly == {"running", "checked"}
ActiveTaskStates == {"scheduled", "running", "checked"}
Unsuccessful == {"failed", "upstream_failed"}
Ended == {"success"} \union Unsuccessful

--------------------------------------------------------------------------------
(* The task graphs: the upstream tasks of every task. *)

RefreshGraph == [wait |-> {}, validate |-> {"wait"}, refresh |-> {"validate"},
                 restore |-> {"refresh"}, export |-> {"refresh", "restore"}]
RestoringGraph == [prepare |-> {}, wait |-> {}, write |-> {"prepare", "wait"},
                   restore |-> {"write"}, serve |-> {"restore"}]
LoadingGraph == [prepare |-> {}, wait |-> {}, write |-> {"prepare", "wait"}]

Upstream(d) == IF d = Refresh THEN RefreshGraph
               ELSE IF d \in Restoring THEN RestoringGraph ELSE LoadingGraph
Tasks(d) == DOMAIN Upstream(d)

AllDone(t) == t = "restore"

\* The task whose return value a restoration asks for.
Gate(d) == IF d = Refresh THEN "validate" ELSE "wait"

\* What rewrites the shared tables once a DAG is past its checks.
Gated(d) == Tasks(d) \ {"prepare", "wait", "validate"}

\* mutant: validation is not counted as writing
RefreshWriterTasks_NotValidation == {"refresh", "restore", "export"}
RefreshWriterTasks == {"validate", "refresh", "restore", "export"}

HistoricalRefreshWriting ==
  \E t \in RefreshWriterTasks : task[Refresh][t] \in ActiveTaskStates

WarehouseWritersActive == \E w \in Writers : run[w] \in ActiveRunStates

--------------------------------------------------------------------------------
(* Airflow *)

Ready(d, s, t) == IF AllDone(t) THEN \A u \in Upstream(d)[t] : s[u] \in Ended
                  ELSE \A u \in Upstream(d)[t] : s[u] = "success"
Blocked(d, s, t) == ~AllDone(t) /\ \E u \in Upstream(d)[t] : s[u] \in Unsuccessful

Place(d, s, t) == IF s[t] # "none" THEN s[t]
                  ELSE IF Ready(d, s, t) THEN "scheduled"
                  ELSE IF Blocked(d, s, t) THEN "upstream_failed" ELSE "none"

Move(d, t, new) ==
  LET s == [task[d] EXCEPT ![t] = new]
  IN task' = [task EXCEPT ![d] =
                IF handover /\ new \in Ended
                THEN [u \in Tasks(d) |-> Place(d, s, u)] ELSE s]

\* mutant: a new run under the old run's identifier still sees its return values
Trigger_KeepsReturned(d) ==
  /\ run[d] \notin ActiveRunStates
  /\ run' = [run EXCEPT ![d] = "queued"]
  /\ task' = [task EXCEPT ![d] = [t \in Tasks(d) |-> "none"]]
  /\ UNCHANGED <<returned, handover>>

\* A cron tick, an asset event, an operator or the correction controller.
Trigger(d) ==
  /\ run[d] \notin ActiveRunStates
  /\ run' = [run EXCEPT ![d] = "queued"]
  /\ task' = [task EXCEPT ![d] = [t \in Tasks(d) |-> "none"]]
  /\ returned' = returned \ {d}
  /\ UNCHANGED handover

StartRun(d) ==
  /\ run[d] = "queued"
  /\ run' = [run EXCEPT ![d] = "running"]
  /\ UNCHANGED <<task, returned, handover>>

Schedule(d, t) ==
  /\ run[d] = "running" /\ task[d][t] = "none"
  /\ Place(d, task[d], t) # "none"
  /\ Move(d, t, Place(d, task[d], t))
  /\ UNCHANGED <<run, returned, handover>>

StartTask(d, t) ==
  /\ task[d][t] = "scheduled"
  /\ Move(d, t, "running")
  /\ UNCHANGED <<run, returned, handover>>

\* mutant: the run takes over the state of its last task
EndRun_LeafState(d) ==
  /\ run[d] = "running" /\ \A t \in Tasks(d) : task[d][t] \in Ended
  /\ run' = [run EXCEPT ![d] = task[d][IF d = Refresh THEN "export" ELSE "write"]]
  /\ UNCHANGED <<task, returned, handover>>

EndRun(d) ==
  /\ run[d] = "running" /\ \A t \in Tasks(d) : task[d][t] \in Ended
  /\ run' = [run EXCEPT ![d] =
               IF \E t \in Tasks(d) : task[d][t] # "success" THEN "failed" ELSE "success"]
  /\ UNCHANGED <<task, returned, handover>>

\* A dbt error that retries did not cure, a lost worker, a configuration or lineage refused, a failed export.
TaskFails(d, t) ==
  /\ task[d][t] \in {"running", "checked"} /\ t # "wait"
  /\ Move(d, t, "failed")
  /\ UNCHANGED <<run, returned, handover>>

--------------------------------------------------------------------------------
(* The tasks *)

\* A poke of wait_for_warehouse_writers that finds no writer.
WaitForWriters ==
  /\ task[Refresh]["wait"] = "running"
  /\ ~WarehouseWritersActive
  /\ Move(Refresh, "wait", "checked")
  /\ UNCHANGED <<run, returned, handover>>

\* mutant: writers stand back from the whole refresh run, its wait included
WaitForRefresh_WholeRun(w) ==
  /\ task[w]["wait"] = "running"
  /\ run[Refresh] \notin ActiveRunStates
  /\ Move(w, "wait", "checked")
  /\ UNCHANGED <<run, returned, handover>>

\* A poke of a writer's wait_for_historical_serving_refresh.
WaitForRefresh(w) ==
  /\ task[w]["wait"] = "running"
  /\ ~HistoricalRefreshWriting
  /\ Move(w, "wait", "checked")
  /\ UNCHANGED <<run, returned, handover>>

\* The wait gave up after 12 hours, or its worker was lost.
TimeOut(d) ==
  /\ task[d]["wait"] \in {"running", "checked"}
  /\ Move(d, "wait", "failed")
  /\ UNCHANGED <<run, returned, handover>>

\* mutant: no second look
Validate_Once ==
  /\ task[Refresh]["validate"] = "running"
  /\ Move(Refresh, "validate", "checked")
  /\ UNCHANGED <<run, returned, handover>>

\* validate_refresh_config looks for writers once more.
Validate ==
  /\ task[Refresh]["validate"] = "running"
  /\ Move(Refresh, "validate", IF WarehouseWritersActive THEN "failed" ELSE "checked")
  /\ UNCHANGED <<run, returned, handover>>

\* mutant: the restoration writes after any failure
Restore_Always(d) ==
  /\ task[d]["restore"] = "running"
  /\ Move(d, "restore", "checked")
  /\ UNCHANGED <<run, returned, handover>>

\* A restoration refuses without the return value of its run's gate.
Restore(d) ==
  /\ task[d]["restore"] = "running"
  /\ Move(d, "restore", IF d \in returned THEN "checked" ELSE "failed")
  /\ UNCHANGED <<run, returned, handover>>

\* A task that made a check returns.
Return(d, t) ==
  /\ task[d][t] = "checked"
  /\ Move(d, t, "success")
  /\ returned' = IF t = Gate(d) THEN returned \union {d} ELSE returned
  /\ UNCHANGED <<run, handover>>

\* The tasks that check nothing: dbt runs and tests, the triggered export.
Work(d, t) ==
  /\ task[d][t] = "running" /\ t \notin {"wait", "validate", "restore"}
  /\ Move(d, t, "success")
  /\ UNCHANGED <<run, returned, handover>>

--------------------------------------------------------------------------------
Init ==
  /\ run = [d \in Dags |-> "none"]
  /\ task = [d \in Dags |-> [t \in Tasks(d) |-> "none"]]
  /\ returned = {}
  /\ handover \in Handovers

TaskStep(d, t) == Schedule(d, t) \/ StartTask(d, t) \/ Return(d, t) \/ Work(d, t)

Check(d) ==
  \/ d \in Restoring \union {Refresh} /\ Restore(d)
  \/ d \in Writers /\ WaitForRefresh(d)
  \/ d = Refresh /\ (WaitForWriters \/ Validate)

Progress(d) ==
  StartRun(d) \/ EndRun(d) \/ Check(d) \/ \E t \in Tasks(d) : TaskStep(d, t)

Next == \E d \in Dags : \/ Trigger(d) \/ TimeOut(d) \/ Progress(d)
                        \/ \E t \in Tasks(d) : TaskFails(d, t)

Spec == Init /\ [][Next]_vars

\* A run that could go on does so at some time: the scheduler and the workers make
\* progress and a sensor is poked again and again.  That anything is triggered,
\* fails or times out is never promised.
FairSpec == Spec /\ \A d \in Dags : WF_vars(Progress(d))

--------------------------------------------------------------------------------
(* Properties *)

TypeOK ==
  /\ run \in [Dags -> RunStates]
  /\ DOMAIN task = Dags /\ \A d \in Dags : task[d] \in [Tasks(d) -> TaskStates]
  /\ returned \subseteq Dags
  /\ handover \in BOOLEAN

\* The refresh owns the shared tables from its validation until its last task ended.
RefreshHolds ==
  /\ task[Refresh]["validate"] = "success"
  /\ \E t \in Gated(Refresh) : task[Refresh][t] \notin Ended

\* A restoration that has not passed its check yet writes nothing.
Works(d, t) == task[d][t] = "checked" \/ (task[d][t] = "running" /\ t # "restore")

\* No gated rebuild of a daily or load run works while the refresh holds the shared
\* tables ("so they must not interleave", and "hold their warehouse writes while the
\* refresh is rebuilding or exporting").
NoInterleaving ==
  RefreshHolds => \A w \in Writers : \A t \in Gated(w) : ~Works(w, t)

\* That is so as long as the refresh shows an active task at every moment: if the end
\* of one of its tasks and the scheduling of the next were one step.
NoInterleavingAtHandover == handover => NoInterleaving

\* Whatever the scheduler's delays, validation never lets a refresh begin beside a
\* writer whose wait already let it through: the second check closes the gap between
\* the refresh's wait and the moment writers can see the refresh.
EntryExclusive ==
  task[Refresh]["validate"] = "checked" =>
    \A w \in Writers : run[w] \in ActiveRunStates =>
                         task[w]["wait"] \notin {"checked", "success"}

\* After a wait that timed out or a validation that refused, nothing of that run
\* writes, though restorations (and what hangs off them) run after any failure.
RefusedRunsWriteNothing ==
  \A d \in Dags : \A t \in Gated(d) : Works(d, t) => task[d][Gate(d)] = "success"

\* The two waits never hold each other up for good ("so the two waits cannot
\* deadlock"): without the help of their timeouts, and whatever else is triggered,
\* a refresh run and a writer run are never both active for ever.
NoStandoff ==
  \A w \in Writers : []<>(run[Refresh] \notin ActiveRunStates \/ run[w] \notin ActiveRunStates)
================================================================================
