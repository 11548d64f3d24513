------------------------------- MODULE RawGpsLoad --------------------------------
(* dag_gps_raw_load: every hour, and whenever an operator triggers it, a task     *)
(* loads all the parts of a date into the raw table. Runs of the DAG may overlap; *)
(* a job's name is the hash of its part's name, so that a part already loaded, or *)
(* being loaded, is waited for. The poller adds parts meanwhile.                  *)
EXTENDS Lists

CONSTANTS
  Parts,      \* the parts of a date, numbers in the order of their names
  Loaders,    \* tasks that may be running at once
  MaxTries,   \* starts of a task, a bound of the model
  MaxErrors   \* failing jobs and killed tasks, a bound of the model

VARIABLES
  uploaded,   \* parts in the bucket
  jobs,       \* state of each part's load job
  rows,       \* times each part's rows were appended
  task,       \* each task: its state, the parts still to load, those it listed
  tries, errors

vars == <<uploaded, jobs, rows, task, tries, errors>>

Idle == [state |-> "idle", todo |-> {}, listed |-> {}]
First(S) == CHOOSE p \in S : \A q \in S : p <= q

\* The poller's flush, at any time.
Upload(p) ==
  /\ p \notin uploaded /\ uploaded' = uploaded \union {p}
  /\ UNCHANGED <<jobs, rows, task, tries, errors>>

\* _available_gps_part_uris.
List(l) ==
  /\ task[l].state \in {"idle", "done", "failed"} /\ tries < MaxTries
  /\ task' = [task EXCEPT ![l] =
       [state |-> IF uploaded = {} THEN "done" ELSE "submit", todo |-> uploaded, listed |-> uploaded]]
  /\ tries' = tries + 1
  /\ UNCHANGED <<uploaded, jobs, rows, errors>>

\* load_table_from_uri; a name already taken is a Conflict, and its job is looked up.
\* mutant: a failed job's name may be used again, and a lost answer repeats the load.
Submitted_Again(p) == TRUE
Submitted(p) == jobs[p] = "none"
Submit(l) ==
  LET p == First(task[l].todo)
  IN  /\ task[l].state = "submit"
      /\ jobs' = IF Submitted(p) THEN [jobs EXCEPT ![p] = "running"] ELSE jobs
      /\ task' = [task EXCEPT ![l].state = "wait"]
      /\ UNCHANGED <<uploaded, rows, tries, errors>>

JobRuns(p) ==
  /\ jobs[p] = "running"
  /\ \/ jobs' = [jobs EXCEPT ![p] = "done"] /\ rows' = [rows EXCEPT ![p] = @ + 1] /\ UNCHANGED errors
     \/ jobs' = [jobs EXCEPT ![p] = "error"] /\ errors < MaxErrors /\ errors' = errors + 1 /\ UNCHANGED rows
  /\ UNCHANGED <<uploaded, task, tries>>

\* job.result() raises the job's error, and the parts after it are left.
Raised(p) == jobs[p] = "error"
Result(l) ==
  LET p == First(task[l].todo)
      left == task[l].todo \ {p}
  IN  /\ task[l].state = "wait" /\ jobs[p] # "running"
      /\ task' = [task EXCEPT ![l].state = IF Raised(p) THEN "failed" ELSE IF left = {} THEN "done" ELSE "submit",
                              ![l].todo = left]
      /\ UNCHANGED <<uploaded, jobs, rows, tries, errors>>

\* A worker dies before or after the submission; its jobs go on.
Kill(l) ==
  /\ task[l].state \in {"submit", "wait"} /\ errors < MaxErrors /\ errors' = errors + 1
  /\ task' = [task EXCEPT ![l].state = "failed"]
  /\ UNCHANGED <<uploaded, jobs, rows, tries>>

Init ==
  /\ uploaded = {} /\ jobs = [p \in Parts |-> "none"] /\ rows = [p \in Parts |-> 0]
  /\ task = [l \in Loaders |-> Idle] /\ tries = 0 /\ errors = 0

Next ==
  \/ \E p \in Parts : Upload(p) \/ JobRuns(p)
  \/ \E l \in Loaders : List(l) \/ Submit(l) \/ Result(l) \/ Kill(l)
  \/ tries = MaxTries /\ UNCHANGED vars

Spec == Init /\ [][Next]_vars

TypeOK ==
  /\ uploaded \subseteq Parts /\ \A p \in Parts : rows[p] \in Nat
  /\ \A l \in Loaders : task[l].todo \subseteq task[l].listed /\ task[l].listed \subseteq uploaded

\* Overlapping runs, retries and lost answers append a part's rows once.
AppendedOnce == \A p \in Parts : rows[p] <= 1

\* A run that emits the date's asset has every part it listed in the table, although
\* other runs may have loaded them.
EmittedLoaded ==
  \A l \in Loaders : task[l].state = "done" => \A p \in task[l].listed : rows[p] = 1

--------------------------------------------------------------------------------
(* What makes the safety properties inductive *)

RawAssumption == Parts \subseteq Nat

JobStates == {"none", "running", "done", "error"}
Shapes ==
  /\ uploaded \subseteq Parts /\ jobs \in [Parts -> JobStates]
  /\ task \in [Loaders -> [state : {"idle", "submit", "wait", "done", "failed"}, todo : SUBSET Parts, listed : SUBSET Parts]]

\* A part's rows are in the table once its job is done, and only then.
RowsInv == rows = [p \in Parts |-> IF jobs[p] = "done" THEN 1 ELSE 0]

\* A task that has not failed has seen the job of every part it is done with, and waits
\* for one that exists.
SeenInv ==
  \A l \in Loaders : task[l].state # "failed" =>
    /\ \A p \in task[l].listed \ task[l].todo : jobs[p] = "done"
    /\ task[l].state \in {"idle", "done"} <=> task[l].todo = {}
    /\ task[l].state = "wait" => jobs[First(task[l].todo)] # "none"

RawInv == Shapes /\ RowsInv /\ SeenInv
==================================================================================
