------------------------------- MODULE GtfsIngest -------------------------------
(* How a GTFS timetable enters the warehouse: dag_gtfs_poll stores a changed    *)
(* ZIP and emits an asset event, dag_gtfs_load loads every snapshot of the      *)
(* events that triggered it and refreshes the schedule days that feed health    *)
(* compares by.  Both DAGs have max_active_runs = 1, so a run waits for the one *)
(* before; an attempt may be killed at any point and is retried.                *)
(*                                                                              *)
(* Abstractions: a ZIP is its hash, and a hash stands for the plan the ZIP      *)
(* publishes for the dates it lists; a snapshot id is <<timestamp, hash>>; the  *)
(* tables are visited in the order of GTFS_TABLES, of which Tables is a part;   *)
(* dbt's models are not modelled.  BigQuery, GCS and Airflow are external.      *)
EXTENDS Naturals, Sequences, FiniteSets, SequencesExt

CONSTANTS
  Hashes,          \* contents of the feed, a set of naturals
  Tables,          \* sequence of table names, GTFS_TABLES in order
  MaxHour,         \* bound: hourly polls
  HoursPerDay,
  RetentionDays,   \* RETENTION_DAYS
  Attempts,        \* attempts of a task, AIRFLOW_TRANSIENT_RETRIES + 1
  MaxKills,        \* bound: attempts killed
  MaxTroubles      \* bound: BigQuery jobs that end in error and runs an operator triggers

GtfsAssumption ==
  /\ Hashes \subseteq Nat \ {0} /\ \E most \in Hashes \union {0} : \A h \in Hashes : h <= most
  /\ Tables \in Seq(STRING) /\ Len(Tables) > 0
  /\ {MaxHour, RetentionDays, MaxKills, MaxTroubles} \subseteq Nat
  /\ {HoursPerDay, Attempts} \subseteq Nat \ {0}

VARIABLES
  hour,        \* data interval of the latest poll
  poll,        \* the poll run: step, hash of its download, attempt
  snapshots,   \* rows of raw_gtfs_snapshots
  zips,        \* ids of the stored ZIP objects
  events,      \* asset events no load run has taken yet
  emitted,     \* history: snapshots an event was emitted for
  load,        \* the load run: step, batch, position, attempt
  jobs,        \* BigQuery: state of each load job by its name
  rows,        \* BigQuery: how often the rows of a snapshot are in a table
  days,        \* the schedule-days object
  held,        \* what the refresh attempt under way has read of it
  zombie,      \* the same of a killed attempt whose process goes on
  refreshed,   \* history: snapshots a refresh has returned for
  kills, errors, manual

pollVars == <<hour, poll, snapshots, zips>>
loadVars == <<load, jobs, rows, days, held, zombie, refreshed>>
bounds == <<kills, errors, manual>>
vars == <<pollVars, events, emitted, loadVars, bounds>>

Ids == (1 .. MaxHour) \X Hashes
Day(ts) == (ts + HoursPerDay - 1) \div HoursPerDay
Days == 1 .. Day(MaxHour)
JobNames == Ids \X ToSet(Tables)
Newer(s, t) == s[1] > t[1] \/ (s[1] = t[1] /\ s[2] > t[2])

Idle == [step |-> "idle", hash |-> 0, try |-> 1]
NoLoad == [step |-> "idle", batch |-> <<>>, snap |-> 1, table |-> 1, try |-> 1]
NoRead == [ok |-> FALSE, gen |-> 0, of |-> [d \in Days |-> 0]]
None == [step |-> "none", read |-> NoRead, batch |-> <<>>]

Init ==
  /\ hour = 0 /\ poll = Idle
  /\ snapshots = {} /\ zips = {} /\ events = <<>> /\ emitted = {}
  /\ load = NoLoad
  /\ jobs = [j \in JobNames |-> "none"] /\ rows = [j \in JobNames |-> 0]
  /\ days = NoRead /\ held = NoRead /\ zombie = None
  /\ refreshed = {} /\ kills = 0 /\ errors = 0 /\ manual = 0

--------------------------------------------------------------------------------
(* dag_gtfs_poll *)

Id == <<hour, poll.hash>>

StartPoll ==
  /\ poll.step = "idle" /\ hour < MaxHour
  /\ hour' = hour + 1 /\ poll' = [Idle EXCEPT !.step = "download"]
  /\ UNCHANGED <<snapshots, zips, events, emitted, loadVars, bounds>>

\* The office may have published another ZIP meanwhile, or an earlier one again.
Download ==
  /\ poll.step = "download"
  /\ \E hash \in Hashes : poll' = [poll EXCEPT !.step = "compare", !.hash = hash]
  /\ UNCHANGED <<hour, snapshots, zips, events, emitted, loadVars, bounds>>

\* order by snapshot_timestamp desc limit 1: any of two rows of one timestamp
Latest == {s[2] : s \in {s \in snapshots : \A t \in snapshots : t[1] <= s[1]}}

Compare ==
  /\ poll.step = "compare"
  /\ \E latest \in IF snapshots = {} THEN {0} ELSE Latest :
       poll' = IF latest = poll.hash THEN Idle ELSE [poll EXCEPT !.step = "upload"]
  /\ UNCHANGED <<hour, snapshots, zips, events, emitted, loadVars, bounds>>

\* if_generation_match=0: an object that is there stays as it is
Upload ==
  /\ poll.step = "upload"
  /\ zips' = zips \union {Id}
  /\ poll' = [poll EXCEPT !.step = "insert"]
  /\ UNCHANGED <<hour, snapshots, events, emitted, loadVars, bounds>>

\* The merge under its job name; an attempt that finds the name taken waits for
\* that job.
Insert ==
  /\ poll.step = "insert"
  /\ snapshots' = snapshots \union {Id}
  /\ poll' = [poll EXCEPT !.step = "return"]
  /\ UNCHANGED <<hour, zips, events, emitted, loadVars, bounds>>

\* mutant: no second event while one waits for a load run
Emit_UnlessPending ==
  /\ poll.step = "return"
  /\ IF events = <<>> THEN events' = <<Id>> /\ emitted' = emitted \union {Id} ELSE UNCHANGED <<events, emitted>>
  /\ poll' = Idle
  /\ UNCHANGED <<hour, snapshots, zips, loadVars, bounds>>

\* The task returns its snapshot; the branch and the emitting task follow.
Emit ==
  /\ poll.step = "return"
  /\ events' = Append(events, Id) /\ emitted' = emitted \union {Id}
  /\ poll' = Idle
  /\ UNCHANGED <<hour, snapshots, zips, loadVars, bounds>>

KillPoll ==
  /\ poll.step # "idle" /\ kills < MaxKills
  /\ kills' = kills + 1
  /\ poll' = IF poll.try < Attempts THEN [Idle EXCEPT !.step = "download", !.try = poll.try + 1] ELSE Idle
  /\ UNCHANGED <<hour, snapshots, zips, events, emitted, loadVars, errors, manual>>

--------------------------------------------------------------------------------
(* dag_gtfs_load: loading *)

Begin(batch) == load.step = "idle" /\ load' = [NoLoad EXCEPT !.step = "submit", !.batch = batch]

\* A run takes every event there was when it was created, a wait before.
StartLoad ==
  /\ \E n \in 1 .. Len(events) : Begin(SubSeq(events, 1, n)) /\ events' = SubSeq(events, n + 1, Len(events))
  /\ UNCHANGED <<pollVars, emitted, jobs, rows, days, held, zombie, refreshed, bounds>>

\* An operator names one recorded snapshot in dag_run.conf.
StartManually ==
  /\ manual + errors < MaxTroubles
  /\ \E s \in snapshots : Begin(<<s>>)
  /\ manual' = manual + 1
  /\ UNCHANGED <<pollVars, events, emitted, jobs, rows, days, held, zombie, refreshed, kills, errors>>

Snapshot == load.batch[load.snap]
Job == <<Snapshot, Tables[load.table]>>

\* mutant: the job has no name, so every attempt starts one of its own
Submit_Unnamed ==
  /\ load.step = "submit"
  /\ jobs' = [jobs EXCEPT ![Job] = "running"]
  /\ load' = [load EXCEPT !.step = "wait"]
  /\ UNCHANGED <<pollVars, events, emitted, rows, days, held, zombie, refreshed, bounds>>

\* load_table_from_file under the job's name, or get_job of the one that has it
Submit ==
  /\ load.step = "submit"
  /\ jobs' = [jobs EXCEPT ![Job] = IF @ = "none" THEN "running" ELSE @]
  /\ load' = [load EXCEPT !.step = "wait"]
  /\ UNCHANGED <<pollVars, events, emitted, rows, days, held, zombie, refreshed, bounds>>

JobEnds ==
  /\ \E j \in JobNames :
       /\ jobs[j] = "running"
       /\ \/ jobs' = [jobs EXCEPT ![j] = "done"] /\ rows' = [rows EXCEPT ![j] = @ + 1] /\ UNCHANGED errors
          \/ /\ manual + errors < MaxTroubles /\ errors' = errors + 1
             /\ jobs' = [jobs EXCEPT ![j] = "error"] /\ UNCHANGED rows
  /\ UNCHANGED <<pollVars, events, emitted, load, days, held, zombie, refreshed, kills, manual>>

\* A task attempt that raises is retried from its beginning, or fails the run.
AgainOrFail(again) == IF load.try < Attempts THEN [again EXCEPT !.try = load.try + 1] ELSE NoLoad
FirstStep == [load EXCEPT !.step = "submit", !.snap = 1, !.table = 1]

\* mutant: only the latest snapshot of the batch is loaded
Loaded_LatestOnly ==
  /\ load.step = "wait" /\ jobs[Job] = "done"
  /\ load' = IF load.table < Len(Tables) THEN [load EXCEPT !.step = "submit", !.table = @ + 1]
             ELSE [load EXCEPT !.step = "read", !.try = 1]
  /\ UNCHANGED <<pollVars, events, emitted, jobs, rows, days, held, zombie, refreshed, bounds>>

\* job.result() returns: the next table, the next snapshot, or the next task
Loaded ==
  /\ load.step = "wait" /\ jobs[Job] = "done"
  /\ load' = IF load.table < Len(Tables) THEN [load EXCEPT !.step = "submit", !.table = @ + 1]
             ELSE IF load.snap < Len(load.batch)
                  THEN [load EXCEPT !.step = "submit", !.snap = @ + 1, !.table = 1]
             ELSE [load EXCEPT !.step = "read", !.try = 1]
  /\ UNCHANGED <<pollVars, events, emitted, jobs, rows, days, held, zombie, refreshed, bounds>>

\* job.result() raises, at every attempt that finds the failed job's name
LoadFails ==
  /\ load.step = "wait" /\ jobs[Job] = "error"
  /\ load' = AgainOrFail(FirstStep)
  /\ UNCHANGED <<pollVars, events, emitted, jobs, rows, days, held, zombie, refreshed, bounds>>

--------------------------------------------------------------------------------
(* dag_gtfs_load: the schedule days *)

\* The object may be lost or spoilt; what cannot be read is rebuilt.
Spoil ==
  /\ days.ok /\ manual + errors < MaxTroubles /\ errors' = errors + 1
  /\ days' = [days EXCEPT !.ok = FALSE, !.gen = @ + 1]
  /\ UNCHANGED <<pollVars, events, emitted, load, jobs, rows, held, zombie, refreshed, kills, manual>>

ReadDays ==
  /\ load.step = "read"
  /\ held' = days
  /\ load' = [load EXCEPT !.step = "write"]
  /\ UNCHANGED <<pollVars, events, emitted, jobs, rows, days, zombie, refreshed, bounds>>

FirstDay(read, batch) ==
  LET first == Min({Day(s[1]) : s \in ToSet(batch)})
  IN  IF read.ok THEN first ELSE IF first > RetentionDays THEN first - RetentionDays ELSE 0

\* QUERY: per date the newest loaded snapshot published on or before it, of
\* those scanned
InTables(s) == \A k \in ToSet(Tables) : rows[<<s, k>>] > 0

PlanOf(d, first) ==
  LET listed == {s \in Ids : InTables(s) /\ Day(s[1]) \in first .. d}
  IN  {s[2] : s \in {s \in listed : \A t \in listed : ~Newer(t, s)}}

\* merge_days: rows replace stored dates, dates past retention are dropped
Merged(read, batch) ==
  [d \in Days |->
     IF d + RetentionDays < Day(hour) THEN 0
     ELSE LET plan == PlanOf(d, FirstDay(read, batch))
          IN  IF plan # {} THEN CHOOSE p \in plan : TRUE ELSE IF read.ok THEN read.of[d] ELSE 0]

\* mutant: the write does not check the generation it read
Store_Unconditionally(read, batch) ==
  days' = [ok |-> TRUE, gen |-> days.gen + 1, of |-> Merged(read, batch)]

\* upload with if_generation_match: nothing is written over a newer object
Store(read, batch) ==
  IF days.gen = read.gen THEN days' = [ok |-> TRUE, gen |-> days.gen + 1, of |-> Merged(read, batch)]
  ELSE UNCHANGED days

WriteDays ==
  /\ load.step = "write"
  /\ Store(held, load.batch)
  /\ \/ days.gen = held.gen /\ load' = NoLoad /\ refreshed' = refreshed \union ToSet(load.batch)
     \/ days.gen # held.gen /\ load' = AgainOrFail([load EXCEPT !.step = "read"]) /\ UNCHANGED refreshed
  /\ held' = NoRead
  /\ UNCHANGED <<pollVars, events, emitted, jobs, rows, zombie, bounds>>

\* A killed attempt is replaced; its process may go on to its write.
KillLoad ==
  /\ load.step # "idle" /\ kills < MaxKills
  /\ kills' = kills + 1
  /\ load' = AgainOrFail(IF load.step \in {"submit", "wait"} THEN FirstStep ELSE [load EXCEPT !.step = "read"])
  /\ zombie' \in {zombie} \union IF load.step = "write"
                                 THEN {[step |-> "write", read |-> held, batch |-> load.batch]} ELSE {}
  /\ held' = NoRead
  /\ UNCHANGED <<pollVars, events, emitted, jobs, rows, days, refreshed, errors, manual>>

ZombieWrites ==
  /\ zombie.step = "write"
  /\ Store(zombie.read, zombie.batch)
  /\ zombie' = None
  /\ UNCHANGED <<pollVars, events, emitted, load, jobs, rows, held, refreshed, bounds>>

\* Bound: every modelled hour is over and all of it loaded.
Done ==
  /\ hour = MaxHour /\ poll.step = "idle" /\ load.step = "idle" /\ events = <<>>
  /\ UNCHANGED vars

PollStep == StartPoll \/ Download \/ Compare \/ Upload \/ Insert \/ Emit
LoadStep == StartLoad \/ Submit \/ JobEnds \/ Loaded \/ LoadFails \/ ReadDays \/ WriteDays
Next == PollStep \/ LoadStep \/ KillPoll \/ Done \/ StartManually \/ Spoil \/ KillLoad \/ ZombieWrites

Spec == Init /\ [][Next]_vars
\* Airflow goes on with what is under way; nobody must kill.
Fairness == WF_vars(PollStep) /\ WF_vars(LoadStep)
FairSpec == Spec /\ Fairness

--------------------------------------------------------------------------------
(* Properties *)

\* Shapes of the state.
TypeOK ==
  /\ hour \in 0 .. MaxHour
  /\ poll.step \in {"idle", "download", "compare", "upload", "insert", "return"}
  /\ snapshots \subseteq Ids /\ zips \subseteq Ids
  /\ ToSet(events) \subseteq emitted /\ emitted \subseteq snapshots
  /\ load.step \in {"idle", "submit", "wait", "read", "write"}
  /\ load.step # "idle" => load.snap \in DOMAIN load.batch /\ load.table \in DOMAIN Tables
  /\ \A j \in JobNames : jobs[j] \in {"none", "running", "done", "error"} /\ rows[j] \in Nat
  /\ refreshed \subseteq snapshots

\* A snapshot's rows are in a table at most once, whatever was retried, killed
\* after a submission, loaded again by an operator or emitted twice.
LoadedOnce == \A j \in JobNames : rows[j] <= 1

\* A snapshot the load DAG can be asked for has its ZIP, and a snapshot that a
\* refresh has returned for is in every table.
RefreshedLoaded == snapshots \subseteq zips /\ \A s \in refreshed : InTables(s)

\* A stored date has the plan of a loaded snapshot published on or before it
\* that no refreshed snapshot supersedes: neither a second attempt, an old
\* snapshot loaded again nor a process that outlived its attempt brings an
\* older plan back.
NoStalePlan ==
  days.ok => \A d \in Days : days.of[d] # 0 =>
    \E s \in Ids : /\ InTables(s) /\ Day(s[1]) <= d /\ s[2] = days.of[d]
                   /\ \A t \in refreshed : Day(t[1]) <= d => ~Newer(t, s)

\* A recorded snapshot no event was emitted for is the trace of a worker lost between
\* the merge and the event: the retry finds the hash unchanged and returns nothing.  A
\* lost worker costs one snapshot at most, and nothing else costs any.
Announced == emitted \union IF poll.step = "return" THEN {Id} ELSE {}
LostOnlyByKills == Cardinality(snapshots \ Announced) <= kills

\* An emitted snapshot gets into every table, unless one of its batch's jobs
\* ended in error: the job's name is then taken for good, and the snapshots
\* after it in the batch wait for an operator.
EventuallyLoaded == <>[](errors > 0 \/ \A s \in emitted : InTables(s))

--------------------------------------------------------------------------------
(* What makes the safety properties inductive *)

Reads == [ok : BOOLEAN, gen : Nat, of : [Days -> Nat]]
Shapes ==
  /\ poll \in [step : {"idle", "download", "compare", "upload", "insert", "return"}, hash : Nat, try : Nat]
  /\ load \in [step : {"idle", "submit", "wait", "read", "write"}, batch : Seq(Ids), snap : Nat, table : Nat, try : Nat]
  /\ zombie \in [step : {"none", "write"}, read : Reads, batch : Seq(Ids)]
  /\ events \in Seq(Ids) /\ days \in Reads /\ held \in Reads
  /\ jobs \in [JobNames -> {"none", "running", "done", "error"}] /\ rows \in [JobNames -> Nat]

\* Where a poll is, and what is stored by then.
PollInv ==
  /\ poll.step # "idle" => hour > 0
  /\ poll.step \notin {"idle", "download"} => poll.hash \in Hashes
  /\ poll.step \in {"insert", "return"} => Id \in zips
  /\ poll.step = "return" => Id \in snapshots

\* A job appends once, when it ends well.
JobsInv == \A j \in JobNames : rows[j] = IF jobs[j] = "done" THEN 1 ELSE 0

\* What a load has behind it is in the tables.
LoadInv ==
  /\ ToSet(load.batch) \subseteq snapshots
  /\ load.step \in {"submit", "wait"} =>
       /\ \A i \in 1 .. load.snap - 1 : InTables(load.batch[i])
       /\ \A k \in 1 .. load.table - 1 : rows[<<Snapshot, Tables[k]>>] > 0
  /\ load.step \in {"read", "write"} => load.batch # <<>> /\ \A s \in ToSet(load.batch) : InTables(s)

\* Whoever may still write read the object as it is, or an older generation.
Current(read) == read.gen <= days.gen /\ (read.gen = days.gen => read = days)
ReadInv ==
  /\ load.step = "write" => Current(held)
  /\ zombie.step = "write" => zombie.batch # <<>> /\ Current(zombie.read)

LossInv == IsFiniteSet(snapshots) /\ kills \in Nat /\ LostOnlyByKills

GtfsInv == TypeOK /\ Shapes /\ PollInv /\ JobsInv /\ LoadInv /\ ReadInv /\ RefreshedLoaded /\ NoStalePlan

================================================================================
