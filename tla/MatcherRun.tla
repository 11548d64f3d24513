------------------------------- MODULE MatcherRun --------------------------------
(* runtime.py and gps.py of the matcher: one run prepares a day in a private     *)
(* directory, aligns the stops of its vehicles in chunks, merges the chunks'     *)
(* shards and publishes the directory by one move. What the artifacts hold is    *)
(* the other modules' concern; here a row is <<vehicle, course, number>>. A      *)
(* process that died may be started again; its directory stays behind.           *)
EXTENDS Lists

CONSTANTS
  Jobs,        \* days: each vehicle's pings and courses, the workers, the vehicle asked for (0: all)
  Group,       \* STOP_ALIGNMENT_ROW_GROUP_ROWS
  MaxPings,    \* max_vehicle_rows
  MaxAttempts  \* runs of a day, a bound of the model

\* Times are minutes of some calendar; a course that was not accepted has rows too.
RunAssumption ==
  /\ Group \in Nat \ {0} /\ {MaxPings, MaxAttempts} \subseteq Nat
  /\ \A j \in Jobs :
       /\ j.workers \in Int
       /\ j.vehicles \in Seq([times : Seq(Int), courses : Seq([accepted : BOOLEAN, operational : Nat, passenger : Nat])])

VARIABLES
  job,         \* the day
  attempt,     \* the run
  at,          \* its step
  files,       \* its private directory
  pings,       \* normalized_gps: number of pings of each vehicle
  worker,      \* the chunk being aligned: courses to do, rows held, row groups written
  shards,      \* row groups of each collected chunk
  merged,      \* row groups of the two artifacts
  published,   \* the output directory
  copied       \* the run whose metrics were copied to metrics_json

vars == <<job, attempt, at, files, pings, worker, shards, merged, published, copied>>

Artifacts == {"operational", "passenger"}
Results ==
  {"normalized_gps", "duty_schedule", "stop_semantics", "trip_universe", "duty_execution",
   "operational", "passenger", "trip_facts", "stop_arrivals", "expected_stop_events", "manifest", "metrics"}
NoRows == [a \in Artifacts |-> <<>>]
None == <<>>
Vehicles == 1 .. Len(job.vehicles)
Elements(s) == {s[k] : k \in DOMAIN s}
Joined(seqs) == Fold(LAMBDA r, s : r \o s, <<>>, seqs)

Fail == at' = "failed" /\ UNCHANGED <<job, attempt, published, copied>>

\* __enter__: a fresh private directory.
Enter ==
  /\ at = "enter"
  /\ at' = IF job.workers < 1 THEN "failed" ELSE "schedule"
  /\ files' = {"duckdb-temp"}
  /\ UNCHANGED <<job, attempt, pings, worker, shards, merged, published, copied>>

\* discover and prepare_schedule; DutySchedule says what they write.
PrepareSchedule ==
  /\ at = "schedule"
  /\ at' = "normalize"
  /\ files' = files \union {"duty_schedule", "stop_semantics", "trip_universe", ".terminal_courses"}
  /\ UNCHANGED <<job, attempt, pings, worker, shards, merged, published, copied>>

\* gps.normalize: one ping of a vehicle at a time, on the input dates, of the vehicle
\* asked for. A diagnostic run without observations ends here.
Normalized(v) == IF job.only \in {0, v} THEN Cardinality(Elements(job.vehicles[v].times) \intersect job.dates) ELSE 0
Normalize ==
  /\ at = "normalize"
  /\ pings' = [v \in Vehicles |-> Normalized(v)]
  /\ files' = files \union {"normalized_gps"}
  /\ at' = IF job.only # 0 /\ \A v \in Vehicles : Normalized(v) = 0 THEN "failed" ELSE "evidence"
  /\ UNCHANGED <<job, attempt, worker, shards, merged, published, copied>>

\* align_execution, first half: iter_vehicle_streams refuses a vehicle with too many pings.
Evidence ==
  /\ at = "evidence"
  /\ at' = IF \E v \in Vehicles : pings[v] > MaxPings THEN "failed" ELSE "settle"
  /\ files' = files \union {".traversal_evidence"}
  /\ UNCHANGED <<job, attempt, pings, worker, shards, merged, published, copied>>

\* mutant: the evidence is only removed with the run
Private_Courses == {".terminal_courses"}

Private == {".traversal_evidence", ".terminal_courses"}

\* align_execution, second half: the private inputs go whether or not it succeeds.
SettleDuties ==
  /\ at = "settle"
  /\ files' = (files \ Private) \union {"duty_execution"}
  /\ at' = "align"
  /\ UNCHANGED <<job, attempt, pings, worker, shards, merged, published, copied>>

--------------------------------------------------------------------------------
(* align_stops *)

\* Courses of v with an accepted execution, as <<vehicle, course>> in order.
Accepted(v) ==
  LET courses == job.vehicles[v].courses
      Take(some, k) == IF courses[k].accepted THEN Append(some, <<v, k>>) ELSE some
  IN  IF Normalized(v) = 0 THEN <<>> ELSE Fold(Take, <<>>, [k \in DOMAIN courses |-> k])
Active ==
  LET Take(some, v) == IF Accepted(v) # <<>> THEN Append(some, v) ELSE some
  IN  Fold(Take, <<>>, [v \in Vehicles |-> v])

Workers == Least(job.workers, Len(Active))
\* _balanced_vehicle_chunks: the first chunks take one more. Vehicles before chunk i.
Start(i) == (i - 1) * (Len(Active) \div Workers) + Least(i - 1, Len(Active) % Workers)
Chunk(i) == SubSeq(Active, Start(i) + 1, Start(i + 1))

WriteInputs ==
  /\ at = "align"
  /\ files' = files \union {".stop_alignment_inputs", ".stop-alignment-shards"}
  /\ at' = IF Active = <<>> THEN "merge" ELSE "submit"
  /\ UNCHANGED <<job, attempt, pings, worker, shards, merged, published, copied>>

Withdrawn == files \ {".stop_alignment_inputs", ".stop-alignment-shards"}

\* A chunk is submitted when the result of the one before has been collected.
Submit ==
  /\ at = "submit" /\ Len(shards) < Workers
  /\ worker' = [todo |-> Chunk(Len(shards) + 1), courses |-> <<>>, rows |-> NoRows, written |-> NoRows]
  /\ at' = "run"
  /\ UNCHANGED <<job, attempt, files, pings, shards, merged, published, copied>>

\* _pings_for_stop_alignment_vehicle
TooMany(v) == pings[v] > MaxPings

NextVehicle ==
  /\ at = "run" /\ worker.courses = <<>> /\ worker.todo # <<>>
  /\ LET v == Head(worker.todo)
     IN  IF TooMany(v)
         THEN /\ files' = Withdrawn /\ worker' = None /\ Fail
              /\ UNCHANGED <<pings, shards, merged>>
         ELSE /\ worker' = [worker EXCEPT !.todo = Tail(@), !.courses = Accepted(v)]
              /\ UNCHANGED <<job, attempt, at, files, pings, shards, merged, published, copied>>

\* align_stop_crossings' rows of a course.
RowsOf(c, a) == [k \in 1 .. job.vehicles[c[1]].courses[c[2]][a] |-> <<c[1], c[2], k>>]

\* Full row groups of rows, and what is left.
Groups(rows) == [g \in 1 .. Len(rows) \div Group |-> SubSeq(rows, (g - 1) * Group + 1, g * Group)]
Rest(rows) == SubSeq(rows, (Len(rows) \div Group) * Group + 1, Len(rows))

\* One course's rows, and the full groups of those held.
AlignCourse ==
  /\ at = "run" /\ worker.courses # <<>>
  /\ LET held == [a \in Artifacts |-> worker.rows[a] \o RowsOf(Head(worker.courses), a)]
     IN  worker' = [worker EXCEPT !.courses = Tail(@), !.rows = [a \in Artifacts |-> Rest(held[a])],
                                  !.written = [a \in Artifacts |-> @[a] \o Groups(held[a])]]
  /\ UNCHANGED <<job, attempt, at, files, pings, shards, merged, published, copied>>

\* _cleanup_stop_alignment_worker writes what is left.
Flushed == [a \in Artifacts |-> worker.written[a] \o (IF worker.rows[a] = <<>> THEN <<>> ELSE <<worker.rows[a]>>)]

Collect ==
  /\ at = "run" /\ worker.courses = <<>> /\ worker.todo = <<>>
  /\ shards' = Append(shards, Flushed)
  /\ worker' = None
  /\ at' = IF Len(shards') = Workers THEN "merge" ELSE "submit"
  /\ UNCHANGED <<job, attempt, files, pings, merged, published, copied>>

\* The row groups of every shard, in chunk order.
Batches(a) == Joined([i \in DOMAIN shards |-> shards[i][a]])

\* mutant: each shard's last rows are written before the next shard is read
Regrouped_PerShard(a) == Batches(a)

\* _merge_stop_alignment_shards: the shards' rows in chunk order, in full groups.
Regrouped(a) ==
  LET Take(m, batch) == LET rows == m.rows \o batch
                        IN  [groups |-> m.groups \o Groups(rows), rows |-> Rest(rows)]
      all == Fold(Take, [groups |-> <<>>, rows |-> <<>>], Batches(a))
  IN  IF all.rows = <<>> THEN all.groups ELSE Append(all.groups, all.rows)

Merge ==
  /\ at = "merge"
  /\ merged' = [a \in Artifacts |-> Regrouped(a)]
  /\ files' = Withdrawn \union Artifacts
  /\ at' = "facts"
  /\ UNCHANGED <<job, attempt, pings, worker, shards, published, copied>>

--------------------------------------------------------------------------------
(* the end of the run *)

BuildFacts ==
  /\ at = "facts"
  /\ files' = files \union {"trip_facts", "stop_arrivals", "expected_stop_events"}
  /\ at' = "manifest"
  /\ UNCHANGED <<job, attempt, pings, worker, shards, merged, published, copied>>

WriteManifest ==
  /\ at = "manifest"
  /\ files' = files \union {"manifest", "metrics"}
  /\ at' = "publish"
  /\ UNCHANGED <<job, attempt, pings, worker, shards, merged, published, copied>>

\* mutant: a directory that is there is replaced
MayPublish_Replace == TRUE

MayPublish == published = None

\* __exit__ without an exception, and _publish: the directory is moved, then the
\* metrics are copied.
Publish ==
  /\ at = "publish"
  /\ IF MayPublish
     THEN /\ published' = <<[attempt |-> attempt, files |-> files, rows |-> merged]>>
          /\ files' = {} /\ at' = "copy" /\ UNCHANGED <<job, attempt, copied>>
     ELSE Fail /\ UNCHANGED files
  /\ UNCHANGED <<pings, worker, shards, merged>>

CopyMetrics ==
  /\ at = "copy"
  /\ copied' = <<attempt>> /\ at' = "done"
  /\ UNCHANGED <<job, attempt, files, pings, worker, shards, merged, published>>

Ended == at \in {"failed", "done", "dead"}

\* A step raises: align_stops and the second half of align_execution take their
\* private files with them, __exit__ does not publish.
Raise ==
  /\ ~Ended
  /\ files' = IF at \in {"submit", "run", "merge"} THEN Withdrawn ELSE IF at = "settle" THEN files \ Private ELSE files
  /\ worker' = None /\ Fail
  /\ UNCHANGED <<pings, shards, merged>>

\* The process dies where it is.
Die ==
  /\ ~Ended /\ at' = "dead"
  /\ UNCHANGED <<job, attempt, files, pings, worker, shards, merged, published, copied>>

Again ==
  /\ Ended /\ attempt < MaxAttempts
  /\ attempt' = attempt + 1 /\ at' = "enter"
  /\ files' = {} /\ pings' = None /\ worker' = None /\ shards' = <<>> /\ merged' = NoRows
  /\ UNCHANGED <<job, published, copied>>

Init ==
  /\ job \in Jobs
  /\ attempt = 1 /\ at = "enter" /\ files = {} /\ pings = None /\ worker = None /\ shards = <<>> /\ merged = NoRows
  /\ published = None /\ copied = None

Next ==
  \/ Enter \/ PrepareSchedule \/ Normalize \/ Evidence \/ SettleDuties
  \/ WriteInputs \/ Submit \/ NextVehicle \/ AlignCourse \/ Collect \/ Merge
  \/ BuildFacts \/ WriteManifest \/ Publish \/ CopyMetrics
  \/ Raise \/ Die \/ Again
  \/ Ended /\ attempt = MaxAttempts /\ UNCHANGED vars

Spec == Init /\ [][Next]_vars

TypeOK ==
  /\ attempt \in 1 .. MaxAttempts
  /\ at \in {"enter", "schedule", "normalize", "evidence", "settle", "align", "submit", "run", "merge",
             "facts", "manifest", "publish", "copy", "done", "failed", "dead"}
  /\ files \subseteq Results \union {"duckdb-temp", ".traversal_evidence", ".terminal_courses", ".stop_alignment_inputs", ".stop-alignment-shards"}
  /\ Len(shards) <= Len(job.vehicles)
  /\ worker # None => \A a \in Artifacts : Len(worker.rows[a]) < Group

--------------------------------------------------------------------------------
(* Properties *)

\* The rows of courses, and of the accepted courses of vehicles, one after the other.
OfCourses(courses, a) == Joined([k \in DOMAIN courses |-> RowsOf(courses[k], a)])
OfVehicles(vehicles, a) == Joined([i \in DOMAIN vehicles |-> OfCourses(Accepted(vehicles[i]), a)])
Whole(a) == OfVehicles([v \in Vehicles |-> v], a)

\* However many workers align them, the published rows are those of every accepted
\* course, each once, in the order of vehicles and courses.
SameForAnyWorkers == published # None => \A a \in Artifacts : Joined(published[1].rows[a]) = Whole(a)

\* Every row group of an artifact is full but the last: neither the shards' ends nor
\* the chunks' show in the merged artifact.
FullGroups ==
  \A a \in Artifacts : \A g \in DOMAIN merged[a] : Len(merged[a][g]) = Group \/ (g = Len(merged[a]) /\ merged[a][g] # <<>>)

\* What is published is a whole run's output and nothing of its private files.
PublishedWhole == published # None => published[1].files = Results \union {"duckdb-temp"}

\* A later run, of a day already published, leaves the first output as it was, and
\* metrics are only ever copied of the run that was published.
FirstStands ==
  /\ published # None => published' = published
  /\ copied' # copied => published # None /\ copied' = <<published[1].attempt>>
FirstOutputStands == [][FirstStands]_vars

\* A vehicle the first pass took is not refused by the second: on its own, the limit
\* on a vehicle's pings never fails a run that has begun to align stops.
LimitAgrees == at = "run" => \A v \in Vehicles : ~TooMany(v)

--------------------------------------------------------------------------------
(* What makes them inductive *)

Outputs == Artifacts \union {"trip_facts", "stop_arrivals", "expected_stop_events"}
Prepared == (Results \ (Outputs \union {"manifest", "metrics"})) \union {"duckdb-temp"}

\* The directory at each step.
FilesInv ==
  /\ at = "enter" => files = {}
  /\ at = "schedule" => files = {"duckdb-temp"}
  /\ at = "normalize" => files = (Prepared \ {"normalized_gps", "duty_execution"}) \union {".terminal_courses"}
  /\ at = "evidence" => files = (Prepared \ {"duty_execution"}) \union {".terminal_courses"}
  /\ at = "settle" => files = (Prepared \ {"duty_execution"}) \union Private
  /\ at = "align" => files = Prepared
  /\ at \in {"submit", "run", "merge"} => Withdrawn = Prepared
  /\ at = "facts" => files = Prepared \union Artifacts
  /\ at = "manifest" => files = Prepared \union Outputs
  /\ at = "publish" => files = Results \union {"duckdb-temp"}

Rows == Nat \X Nat \X Nat
CourseKeys == {c \in Nat \X Nat : c[1] \in Vehicles /\ c[2] \in DOMAIN job.vehicles[c[1]].courses}

\* The rows of the collected chunks, and all that are still to come in this one.
Collected(a) == Joined(Batches(a))
Coming(a) == ((Joined(worker.written[a]) \o worker.rows[a]) \o OfCourses(worker.courses, a)) \o OfVehicles(worker.todo, a)
Until(i, a) == OfVehicles(SubSeq(Active, 1, Start(i)), a)

\* The chunks collected so far hold the rows of the first vehicles; with what the
\* worker holds and has to do, those of the next chunk too.
ShardsInv ==
  /\ shards \in Seq([Artifacts -> Seq(Seq(Rows))])
  /\ at \in {"enter", "schedule", "normalize", "evidence", "settle", "align"} => shards = <<>>
  /\ at \in {"submit", "run"} => Active # <<>> /\ Len(shards) < Workers
  /\ at = "submit" => \A a \in Artifacts : Collected(a) = Until(Len(shards) + 1, a)
  /\ at = "run" =>
       /\ worker \in [todo : Seq(Vehicles), courses : Seq(CourseKeys), rows : [Artifacts -> Seq(Rows)],
                      written : [Artifacts -> Seq(Seq(Rows))]]
       /\ \A a \in Artifacts : Collected(a) \o Coming(a) = Until(Len(shards) + 2, a)
  /\ at = "merge" => \A a \in Artifacts : Collected(a) = Whole(a)

\* What was merged is whole, and so is what was published, by whichever run.
OutputInv ==
  /\ at \notin {"enter", "failed", "dead"} => job.workers >= 1
  /\ at \in {"settle", "align", "submit", "run"} => \A v \in Vehicles : ~TooMany(v)
  /\ at \in {"facts", "manifest", "publish"} => \A a \in Artifacts : Joined(merged[a]) = Whole(a)
  /\ at = "copy" => published # None /\ published[1].attempt = attempt
RunInv == job \in Jobs /\ FilesInv /\ ShardsInv /\ OutputInv /\ FullGroups /\ SameForAnyWorkers /\ PublishedWhole
==================================================================================
