---------------------------- MODULE PlannerPipeline -----------------------------
(* dag_planner_train and dag_planner_score. A weekly run trains a model, uploads its *)
(* bundle and points current.json at it when it passes the gate; the nightly run     *)
(* takes the current bundle through a local cache, extracts the recent conditions    *)
(* and replaces the artifact. Airflow runs one of each at a time; the two meet at    *)
(* the bucket. A task may die between any two steps; scoring is then tried again     *)
(* with the run's id. The fit, and what the artifact's rows say, are left out.       *)
EXTENDS Lists

CONSTANTS
  Tables,     \* the artifact's tables, in the order they are written
  MaxTrains,  \* weekly runs, a bound of the model
  MaxTries    \* scoring attempts, a bound of the model

VARIABLES
  week,       \* weekly runs so far; a run's bundle has its number as version
  training,   \* the training task: its step and the files it has uploaded
  tasks,      \* the states of the weekly run's tasks
  better,     \* versions that beat the lookup and the timetable on the held-out days
  models,     \* each version's files in the bucket
  current,    \* current.json: a version, 0 when there is none
  score,      \* the scoring task: its step, the version asked for, the directory used, files or shards, tables
  bundles,    \* each version's directory in the local cache
  partial,    \* each version's .partial directory
  staged,     \* the extract's objects under the run's prefix: the attempt that wrote each
  artifact,   \* planner.duckdb: what it was made from
  tries       \* scoring attempts so far

vars == <<week, training, tasks, better, models, current, score, bundles, partial, staged, artifact, tries>>
weekly == <<week, training, tasks, better, models, current>>
nightly == <<score, bundles, partial, staged, artifact, tries>>

Versions == 1 .. MaxTrains
\* A bundle's files as both sorted(iterdir()) and list_blobs give them: the file that
\* says a directory is there is not the last.
Files == <<"gbm.txt", "meta.json", "stop_slots.parquet">>
Bundle == {Files[i] : i \in 1 .. Len(Files)}
NoScore == [step |-> "idle", asked |-> 0, dir |-> 0, recent |-> <<>>, tables |-> <<>>]
NoArtifact == [asked |-> 0, bundle |-> 0, files |-> {}, recent |-> <<>>, tables |-> <<>>, try |-> 0]
TrainTasks == {"train_model", "build_footpaths", "calibrate_live", "training_complete"}

-----------------------------------------------------------------------------------
(* dag_planner_train *)

TrainStart ==
  /\ week < MaxTrains /\ tasks["training_complete"] # "none" /\ week' = week + 1
  /\ training' = [step |-> "fit", files |-> {}] /\ tasks' = [t \in TrainTasks |-> "none"]
  /\ UNCHANGED <<better, models, current, nightly>>

\* run_planner, and promotable on what it measured: a model that is not better fails
\* the task, which is not retried.
Promotable(model, lookup, timetable) == model < lookup /\ lookup < timetable
Fit ==
  /\ training.step = "fit"
  /\ \E model \in 1 .. 3, lookup \in 1 .. 2 :
       /\ better' = IF model < lookup /\ lookup < 3 THEN better \union {week} ELSE better
       /\ IF Promotable(model, lookup, 3) THEN training' = [training EXCEPT !.step = "upload"] /\ UNCHANGED tasks
          ELSE training' = [training EXCEPT !.step = "idle"] /\ tasks' = [tasks EXCEPT !["train_model"] = "failed"]
  /\ UNCHANGED <<week, models, current, nightly>>

\* upload_bundle: the pointer moves only after every file is in.
\* mutant: the pointer moves with the metadata.
Complete_Meta(files) == "meta.json" \in files
Complete(files) == files = Bundle
Upload ==
  /\ training.step = "upload"
  /\ IF Complete(training.files)
     THEN /\ current' = week /\ training' = [training EXCEPT !.step = "idle"]
          /\ tasks' = [tasks EXCEPT !["train_model"] = "success"] /\ UNCHANGED models
     ELSE LET files == training.files \union {Files[Cardinality(training.files) + 1]}
          IN  models' = [models EXCEPT ![week] = files] /\ training' = [training EXCEPT !.files = files] /\ UNCHANGED <<current, tasks>>
  /\ UNCHANGED <<week, better, nightly>>

TrainDies ==
  /\ training.step # "idle" /\ training' = [training EXCEPT !.step = "idle"]
  /\ tasks' = [tasks EXCEPT !["train_model"] = "failed"] /\ UNCHANGED <<week, better, models, current, nightly>>

\* What Airflow waits for: build_footpaths for the training in any state,
\* training_complete for the success of all three.
\* mutant: the last task waits for the footpaths and the calibration alone.
Awaited_Others == {"build_footpaths", "calibrate_live"}
Awaited == {"train_model", "build_footpaths", "calibrate_live"}
Beside(t) ==
  /\ week > 0 /\ tasks[t] = "none"
  /\ t = "build_footpaths" => tasks["train_model"] # "none"
  /\ IF t # "training_complete" THEN \E s \in {"success", "failed"} : tasks' = [tasks EXCEPT ![t] = s]
     ELSE /\ \A u \in Awaited : tasks[u] # "none"
          /\ tasks' = [tasks EXCEPT ![t] = IF \A u \in Awaited : tasks[u] = "success" THEN "success" ELSE "failed"]
  /\ UNCHANGED <<week, training, better, models, current, nightly>>

-----------------------------------------------------------------------------------
(* dag_planner_score: the bundle *)

\* A first attempt of a new night, whose prefix is its own, or a retry. A directory
\* that holds meta.json is the bundle.
Hits(version) == {v \in {version} : "meta.json" \in bundles[v]}
ScoreStart ==
  /\ score.step = "idle" /\ tries < MaxTries /\ current # 0 /\ tries' = tries + 1
  /\ score' = IF Hits(current) = {} THEN [NoScore EXCEPT !.step = "fetch", !.asked = current]
              ELSE [NoScore EXCEPT !.step = "clear", !.asked = current, !.dir = CHOOSE v \in Hits(current) : TRUE]
  /\ staged' \in {staged, <<>>}
  /\ UNCHANGED <<weekly, bundles, partial, artifact>>

\* Files are downloaded one by one beside what an earlier attempt left.
Fetched(file) == partial' = [partial EXCEPT ![score.asked] = @ \union {file}] /\ UNCHANGED bundles
Fetch ==
  /\ score.step = "fetch" /\ Len(score.recent) < Cardinality(models[score.asked])
  /\ Fetched(Files[Len(score.recent) + 1])
  /\ score' = [score EXCEPT !.recent = Append(@, Len(@) + 1)]
  /\ UNCHANGED <<weekly, staged, artifact, tries>>

Rename ==
  /\ score.step = "fetch" /\ Len(score.recent) = Cardinality(models[score.asked])
  /\ IF "meta.json" \in partial[score.asked]
     THEN /\ bundles' = [bundles EXCEPT ![score.asked] = partial[score.asked]]
          /\ partial' = [partial EXCEPT ![score.asked] = {}]
          /\ score' = [score EXCEPT !.step = "sweep", !.dir = score.asked, !.recent = <<>>]
     ELSE score' = NoScore /\ UNCHANGED <<bundles, partial>>
  /\ UNCHANGED <<weekly, staged, artifact, tries>>

\* The other directories are removed; a death on the way leaves some of their files.
Sweep ==
  /\ score.step = "sweep"
  /\ \/ /\ bundles' = [v \in Versions |-> IF v = score.dir THEN bundles[v] ELSE {}]
        /\ partial' = [v \in Versions |-> {}] /\ score' = [score EXCEPT !.step = "clear"]
     \/ \E v \in Versions \ {score.dir}, f \in Bundle :
          bundles' = [bundles EXCEPT ![v] = @ \ {f}] /\ score' = NoScore /\ UNCHANGED partial
  /\ UNCHANGED <<weekly, staged, artifact, tries>>

-----------------------------------------------------------------------------------
(* dag_planner_score: the extract and the artifact *)

\* export_parquet: what is under the prefix goes first.
Cleared(objects) == <<>>
Clear ==
  /\ score.step = "clear" /\ staged' = Cleared(staged) /\ score' = [score EXCEPT !.step = "extract"]
  /\ UNCHANGED <<weekly, bundles, partial, artifact, tries>>

\* The extract job numbers its shards from the first and decides how many there are.
Extract ==
  /\ score.step = "extract"
  /\ \E n \in 1 .. 2 : staged' = [i \in 1 .. (IF Len(staged) > n THEN Len(staged) ELSE n) |-> IF i <= n THEN tries ELSE staged[i]]
  /\ score' = [score EXCEPT !.step = "download"]
  /\ UNCHANGED <<weekly, bundles, partial, artifact, tries>>

Download ==
  /\ score.step = "download" /\ score' = [score EXCEPT !.step = "unstage", !.recent = staged]
  /\ UNCHANGED <<weekly, bundles, partial, staged, artifact, tries>>

Unstage ==
  /\ score.step = "unstage" /\ staged' = <<>> /\ score' = [score EXCEPT !.step = "write"]
  /\ UNCHANGED <<weekly, bundles, partial, artifact, tries>>

\* artifact.write: each table is created beside the artifact and validated.
Write ==
  /\ score.step = "write" /\ Len(score.tables) < Len(Tables)
  /\ \/ score' = [score EXCEPT !.tables = Append(@, Tables[Len(@) + 1])]
     \/ score' = NoScore
  /\ UNCHANGED <<weekly, bundles, partial, staged, artifact, tries>>

Ready == Len(score.tables) = Len(Tables)
Replace ==
  /\ score.step = "write" /\ Ready
  /\ artifact' = [asked |-> score.asked, bundle |-> score.dir, files |-> bundles[score.dir],
                  recent |-> score.recent, tables |-> score.tables, try |-> tries]
  /\ score' = NoScore
  /\ UNCHANGED <<weekly, bundles, partial, staged, tries>>

ScoreDies ==
  /\ score.step # "idle" /\ score' = NoScore
  /\ UNCHANGED <<weekly, bundles, partial, staged, artifact, tries>>

-----------------------------------------------------------------------------------
Init ==
  /\ week = 0 /\ training = [step |-> "idle", files |-> {}] /\ tasks = [t \in TrainTasks |-> "success"]
  /\ better = {} /\ models = [v \in Versions |-> {}] /\ current = 0
  /\ score = NoScore /\ bundles = [v \in Versions |-> {}] /\ partial = [v \in Versions |-> {}]
  /\ staged = <<>> /\ artifact = NoArtifact /\ tries = 0

Next ==
  \/ TrainStart \/ Fit \/ Upload \/ TrainDies \/ \E t \in TrainTasks \ {"train_model"} : Beside(t)
  \/ ScoreStart \/ Fetch \/ Rename \/ Sweep \/ Clear \/ Extract \/ Download \/ Unstage \/ Write \/ Replace \/ ScoreDies
  \/ week = MaxTrains /\ tasks["training_complete"] # "none" /\ score.step = "idle" /\ (tries = MaxTries \/ current = 0) /\ UNCHANGED vars

Spec == Init /\ [][Next]_vars

TypeOK ==
  /\ week \in 0 .. MaxTrains /\ current \in 0 .. week /\ tries \in 0 .. MaxTries
  /\ \A v \in Versions : models[v] \subseteq Bundle /\ bundles[v] \subseteq Bundle /\ partial[v] \subseteq Bundle
  /\ \A t \in TrainTasks : tasks[t] \in {"none", "success", "failed"}

\* Scoring can take whatever current.json names at any moment: that bundle is whole,
\* although the weekly run may die anywhere, and its model passed the gate.
CurrentUsable == current # 0 => models[current] = Bundle /\ current \in better

\* A download that dies is never taken for a bundle by a later night: the artifact was
\* made from every file of its bundle.
ArtifactWhole == artifact.bundle # 0 => artifact.files = Bundle /\ artifact.tables = Tables

\* The artifact was made from the model that was current when its run asked, although
\* deaths leave the cache with whole and half-removed directories of other versions.
NewestModel == artifact.bundle = artifact.asked

\* The recent conditions are those of the attempt that published, although a dead
\* attempt of the same run may have left more shards under the same prefix.
OwnExtract == \A i \in 1 .. Len(artifact.recent) : artifact.recent[i] = artifact.try

\* A weekly run whose model was not promoted is seen to fail, although the footpaths
\* built after it succeed.
FailureVisible == tasks["training_complete"] = "success" => tasks["train_model"] = "success"

--------------------------------------------------------------------------------
(* What makes the safety properties inductive *)

PlannerAssumption == Tables \in Seq(STRING) /\ MaxTrains \in Nat

Uploads == {{}, {Files[1]}, {Files[1], Files[2]}, Bundle}
Shapes ==
  /\ week \in 0 .. MaxTrains /\ current \in 0 .. week /\ tries \in Nat
  /\ training \in [step : {"idle", "fit", "upload"}, files : Uploads]
  /\ tasks \in [TrainTasks -> {"none", "success", "failed"}]
  /\ models \in [Versions -> Uploads]
  /\ score \in [step : {"idle", "fetch", "sweep", "clear", "extract", "download", "unstage", "write"},
                asked : {0} \union Versions, dir : {0} \union Versions, recent : Seq(Nat), tables : Seq(STRING)]
  /\ bundles \in [Versions -> SUBSET Bundle] /\ partial \in [Versions -> SUBSET Bundle] /\ staged \in Seq(Nat)

\* The weekly run uploads a version after the current one, and its training task ends once.
TrainInv ==
  /\ \A v \in Versions : v > week => models[v] = {}
  /\ training.step # "idle" => current < week /\ models[week] = training.files
  /\ training.step = "upload" => week \in better
  /\ tasks["train_model"] = "none" <=> training.step # "idle"

\* The newest version that scoring asked for is in the cache as a whole or not at all,
\* and no later one is.
Asked == IF score.step = "idle" THEN current ELSE score.asked
CacheInv ==
  /\ Asked # 0 => bundles[Asked] \in {{}, Bundle}
  /\ \A v \in Versions : v > Asked => bundles[v] = {}

AllOf(s, try) == \A i \in 1 .. Len(s) : s[i] = try
ScoreInv ==
  score.step # "idle" =>
    /\ score.asked \in 1 .. current /\ models[score.asked] = Bundle
    /\ Len(score.tables) <= Len(Tables) /\ \A i \in 1 .. Len(score.tables) : score.tables[i] = Tables[i]
    /\ score.step = "fetch" => Len(score.recent) <= Len(Files) /\ \A i \in 1 .. Len(score.recent) : Files[i] \in partial[score.asked]
    /\ score.step # "fetch" => score.dir = score.asked /\ bundles[score.dir] = Bundle
    /\ score.step = "extract" => staged = <<>>
    /\ score.step = "download" => AllOf(staged, tries)
    /\ score.step \in {"unstage", "write"} => AllOf(score.recent, tries)

PlannerInv ==
  /\ Shapes /\ TrainInv /\ CacheInv /\ ScoreInv
  /\ CurrentUsable /\ ArtifactWhole /\ NewestModel /\ OwnExtract /\ FailureVisible
==================================================================================
