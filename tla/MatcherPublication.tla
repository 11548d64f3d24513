--------------------------- MODULE MatcherPublication ---------------------------
(* How a matcher run reaches the stable input tables: run_matcher_load and     *)
(* publish_matcher_artifacts of airflow/dags/ztm_matcher.py, for the runs of   *)
(* one processing date.  Tables and BigQuery jobs are named after the run and  *)
(* the digest of what they hold, a job whose name was used before is not run   *)
(* again, and markers in GCS say what was approved and what was published.     *)
(*                                                                             *)
(* Abstractions: an output stands for a run's immutable identity, the digest   *)
(* of every artifact included; the artifacts of a step are visited in a fixed  *)
(* order; dag_daily_gps has max_active_runs = 1, so attempts do not overlap,   *)
(* but a task may be retried or cleared at any time; a job that outlives its   *)
(* attempt has ended before the next one.  Counts that are only recorded are   *)
(* left out.  BigQuery, GCS, the matcher and Airflow are external.             *)
EXTENDS Naturals, FiniteSets

CONSTANTS
  Runs,          \* Airflow run ids of this processing date
  Artifacts,     \* the tables a run produces
  Contents,      \* digests of artifacts
  Outputs,       \* what the matcher may produce
  Sound,         \* outputs that pass the publication invariants
  None,
  MaxFaults      \* bound: attempts killed, jobs failed, tables or markers lost

ASSUME PublicationAssumption ==
  /\ None \notin Runs \union Contents \union Artifacts \union Outputs
  /\ Artifacts # {} /\ IsFiniteSet(Artifacts)
  /\ Outputs \subseteq [Artifacts -> Contents] /\ Sound \subseteq Outputs
  /\ MaxFaults \in Nat

VARIABLES
  pc, att, out, todo,        \* the attempt under way: step, run, output, loop
  returned,                  \* runs whose load task has returned
  pending, validated, published,   \* markers of each run
  done, failed,              \* BigQuery: job ids, by how the job ended
  tables,                    \* BigQuery: what the run and stage tables hold
  stable,                    \* BigQuery: the partitions of the processing date
  kills, losses              \* bookkeeping of the bounds

attempt == <<pc, att, out, todo>>
markers == <<pending, validated, published>>
bounds == <<kills, losses>>
vars == <<attempt, returned, markers, done, failed, tables, stable, bounds>>

TableIds == {"run", "stage"} \X Runs \X Artifacts \X Contents
JobIds == ({"load", "source", "stage", "staged", "recount"} \X Runs \X Artifacts \X Contents)
            \union ({"replace"} \X Runs \X Outputs)

Nothing == [a \in Artifacts |-> None]
Unmarked == [r \in Runs |-> None]

Init ==
  /\ pc = "idle" /\ att = None /\ out = None /\ todo = {}
  /\ returned = {}
  /\ pending = Unmarked /\ validated = Unmarked /\ published = Unmarked
  /\ done = {} /\ failed = {}
  /\ tables = [t \in TableIds |-> None]
  /\ stable = Nothing
  /\ kills = 0 /\ losses = 0

--------------------------------------------------------------------------------
(* Names *)

\* mutant: a table is named after the run only; later attempts share it
TableId_WithoutDigest(kind, a) ==
  IF kind = "stage" THEN <<kind, att, a, out[a]>> ELSE <<kind, att, a, CHOOSE c \in Contents : TRUE>>
TableId(kind, a) == <<kind, att, a, out[a]>>

Exists(kind, a) == tables[TableId(kind, a)] # None

JobId(action, a) == <<action, att, a, out[a]>>
ReplaceJobId == <<"replace", att, out>>

(* _query_job and load_table_from_file: a job that ended is found again under  *)
(* its name, as it ended; only a new one has an effect.                        *)
New(j) == j \notin done \union failed
Reused(j) == j \in done
Submit(j) == j \notin failed /\ done' = done \union {j}

Lose == kills + losses < MaxFaults /\ losses' = losses + 1

(* The artifact a loop deals with now.                                         *)
This == CHOOSE a \in todo : TRUE

Create(kind, a, content) ==
  tables' = [tables EXCEPT ![TableId(kind, a)] = content]

(* The attempt ends: the task returns or raises, or its worker is gone.        *)
End ==
  /\ pc' = "idle"
  /\ att' = None /\ out' = None /\ todo' = {}

Goto(step) ==
  /\ pc' = step
  /\ todo' = Artifacts
  /\ UNCHANGED <<att, out>>

(* One more artifact of a loop is dealt with.                                  *)
LoopOn_Dangling(again, after) ==   \* mutant: the last artifact does not end the loop
  /\ todo' = todo \ {This}
  /\ pc' = IF todo = {} THEN after ELSE again
  /\ UNCHANGED <<att, out>>

LoopOn(again, after) ==
  /\ todo' = IF todo = {This} THEN Artifacts ELSE todo \ {This}
  /\ pc' = IF todo = {This} THEN after ELSE again
  /\ UNCHANGED <<att, out>>

--------------------------------------------------------------------------------
(* run_matcher_load *)

(* The matcher runs on the inputs as they are now; an output that conflicts    *)
(* with the run's validated marker is refused before anything is loaded.       *)
MatcherRuns(r, o) ==
  /\ pc = "idle"
  /\ returned' = returned \ {r}
  /\ IF validated[r] \in {None, o}
     THEN pc' = "load" /\ att' = r /\ out' = o /\ todo' = Artifacts
     ELSE UNCHANGED attempt
  /\ UNCHANGED <<markers, done, failed, tables, stable, bounds>>

(* _load_artifact                                                              *)
LoadArtifact ==
  /\ pc = "load"
  /\ Submit(JobId("load", This))
  /\ IF Reused(JobId("load", This))
     THEN Exists("run", This) /\ UNCHANGED tables
     ELSE Create("run", This, out[This])
  /\ LoopOn("load", "pend")
  /\ UNCHANGED <<returned, markers, failed, stable, bounds>>

(* _write_pending overwrites; the load task returns.                           *)
WritePending ==
  /\ pc = "pend"
  /\ pending' = [pending EXCEPT ![att] = out]
  /\ returned' = returned \union {att}
  /\ End
  /\ UNCHANGED <<validated, published, done, failed, tables, stable, bounds>>

--------------------------------------------------------------------------------
(* publish_matcher_artifacts *)

(* The pending output is checked, and approved by a marker that is created     *)
(* once; what is published is what the marker says.                            *)
Approve(r) ==
  /\ pc = "idle" /\ r \in returned
  /\ pending[r] \in Sound
  /\ validated[r] \in {None, pending[r]}
  /\ validated' = [validated EXCEPT ![r] = pending[r]]
  /\ pc' = "source" /\ att' = r /\ out' = pending[r] /\ todo' = Artifacts
  /\ UNCHANGED <<returned, pending, published, done, failed, tables, stable, bounds>>

(* publish_staged_artifacts: the source's rows are counted ...                 *)
CheckSource ==
  /\ pc = "source"
  /\ Submit(JobId("source", This))
  /\ Reused(JobId("source", This)) \/ Exists("run", This)
  /\ pc' = "stage"
  /\ UNCHANGED <<att, out, todo, returned, markers, failed, tables, stable, bounds>>

(* ... it is copied to a stage table ...                                       *)
StageArtifact_NoReuse ==   \* mutant: a stage job that exists already raises
  /\ pc = "stage"
  /\ New(JobId("stage", This)) /\ Submit(JobId("stage", This))
  /\ Exists("run", This) /\ Create("stage", This, tables[TableId("run", This)])
  /\ pc' = "staged"
  /\ UNCHANGED <<att, out, todo, returned, markers, failed, stable, bounds>>

StageArtifact ==
  /\ pc = "stage"
  /\ Submit(JobId("stage", This))
  /\ IF Reused(JobId("stage", This))
     THEN Exists("stage", This) /\ UNCHANGED tables
     ELSE Exists("run", This) /\ Create("stage", This, tables[TableId("run", This)])
  /\ pc' = "staged"
  /\ UNCHANGED <<att, out, todo, returned, markers, failed, stable, bounds>>

(* ... and the rows of the copy are counted.                                   *)
CheckStage ==
  /\ pc = "staged"
  /\ Submit(JobId("staged", This))
  /\ Reused(JobId("staged", This)) \/ Exists("stage", This)
  /\ LoopOn("source", "replace")
  /\ UNCHANGED <<returned, markers, failed, tables, stable, bounds>>

(* One transaction replaces the partitions of all stable tables.               *)
Replace ==
  /\ pc = "replace"
  /\ Submit(ReplaceJobId)
  /\ IF Reused(ReplaceJobId)
     THEN UNCHANGED stable
     ELSE /\ \A a \in Artifacts : Exists("stage", a)
          /\ stable' = [a \in Artifacts |-> tables[TableId("stage", a)]]
  /\ Goto("compare")
  /\ UNCHANGED <<returned, markers, failed, tables, bounds>>

(* Each stable partition is counted, by a job that may be found again, and     *)
(* compared with its stage, by a job that never is.                            *)
Compare_CountsOnly ==   \* mutant: the contents are not compared
  /\ pc = "compare"
  /\ Submit(JobId("recount", This))
  /\ Exists("stage", This)
  /\ LoopOn("compare", "certify")
  /\ UNCHANGED <<returned, markers, failed, tables, stable, bounds>>

Compare ==
  /\ pc = "compare"
  /\ Submit(JobId("recount", This))
  /\ Exists("stage", This) /\ stable[This] = tables[TableId("stage", This)]
  /\ LoopOn("compare", "certify")
  /\ UNCHANGED <<returned, markers, failed, tables, stable, bounds>>

(* _write_published_marker: created once; the same content may be there.       *)
Certify ==
  /\ pc = "certify"
  /\ published[att] \in {None, out}
  /\ published' = [published EXCEPT ![att] = out]
  /\ Goto("clean")
  /\ UNCHANGED <<returned, pending, validated, done, failed, tables, stable, bounds>>

(* The stages are deleted, each if it can be; then the task returns.           *)
DeleteStage(gone) ==
  /\ pc = "clean"
  /\ IF gone THEN Create("stage", This, None) /\ UNCHANGED losses ELSE Lose /\ UNCHANGED tables
  /\ IF todo = {This} THEN End ELSE LoopOn("clean", "clean")
  /\ UNCHANGED <<returned, markers, done, failed, stable, kills>>

--------------------------------------------------------------------------------
(* What goes wrong *)

(* The attempt raises: a reused job or a table it made is not as it was left,  *)
(* or a marker says otherwise.  A job over a missing table ends as failed.     *)
Raises ==
  \/ pc = "load" /\ \/ JobId("load", This) \in failed
                    \/ Reused(JobId("load", This)) /\ ~Exists("run", This)
  \/ pc = "source" /\ JobId("source", This) \in failed
  \/ pc = "stage" /\ \/ JobId("stage", This) \in failed
                     \/ Reused(JobId("stage", This)) /\ ~Exists("stage", This)
  \/ pc = "staged" /\ JobId("staged", This) \in failed
  \/ pc = "replace" /\ ReplaceJobId \in failed
  \/ pc = "compare" /\ \/ JobId("recount", This) \in failed
                       \/ ~Exists("stage", This)
                       \/ stable[This] # tables[TableId("stage", This)]
  \/ pc = "certify" /\ published[att] \notin {None, out}

Refuse ==
  /\ Raises
  /\ End
  /\ UNCHANGED <<returned, markers, done, failed, tables, stable, bounds>>

(* The job the attempt submits now; it must fail if its input is gone.         *)
Submits ==
  CASE pc = "load" -> JobId("load", This)
    [] pc = "source" -> JobId("source", This)
    [] pc = "stage" -> JobId("stage", This)
    [] pc = "staged" -> JobId("staged", This)
    [] pc = "replace" -> ReplaceJobId
    [] pc = "compare" -> JobId("recount", This)

Impossible ==
  \/ pc \in {"source", "stage"} /\ ~Exists("run", This)
  \/ pc = "staged" /\ ~Exists("stage", This)
  \/ pc = "replace" /\ \E a \in Artifacts : ~Exists("stage", a)
  \/ pc = "compare" /\ stable[This] # out[This]

(* A new job fails, for good under its name: its input is gone, its count is   *)
(* not the expected one (other contents may have as many rows), or BigQuery    *)
(* had an error.  A transaction that fails changes nothing.                    *)
JobFails ==
  /\ pc \in {"load", "source", "stage", "staged", "replace", "compare"}
  /\ New(Submits)
  /\ IF Impossible THEN UNCHANGED losses ELSE Lose
  /\ failed' = failed \union {Submits}
  /\ End
  /\ UNCHANGED <<returned, markers, done, tables, stable, kills>>

Kill ==
  /\ pc # "idle"
  /\ kills + losses < MaxFaults /\ kills' = kills + 1
  /\ End
  /\ UNCHANGED <<returned, markers, done, failed, tables, stable, losses>>

(* Retention deletes a table, here whatever its age.                           *)
Expire(t) ==
  /\ tables[t] # None
  /\ Lose
  /\ tables' = [tables EXCEPT ![t] = None]
  /\ UNCHANGED <<attempt, returned, markers, done, failed, stable, kills>>

(* An attempt of another run deletes old markers of this one.                  *)
CleanMarker(r) ==
  /\ pc # "idle" /\ att # r
  /\ Lose
  /\ \/ /\ pending' = [pending EXCEPT ![r] = None]
        /\ UNCHANGED <<validated, published>>
     \/ /\ validated' = [validated EXCEPT ![r] = None]
        /\ UNCHANGED <<pending, published>>
     \/ /\ published' = [published EXCEPT ![r] = None]
        /\ UNCHANGED <<pending, validated>>
  /\ UNCHANGED <<attempt, returned, done, failed, tables, stable, kills>>

--------------------------------------------------------------------------------
Step ==
  \/ LoadArtifact \/ WritePending
  \/ CheckSource \/ StageArtifact \/ CheckStage \/ Replace \/ Compare \/ Certify
  \/ \E gone \in BOOLEAN : DeleteStage(gone)

Next ==
  \/ Step \/ Refuse \/ JobFails \/ Kill
  \/ \E r \in Runs : Approve(r) \/ CleanMarker(r) \/ \E o \in Outputs : MatcherRuns(r, o)
  \/ \E t \in TableIds : Expire(t)

Spec == Init /\ [][Next]_vars

(* Fairness: an attempt that could go on does.                                 *)
FairSpec == Spec /\ WF_vars(Step)

--------------------------------------------------------------------------------
(* Properties *)

Loops == {"load", "source", "compare", "clean"}

(* The variables keep their types, and a loop that goes on has artifacts left. *)
TypeOK ==
  /\ pc \in Loops \union {"idle", "pend", "stage", "staged", "replace", "certify"}
  /\ IF pc = "idle" THEN att = None /\ out = None ELSE att \in Runs /\ out \in Outputs
  /\ todo \subseteq Artifacts /\ (pc \in Loops \union {"stage", "staged"} => todo # {})
  /\ returned \subseteq Runs
  /\ pending \in [Runs -> Outputs \union {None}]
  /\ validated \in [Runs -> Sound \union {None}]
  /\ published \in [Runs -> Sound \union {None}]
  /\ done \subseteq JobIds /\ failed \subseteq JobIds
  /\ tables \in [TableIds -> Contents \union {None}]
  /\ stable \in [Artifacts -> Contents \union {None}]
  /\ kills \in Nat /\ losses \in Nat /\ kills + losses <= MaxFaults

(* The stable partitions, all together, hold nothing or an output that passes  *)
(* the publication invariants: whichever attempts of whichever runs loaded,    *)
(* staged, failed and were repeated, contents of two outputs are never mixed.  *)
StableSound == stable = Nothing \/ stable \in Sound

(* Publication implements the ledger: the partitions change in one step, to    *)
(* what the run's validated marker says, and published.json is only written    *)
(* while they hold exactly that, even when the commit is an earlier attempt's  *)
(* and another run published since.                                            *)
Ledger == INSTANCE PartitionLedger WITH
  Outputs <- Sound,
  stable <- IF stable = Nothing THEN None ELSE stable,
  approved <- validated,
  certified <- published

PublicationRefined == Ledger!LedgerSpec

(* A publish attempt that no failed job, no lost table or marker and no kill   *)
(* disturbs certifies its output, wherever earlier attempts of the run were    *)
(* killed, unless it was committed before and another run published since.     *)
Undisturbed(r) ==
  /\ pc = "source" /\ att = r /\ todo = Artifacts
  /\ losses = 0 /\ \A j \in failed : j[2] # r
  /\ published[r] = None
  /\ ReplaceJobId \in done => stable = out

RetryPublishes ==
  \A r \in Runs : \A n \in 0..MaxFaults :
    Undisturbed(r) /\ kills = n ~> published[r] # None \/ losses > 0 \/ kills > n

(* docs/operations.md:55 calls retries repeatable when a later failure follows *)
(* the matcher publication.  Refuted: the published run's stages are deleted,  *)
(* the job that made them is not run again, and every retry fails.             *)
PublishedRetrySucceeds ==
  [][~(pc = "stage" /\ published[att] = out /\ stable = out /\ Refuse)]_vars
==================================================================================
