--------------------------- MODULE PublicationProofs ---------------------------
(* Proofs about MatcherPublication, for any runs, tables, outputs and faults. *)
EXTENDS MatcherPublication, TLAPS

Publishing == {"source", "stage", "staged", "replace", "compare", "certify", "clean"}

\* A table that exists holds what its name says.
TablesOK == \A t \in TableIds : tables[t] \in {None, t[4]}

\* What a publish attempt knows at each of its steps.
AttemptOK ==
  /\ pc \in Publishing => validated[att] = out
  /\ pc = "compare" => \A a \in Artifacts \ todo : stable[a] = out[a]
  /\ pc = "certify" => stable = out

IInv == TypeOK /\ TablesOK /\ AttemptOK /\ StableSound

(* Outputs are tables of contents, different from no output at all.             *)
LEMMA OutputsAreContents ==
  /\ Sound \subseteq Outputs
  /\ \A o \in Outputs : o \in [Artifacts -> Contents] /\ o # Nothing /\ o # None
  /\ Nothing \in [Artifacts -> Contents \union {None}]
<1>1. PICK a \in Artifacts : TRUE
  BY PublicationAssumption
<1>2. ASSUME NEW o \in Outputs PROVE o \in [Artifacts -> Contents] /\ o # Nothing /\ o # None
  <2>1. o \in [Artifacts -> Contents] /\ o # None
    BY PublicationAssumption
  <2>2. o[a] \in Contents /\ Nothing[a] = None
    BY <2>1, <1>1 DEF Nothing
  <2> QED BY <2>1, <2>2, PublicationAssumption
<1> QED BY <1>2, PublicationAssumption DEF Nothing

(* The artifact that a loop looks at is one of those left.                      *)
LEMMA ThisOne == ASSUME todo # {} PROVE This \in todo
BY DEF This

\* An attempt's tables and jobs have names of the right kind.
LEMMA NamesOK ==
  ASSUME TypeOK, pc # "idle", NEW a \in Artifacts
  PROVE  /\ \A kind \in {"run", "stage"} : TableId(kind, a) \in TableIds
                                            /\ TableId(kind, a)[4] = out[a]
         /\ \A act \in {"load", "source", "stage", "staged", "recount"} : JobId(act, a) \in JobIds
         /\ ReplaceJobId \in JobIds
<1>1. att \in Runs /\ out \in Outputs /\ out[a] \in Contents
  BY OutputsAreContents DEF TypeOK
<1> QED BY <1>1 DEF TableId, TableIds, JobId, JobIds, ReplaceJobId

(* The invariant holds before the first attempt.                                *)
LEMMA Initially == Init => IInv
BY PublicationAssumption, OutputsAreContents
DEF Init, IInv, TypeOK, Loops, Unmarked, Nothing, TablesOK, TableIds, AttemptOK, Publishing, StableSound

--------------------------------------------------------------------------------
(* The next artifact of a loop, and the end of an attempt. *)

AttemptTyped ==
  /\ pc \in Loops \union {"idle", "pend", "stage", "staged", "replace", "certify"}
  /\ IF pc = "idle" THEN att = None /\ out = None ELSE att \in Runs /\ out \in Outputs
  /\ todo \subseteq Artifacts /\ (pc \in Loops \union {"stage", "staged"} => todo # {})

(* A loop goes on with the artifacts left, and reaches the step after it only when *)
(* the artifact it looks at was the last.                                       *)
LEMMA LoopGoesOn ==
  ASSUME TypeOK, pc # "idle", todo # {},
         NEW again \in Loops, NEW after \in {"pend", "source", "replace", "certify", "clean"},
         LoopOn(again, after)
  PROVE  AttemptTyped' /\ pc' \in {again, after} /\ (pc' = after /\ again # after => todo = {This})
         /\ todo \ todo' \subseteq {This} /\ att' = att /\ out' = out
<1>1. This \in todo
  BY ThisOne
<1>2. Artifacts # {}
  BY PublicationAssumption
<1>3. todo' \subseteq Artifacts /\ todo' # {} /\ todo \ todo' \subseteq {This}
  BY <1>1, <1>2 DEF LoopOn, TypeOK
<1>4. pc' \in {again, after} /\ (pc' = after /\ again # after => todo = {This})
  BY DEF LoopOn
<1>5. att' = att /\ out' = out /\ att \in Runs /\ out \in Outputs
  BY DEF LoopOn, TypeOK
<1>6. pc' \in Loops \union {"pend", "replace", "certify"} /\ pc' # "idle"
  BY <1>4 DEF Loops
<1> QED BY <1>3, <1>4, <1>5, <1>6 DEF AttemptTyped

\* An attempt that ends without having changed a table, a marker or the partitions.
LEMMA Ending ==
  ASSUME IInv, End, UNCHANGED <<tables, stable, markers>>, returned' \subseteq Runs,
         done' \subseteq JobIds, failed' \subseteq JobIds,
         kills' \in Nat, losses' \in Nat, kills' + losses' <= MaxFaults
  PROVE  IInv'
BY DEF End, IInv, TypeOK, Loops, TablesOK, AttemptOK, Publishing, StableSound, markers

(* A loss is counted within MaxFaults.                                          *)
LEMMA LosingKeepsBound ==
  ASSUME TypeOK, Lose, kills' = kills
  PROVE  kills' \in Nat /\ losses' \in Nat /\ kills' + losses' <= MaxFaults
BY PublicationAssumption DEF TypeOK, Lose

--------------------------------------------------------------------------------
(* Every step keeps the invariant. *)

(* A run table that is loaded, or found loaded, holds the artifact it is named after. *)
LEMMA LoadArtifactOK == IInv /\ LoadArtifact => IInv'
<1> SUFFICES ASSUME IInv, LoadArtifact PROVE IInv'
  OBVIOUS
<1> USE DEF IInv
<1>1. This \in Artifacts /\ todo # {} /\ pc # "idle" /\ out \in Outputs
  BY ThisOne DEF LoadArtifact, TypeOK, Loops
<1>2. AttemptTyped' /\ pc' \in {"load", "pend"}
  BY <1>1, LoopGoesOn DEF LoadArtifact, Loops
<1>3. TableId("run", This) \in TableIds /\ TableId("run", This)[4] = out[This]
      /\ JobId("load", This) \in JobIds /\ out[This] \in Contents
  BY <1>1, NamesOK, OutputsAreContents
<1>4. tables' = tables \/ tables' = [tables EXCEPT ![TableId("run", This)] = out[This]]
  BY DEF LoadArtifact, Create
<1>5. tables' \in [TableIds -> Contents \union {None}] /\ TablesOK'
  BY <1>3, <1>4 DEF TypeOK, TablesOK
<1>6. done' \subseteq JobIds
  BY <1>3 DEF LoadArtifact, Submit, TypeOK
<1>7. TypeOK'
  BY <1>2, <1>5, <1>6 DEF LoadArtifact, TypeOK, AttemptTyped, bounds, markers
<1>8. AttemptOK' /\ StableSound'
  BY <1>2 DEF LoadArtifact, AttemptOK, Publishing, StableSound
<1> QED BY <1>5, <1>7, <1>8

(* The pending marker names the attempt's output, and changes nothing published. *)
LEMMA WritePendingOK == IInv /\ WritePending => IInv'
<1> SUFFICES ASSUME IInv, WritePending PROVE IInv'
  OBVIOUS
<1>1. att \in Runs /\ out \in Outputs
  BY DEF IInv, TypeOK, WritePending
<1>2. TypeOK'
  BY <1>1 DEF WritePending, IInv, TypeOK, End, Loops, bounds
<1>3. TablesOK' /\ AttemptOK' /\ StableSound'
  BY DEF WritePending, IInv, End, TablesOK, AttemptOK, Publishing, StableSound
<1> QED BY <1>2, <1>3 DEF IInv

(* Counting the source changes no table and no marker.                          *)
LEMMA CheckSourceOK == IInv /\ CheckSource => IInv'
<1> SUFFICES ASSUME IInv, CheckSource PROVE IInv'
  OBVIOUS
<1>1. This \in Artifacts /\ pc # "idle"
  BY ThisOne DEF IInv, CheckSource, TypeOK, Loops
<1>2. JobId("source", This) \in JobIds
  BY <1>1, NamesOK DEF IInv
<1>3. TypeOK'
  BY <1>2 DEF CheckSource, Submit, IInv, TypeOK, Loops, bounds, markers
<1>4. TablesOK' /\ AttemptOK' /\ StableSound'
  BY DEF CheckSource, IInv, TablesOK, AttemptOK, Publishing, StableSound, markers
<1> QED BY <1>3, <1>4 DEF IInv

(* A stage table is made from the run table of the same artifact.               *)
LEMMA StageArtifactOK == IInv /\ StageArtifact => IInv'
<1> SUFFICES ASSUME IInv, StageArtifact PROVE IInv'
  OBVIOUS
<1> USE DEF IInv
<1>1. This \in Artifacts /\ pc # "idle" /\ todo # {}
  BY ThisOne DEF StageArtifact, TypeOK, Loops
<1>2. /\ TableId("run", This) \in TableIds /\ TableId("run", This)[4] = out[This]
      /\ TableId("stage", This) \in TableIds /\ TableId("stage", This)[4] = out[This]
      /\ JobId("stage", This) \in JobIds
  BY <1>1, NamesOK
<1>3. \/ tables' = tables
      \/ /\ tables[TableId("run", This)] = out[This] /\ out[This] \in Contents
         /\ tables' = [tables EXCEPT ![TableId("stage", This)] = out[This]]
  BY <1>1, <1>2, OutputsAreContents DEF StageArtifact, Create, Exists, TablesOK, TypeOK
<1>4. tables' \in [TableIds -> Contents \union {None}] /\ TablesOK'
  BY <1>2, <1>3 DEF TypeOK, TablesOK
<1>5. TypeOK'
  BY <1>1, <1>2, <1>4 DEF StageArtifact, Submit, TypeOK, Loops, bounds, markers
<1>6. AttemptOK' /\ StableSound'
  BY DEF StageArtifact, AttemptOK, Publishing, StableSound, markers
<1> QED BY <1>4, <1>5, <1>6

(* The replacement is reached with a stage that holds the whole output.         *)
LEMMA CheckStageOK == IInv /\ CheckStage => IInv'
<1> SUFFICES ASSUME IInv, CheckStage PROVE IInv'
  OBVIOUS
<1>1. This \in Artifacts /\ pc # "idle" /\ todo # {}
  BY ThisOne DEF IInv, CheckStage, TypeOK, Loops
<1>2. JobId("staged", This) \in JobIds
  BY <1>1, NamesOK DEF IInv
<1>3. AttemptTyped' /\ pc' \in {"source", "replace"} /\ att' = att /\ out' = out
  BY <1>1, LoopGoesOn DEF IInv, CheckStage, Loops
<1>4. TypeOK'
  BY <1>2, <1>3 DEF CheckStage, Submit, IInv, TypeOK, AttemptTyped, bounds, markers
<1>5. TablesOK' /\ AttemptOK' /\ StableSound'
  BY <1>3 DEF CheckStage, IInv, TablesOK, AttemptOK, Publishing, StableSound, markers
<1> QED BY <1>4, <1>5 DEF IInv

\* The transaction has no effect, or it puts the run's output in the partitions.
LEMMA ReplaceEffect ==
  ASSUME IInv, Replace
  PROVE  out \in Sound /\ validated[att] = out /\ att \in Runs /\ (stable' = stable \/ stable' = out)
<1>1. pc = "replace" /\ att \in Runs /\ validated[att] = out /\ out \in Outputs
  BY DEF IInv, TypeOK, AttemptOK, Publishing, Replace
<1>2. out \in Sound
  BY <1>1, OutputsAreContents DEF IInv, TypeOK
<1>3. ASSUME stable' # stable PROVE stable' = out
  <2>1. /\ \A a \in Artifacts : Exists("stage", a)
        /\ stable' = [a \in Artifacts |-> tables[TableId("stage", a)]]
    BY <1>3 DEF Replace
  <2>2. \A a \in Artifacts : tables[TableId("stage", a)] = out[a]
    BY <2>1, <1>1, NamesOK DEF IInv, TablesOK, Exists
  <2> QED BY <2>1, <2>2, <1>1, OutputsAreContents
<1> QED BY <1>1, <1>2, <1>3

(* The transaction puts a sound output into all partitions at once, whether it is *)
(* run or was found done.                                                       *)
LEMMA ReplaceOK == IInv /\ Replace => IInv'
<1> SUFFICES ASSUME IInv, Replace PROVE IInv'
  OBVIOUS
<1>1. out \in Sound /\ validated[att] = out /\ att \in Runs /\ (stable' = stable \/ stable' = out)
  BY ReplaceEffect
<1>2. ReplaceJobId \in JobIds
  BY <1>1 DEF ReplaceJobId, JobIds, IInv, TypeOK, Replace
<1>3. stable' \in [Artifacts -> Contents \union {None}]
  BY <1>1, OutputsAreContents DEF IInv, TypeOK
<1>4. TypeOK'
  BY <1>2, <1>3, PublicationAssumption DEF Replace, Goto, Submit, IInv, TypeOK, Loops, bounds, markers
<1>5. TablesOK' /\ AttemptOK'
  BY <1>1 DEF Replace, Goto, IInv, TablesOK, AttemptOK, Publishing, markers
<1>6. StableSound'
  BY <1>1 DEF StableSound, IInv
<1> QED BY <1>4, <1>5, <1>6 DEF IInv

(* Certification is reached only when the partitions hold the attempt's output. *)
LEMMA CompareOK == IInv /\ Compare => IInv'
<1> SUFFICES ASSUME IInv, Compare PROVE IInv'
  OBVIOUS
<1>1. This \in Artifacts /\ pc # "idle" /\ todo # {} /\ out \in Outputs
  BY ThisOne DEF IInv, Compare, TypeOK, Loops
<1>2. JobId("recount", This) \in JobIds
  BY <1>1, NamesOK DEF IInv
<1>3. /\ AttemptTyped' /\ pc' \in {"compare", "certify"} /\ (pc' = "certify" => todo = {This})
      /\ todo \ todo' \subseteq {This} /\ att' = att /\ out' = out
  BY <1>1, LoopGoesOn DEF IInv, Compare, Loops
<1>4. TypeOK'
  BY <1>2, <1>3 DEF Compare, Submit, IInv, TypeOK, AttemptTyped, bounds, markers
<1>5. TablesOK' /\ StableSound'
  BY DEF Compare, IInv, TablesOK, StableSound
<1>6. stable[This] = out[This]
  BY <1>1, NamesOK DEF Compare, Exists, IInv, TablesOK
<1>7. \A a \in Artifacts \ todo' : a \notin todo \/ a = This
  BY <1>3
<1>8. pc' = "compare" => \A a \in Artifacts \ todo' : stable[a] = out[a]
  BY <1>6, <1>7 DEF IInv, AttemptOK, Compare
<1>9. ASSUME pc' = "certify" PROVE stable = out
  <2>1. \A a \in Artifacts : stable[a] = out[a]
    BY <1>9, <1>3, <1>6 DEF IInv, AttemptOK, Compare
  <2> QED BY <2>1, <1>1, OutputsAreContents DEF IInv, TypeOK
<1>10. AttemptOK'
  BY <1>3, <1>8, <1>9 DEF AttemptOK, Publishing, IInv, Compare, markers
<1> QED BY <1>4, <1>5, <1>10 DEF IInv

(* A certificate is given for what the partitions hold.                         *)
LEMMA CertifyOK == IInv /\ Certify => IInv'
<1> SUFFICES ASSUME IInv, Certify PROVE IInv'
  OBVIOUS
<1>1. att \in Runs /\ out \in Outputs /\ validated[att] = out /\ out \in Sound
  BY OutputsAreContents DEF IInv, TypeOK, AttemptOK, Publishing, Certify
<1>2. TypeOK'
  BY <1>1, PublicationAssumption DEF Certify, Goto, IInv, TypeOK, Loops, bounds
<1>3. TablesOK' /\ AttemptOK' /\ StableSound'
  BY <1>1 DEF Certify, Goto, IInv, TablesOK, AttemptOK, Publishing, StableSound
<1> QED BY <1>2, <1>3 DEF IInv

(* Deleting stage tables changes nothing published.                             *)
LEMMA DeleteStageOK == ASSUME NEW gone \in BOOLEAN PROVE IInv /\ DeleteStage(gone) => IInv'
<1> SUFFICES ASSUME IInv, DeleteStage(gone) PROVE IInv'
  OBVIOUS
<1> USE DEF IInv
<1>1. This \in Artifacts /\ pc # "idle" /\ todo # {}
  BY ThisOne DEF DeleteStage, TypeOK, Loops
<1>2. TableId("stage", This) \in TableIds
  BY <1>1, NamesOK
<1>3. tables' = tables \/ tables' = [tables EXCEPT ![TableId("stage", This)] = None]
  BY DEF DeleteStage, Create
<1>4. tables' \in [TableIds -> Contents \union {None}] /\ TablesOK'
  BY <1>2, <1>3 DEF TypeOK, TablesOK
<1>5. kills' \in Nat /\ losses' \in Nat /\ kills' + losses' <= MaxFaults
  BY LosingKeepsBound DEF DeleteStage, TypeOK
<1>6. CASE todo = {This}
  <2>1. TypeOK'
    BY <1>6, <1>4, <1>5 DEF DeleteStage, End, TypeOK, Loops, markers
  <2> QED BY <2>1, <1>4, <1>6 DEF DeleteStage, End, AttemptOK, Publishing, StableSound
<1>7. CASE todo # {This}
  <2>1. AttemptTyped' /\ pc' = "clean" /\ att' = att /\ out' = out
    BY <1>1, <1>7, LoopGoesOn DEF DeleteStage, Loops
  <2>2. TypeOK'
    BY <2>1, <1>4, <1>5 DEF DeleteStage, TypeOK, AttemptTyped, markers
  <2> QED BY <2>1, <2>2, <1>4 DEF DeleteStage, AttemptOK, Publishing, StableSound, markers
<1> QED BY <1>6, <1>7

(* An attempt that raises or is killed leaves tables, markers and partitions alone. *)
LEMMA RefuseOK == IInv /\ (Refuse \/ Kill) => IInv'
<1>1. ASSUME IInv, Refuse PROVE IInv'
  BY <1>1, Ending DEF Refuse, IInv, TypeOK, bounds
<1>2. ASSUME IInv, Kill PROVE IInv'
  <2>1. kills' \in Nat /\ losses' \in Nat /\ kills' + losses' <= MaxFaults
    BY <1>2, PublicationAssumption DEF Kill, IInv, TypeOK
  <2> QED BY <1>2, <2>1, Ending DEF Kill, IInv, TypeOK
<1> QED BY <1>1, <1>2

(* A job that fails changes no table.                                           *)
LEMMA JobFailsOK == IInv /\ JobFails => IInv'
<1> SUFFICES ASSUME IInv, JobFails PROVE IInv'
  OBVIOUS
<1>1. pc # "replace" => This \in Artifacts
  BY ThisOne DEF IInv, JobFails, TypeOK, Loops
<1>2. pc # "idle" /\ pc \in {"load", "source", "stage", "staged", "replace", "compare"}
  BY DEF JobFails
<1>3. ReplaceJobId \in JobIds
  BY <1>2 DEF IInv, TypeOK, ReplaceJobId, JobIds
<1>4. Submits \in JobIds
  BY <1>1, <1>2, <1>3, NamesOK DEF IInv, Submits
<1>5. kills' \in Nat /\ losses' \in Nat /\ kills' + losses' <= MaxFaults
  BY LosingKeepsBound DEF JobFails, IInv, TypeOK
<1> QED BY <1>4, <1>5, Ending DEF JobFails, IInv, TypeOK

(* An attempt of the matcher begins at its first artifact, or is refused.       *)
LEMMA MatcherRunsOK ==
  ASSUME NEW r \in Runs, NEW o \in Outputs PROVE IInv /\ MatcherRuns(r, o) => IInv'
<1> SUFFICES ASSUME IInv, MatcherRuns(r, o) PROVE IInv'
  OBVIOUS
<1>1. TypeOK'
  BY PublicationAssumption DEF MatcherRuns, IInv, TypeOK, Loops, attempt, markers, bounds
<1>2. TablesOK' /\ AttemptOK' /\ StableSound'
  BY DEF MatcherRuns, IInv, TablesOK, AttemptOK, Publishing, StableSound, attempt, markers
<1> QED BY <1>1, <1>2 DEF IInv

(* An approval is given to a sound output only, and never replaced.             *)
LEMMA ApproveOK == ASSUME NEW r \in Runs PROVE IInv /\ Approve(r) => IInv'
<1> SUFFICES ASSUME IInv, Approve(r) PROVE IInv'
  OBVIOUS
<1>1. TypeOK'
  BY PublicationAssumption, OutputsAreContents DEF Approve, IInv, TypeOK, Loops, bounds
<1>2. TablesOK' /\ AttemptOK' /\ StableSound'
  BY DEF Approve, IInv, TypeOK, TablesOK, AttemptOK, Publishing, StableSound
<1> QED BY <1>1, <1>2 DEF IInv

(* A table that expires holds nothing, whatever its name.                       *)
LEMMA ExpireOK == ASSUME NEW t \in TableIds PROVE IInv /\ Expire(t) => IInv'
<1> SUFFICES ASSUME IInv, Expire(t) PROVE IInv'
  OBVIOUS
<1>1. kills' \in Nat /\ losses' \in Nat /\ kills' + losses' <= MaxFaults
  BY LosingKeepsBound DEF Expire, IInv
<1>2. TypeOK'
  BY <1>1 DEF Expire, IInv, TypeOK, attempt, markers
<1>3. TablesOK' /\ AttemptOK' /\ StableSound'
  BY DEF Expire, IInv, TypeOK, TablesOK, AttemptOK, Publishing, StableSound, attempt, markers
<1> QED BY <1>2, <1>3 DEF IInv

(* Deleting old markers changes no partition.                                   *)
LEMMA CleanMarkerOK == ASSUME NEW r \in Runs PROVE IInv /\ CleanMarker(r) => IInv'
<1> SUFFICES ASSUME IInv, CleanMarker(r) PROVE IInv'
  OBVIOUS
<1>1. kills' \in Nat /\ losses' \in Nat /\ kills' + losses' <= MaxFaults
  BY LosingKeepsBound DEF CleanMarker, IInv
<1>2. /\ pending' \in [Runs -> Outputs \union {None}]
      /\ validated' \in [Runs -> Sound \union {None}]
      /\ published' \in [Runs -> Sound \union {None}]
  BY DEF CleanMarker, IInv, TypeOK
<1>3. TypeOK'
  BY <1>1, <1>2 DEF CleanMarker, IInv, TypeOK, attempt
<1>4. validated'[att] = validated[att]
  BY DEF CleanMarker, IInv, TypeOK
<1>5. TablesOK' /\ AttemptOK' /\ StableSound'
  BY <1>4 DEF CleanMarker, IInv, TablesOK, AttemptOK, Publishing, StableSound, attempt
<1> QED BY <1>3, <1>5 DEF IInv

(* Every step keeps the invariant.                                              *)
LEMMA NextOK == IInv /\ [Next]_vars => IInv'
<1> SUFFICES ASSUME IInv, [Next]_vars PROVE IInv'
  OBVIOUS
<1>1. CASE Step
  BY <1>1, LoadArtifactOK, WritePendingOK, CheckSourceOK, StageArtifactOK, CheckStageOK, ReplaceOK,
     CompareOK, CertifyOK, DeleteStageOK DEF Step
<1>2. CASE Refuse \/ JobFails \/ Kill
  BY <1>2, RefuseOK, JobFailsOK
<1>3. CASE \E r \in Runs : Approve(r) \/ CleanMarker(r) \/ \E o \in Outputs : MatcherRuns(r, o)
  BY <1>3, ApproveOK, CleanMarkerOK, MatcherRunsOK
<1>4. CASE \E t \in TableIds : Expire(t)
  BY <1>4, ExpireOK
<1>5. CASE UNCHANGED vars
  BY <1>5 DEF vars, attempt, markers, bounds, IInv, TypeOK, TablesOK, AttemptOK, StableSound
<1> QED BY <1>1, <1>2, <1>3, <1>4, <1>5 DEF Next

(* The four parts of IInv hold in every reachable state of the publication:     *)
(* every attempt, retry, kill and expiry of a table preserves them.             *)
THEOREM Inductive == Spec => []IInv
BY Initially, NextOK, PTL DEF Spec

(* The types of run_matcher_load's and publish_matcher_artifacts' state hold in *)
(* every state, and no loop over the artifacts is left with nothing to visit.   *)
THEOREM TypeCorrect == Spec => []TypeOK
BY Inductive, PTL DEF IInv

(* The stable partitions hold an output that passed the publication invariants, *)
(* all of it, for any number of runs, retries and losses.                       *)
THEOREM PartitionsAlwaysSound == Spec => []StableSound
BY Inductive, PTL DEF IInv

--------------------------------------------------------------------------------
(* Refinement *)

(* The publication begins as an empty ledger.                                   *)
LEMMA InitRefines == Init => Ledger!LedgerInit
BY DEF Init, Ledger!LedgerInit, Ledger!Unmarked, Unmarked

(* Every step of the publication is a step of the ledger or leaves it alone.    *)
LEMMA StepRefines == IInv /\ [Next]_vars => [Ledger!LedgerNext]_(Ledger!ledger)
<1> SUFFICES ASSUME IInv, [Next]_vars PROVE [Ledger!LedgerNext]_(Ledger!ledger)
  OBVIOUS
<1>0. ASSUME UNCHANGED <<stable, validated, published>> PROVE UNCHANGED Ledger!ledger
  BY <1>0 DEF Ledger!ledger
<1>1. CASE Replace
  <2>1. out \in Sound /\ validated[att] = out /\ att \in Runs /\ (stable' = stable \/ stable' = out)
    BY <1>1, ReplaceEffect
  <2>2. CASE stable' = stable
    BY <1>0, <1>1, <2>2 DEF Replace, markers
  <2>3. CASE stable' = out
    <3>1. stable' # Nothing /\ out # None
      BY <2>1, <2>3, OutputsAreContents
    <3>2. Ledger!Replace(att)
      BY <1>1, <2>1, <2>3, <3>1 DEF Ledger!Replace, Replace, markers, Nothing
    <3> QED BY <3>2, <2>1 DEF Ledger!LedgerNext
  <2> QED BY <2>1, <2>2, <2>3
<1>2. CASE Certify
  <2>1. att \in Runs /\ out \in Sound /\ validated[att] = out /\ stable = out
    BY <1>2, OutputsAreContents DEF IInv, TypeOK, AttemptOK, Publishing, Certify
  <2>2. stable # Nothing /\ stable # None
    BY <2>1, OutputsAreContents
  <2>3. CASE published[att] = None
    <3>1. Ledger!Certify(att)
      BY <1>2, <2>1, <2>2, <2>3 DEF Certify, Ledger!Certify, Nothing
    <3> QED BY <3>1, <2>1 DEF Ledger!LedgerNext
  <2>4. CASE published[att] # None
    <3>1. published' = published
      BY <1>2, <2>4 DEF Certify, IInv, TypeOK
    <3> QED BY <1>0, <1>2, <3>1 DEF Certify
  <2> QED BY <2>3, <2>4
<1>3. ASSUME NEW r \in Runs, Approve(r) PROVE [Ledger!LedgerNext]_(Ledger!ledger)
  <2>1. pending[r] \in Sound /\ stable' = stable /\ published' = published
        /\ validated' = [validated EXCEPT ![r] = pending[r]]
        /\ validated[r] \in {None, pending[r]}
    BY <1>3 DEF Approve
  <2>2. CASE validated[r] = None
    <3>1. Ledger!Approve(r, pending[r])
      BY <2>1, <2>2 DEF Ledger!Approve, Nothing
    <3> QED BY <3>1, <2>1 DEF Ledger!LedgerNext
  <2>3. CASE validated[r] # None
    <3>1. validated' = validated
      BY <2>1, <2>3 DEF IInv, TypeOK
    <3> QED BY <1>0, <2>1, <3>1
  <2> QED BY <2>2, <2>3
<1>4. ASSUME NEW r \in Runs, CleanMarker(r) PROVE [Ledger!LedgerNext]_(Ledger!ledger)
  <2>1. stable' = stable
        /\ \/ UNCHANGED <<validated, published>>
           \/ validated' = [validated EXCEPT ![r] = None] /\ published' = published
           \/ published' = [published EXCEPT ![r] = None] /\ validated' = validated
    BY <1>4 DEF CleanMarker
  <2>2. CASE UNCHANGED <<validated, published>>
    BY <1>0, <2>1, <2>2
  <2>3. CASE ~UNCHANGED <<validated, published>>
    <3>1. Ledger!Forget(r)
      BY <2>1, <2>3 DEF Ledger!Forget, Nothing
    <3> QED BY <3>1 DEF Ledger!LedgerNext
  <2> QED BY <2>2, <2>3
<1>5. CASE LoadArtifact \/ WritePending \/ CheckSource \/ StageArtifact \/ CheckStage \/ Compare
           \/ \E gone \in BOOLEAN : DeleteStage(gone)
  BY <1>0, <1>5 DEF LoadArtifact, WritePending, CheckSource, StageArtifact, CheckStage, Compare,
     DeleteStage, markers
<1>6. CASE Refuse \/ JobFails \/ Kill
  BY <1>0, <1>6 DEF Refuse, JobFails, Kill, markers
<1>7. ASSUME NEW r \in Runs, NEW o \in Outputs, MatcherRuns(r, o)
      PROVE  [Ledger!LedgerNext]_(Ledger!ledger)
  BY <1>0, <1>7 DEF MatcherRuns, markers
<1>8. ASSUME NEW t \in TableIds, Expire(t) PROVE [Ledger!LedgerNext]_(Ledger!ledger)
  BY <1>0, <1>8 DEF Expire, markers
<1>9. CASE UNCHANGED vars
  BY <1>0, <1>9 DEF vars, markers
<1> QED BY <1>1, <1>2, <1>3, <1>4, <1>5, <1>6, <1>7, <1>8, <1>9 DEF Next, Step

(* Publication implements the ledger: the partitions change together, to what   *)
(* the run had approved, and certificates are given for what they hold.         *)
THEOREM PublicationImplemented == Spec => PublicationRefined
<1>1. Init => Ledger!LedgerInit
  BY InitRefines
<1>2. IInv /\ [Next]_vars => [Ledger!LedgerNext]_(Ledger!ledger)
  BY StepRefines
<1> QED BY <1>1, <1>2, Inductive, PTL DEF Spec, PublicationRefined, Ledger!LedgerSpec
================================================================================
