---------------------------- MODULE ExclusionProofs ----------------------------
(* Proofs about WriterExclusion, for any set of writer DAGs.                  *)
EXTENDS WriterExclusion, TLAPS

\* Tasks work only in a running run, and a run waiting to start has none placed.
RunsOK == \A d \in Dags : run[d] # "running" =>
            \A t \in Tasks(d) : task[d][t] \notin ActiveTaskStates

\* A return value is there only when the task that returned it succeeded.
ReturnedOK == \A d \in returned : task[d][Gate(d)] = "success"

\* A task past the gate, apart from a restoration that may be about to refuse.
Passed(d, t) == \/ task[d][t] \in {"checked", "success"}
                \/ (t # "restore" /\ task[d][t] \in {"scheduled", "running"})

GatesOK == \A d \in Dags : \A t \in Gated(d) : Passed(d, t) => task[d][Gate(d)] = "success"

IInv == TypeOK /\ RunsOK /\ ReturnedOK /\ GatesOK /\ EntryExclusive

(* The tasks of each graph, and that its gate is one of them and no restoration. *)
LEMMA Names ==
  /\ Tasks(Refresh) = {"wait", "validate", "refresh", "restore", "export"}
  /\ \A d \in Restoring : Tasks(d) = {"prepare", "wait", "write", "restore", "serve"}
  /\ \A d \in Loading : Tasks(d) = {"prepare", "wait", "write"}
  /\ \A d \in Writers : Tasks(d) \subseteq {"prepare", "wait", "write", "restore", "serve"}
  /\ \A d \in Dags : "wait" \in Tasks(d) /\ Gate(d) \in Tasks(d) /\ Gate(d) # "restore"
                      /\ Gate(d) \notin Gated(d)
  /\ \A w \in Writers : w # Refresh /\ w \in Dags /\ Gate(w) = "wait"
  /\ Refresh \in Dags /\ Gate(Refresh) = "validate"
<1>1. DOMAIN RefreshGraph = {"wait", "validate", "refresh", "restore", "export"}
  BY DEF RefreshGraph
<1>2. DOMAIN RestoringGraph = {"prepare", "wait", "write", "restore", "serve"}
  BY DEF RestoringGraph
<1>3. DOMAIN LoadingGraph = {"prepare", "wait", "write"}
  BY DEF LoadingGraph
<1> QED BY <1>1, <1>2, <1>3, ExclusionAssumption DEF Tasks, Upstream, Gate, Gated, Writers, Dags

(* The upstream tasks that the arguments below go back along.                   *)
LEMMA Edges ==
  /\ Upstream(Refresh)["wait"] = {} /\ Upstream(Refresh)["validate"] = {"wait"}
  /\ Upstream(Refresh)["refresh"] = {"validate"}
  /\ Upstream(Refresh)["restore"] = {"refresh"}
  /\ Upstream(Refresh)["export"] = {"refresh", "restore"}
  /\ \A d \in Writers : Upstream(d)["write"] = {"prepare", "wait"}
  /\ \A d \in Restoring : Upstream(d)["restore"] = {"write"} /\ Upstream(d)["serve"] = {"restore"}
<1>1. RefreshGraph["wait"] = {} /\ RefreshGraph["validate"] = {"wait"}
      /\ RefreshGraph["refresh"] = {"validate"} /\ RefreshGraph["restore"] = {"refresh"}
      /\ RefreshGraph["export"] = {"refresh", "restore"}
  BY DEF RefreshGraph
<1>2. RestoringGraph["write"] = {"prepare", "wait"} /\ RestoringGraph["restore"] = {"write"}
      /\ RestoringGraph["serve"] = {"restore"}
  BY DEF RestoringGraph
<1>3. LoadingGraph["write"] = {"prepare", "wait"}
  BY DEF LoadingGraph
<1> QED BY <1>1, <1>2, <1>3, ExclusionAssumption DEF Upstream, Writers, Dags

\* What a move does to the moved task and, with handover, to the others of its run.
Effect(d, t, new) ==
  /\ DOMAIN task' = Dags
  /\ \A e \in Dags : task'[e] \in [Tasks(e) -> TaskStates]
  /\ \A e \in Dags : e # d => task'[e] = task[e]
  /\ task'[d][t] = new
  /\ \A u \in Tasks(d) : u # t =>
       \/ task'[d][u] = task[d][u]
       \/ /\ task[d][u] = "none" /\ task'[d][u] = "scheduled"
          /\ Ready(d, [task[d] EXCEPT ![t] = new], u)
       \/ task[d][u] = "none" /\ task'[d][u] = "upstream_failed"

(* When a task changes state, the only others that change are successors that the *)
(* scheduler now places: to scheduled or, after a failure, to upstream_failed.  *)
LEMMA MoveEffect ==
  ASSUME TypeOK, NEW d \in Dags, NEW t \in Tasks(d), NEW new \in TaskStates, Move(d, t, new),
         task[d][t] # new, new # "none"
  PROVE  Effect(d, t, new)
<1> DEFINE s == [task[d] EXCEPT ![t] = new]
<1>1. s \in [Tasks(d) -> TaskStates] /\ s[t] = new /\ \A u \in Tasks(d) : u # t => s[u] = task[d][u]
  BY DEF TypeOK
<1>2. \A u \in Tasks(d) :
        /\ Place(d, s, u) \in TaskStates
        /\ s[u] # "none" => Place(d, s, u) = s[u]
        /\ s[u] = "none" => \/ Place(d, s, u) = "none"
                            \/ (Place(d, s, u) = "scheduled" /\ Ready(d, s, u))
                            \/ Place(d, s, u) = "upstream_failed"
  BY <1>1 DEF Place, TaskStates
<1>3. task' = [task EXCEPT ![d] = IF handover /\ new \in Ended
                                  THEN [u \in Tasks(d) |-> Place(d, s, u)] ELSE s]
  BY DEF Move
<1>4. CASE handover /\ new \in Ended
  <2>1. task' = [task EXCEPT ![d] = [u \in Tasks(d) |-> Place(d, s, u)]]
    BY <1>3, <1>4
  <2> HIDE DEF s
  <2>2. task'[d] = [u \in Tasks(d) |-> Place(d, s, u)]
    BY <2>1 DEF TypeOK
  <2>3. task'[d][t] = new
    BY <2>2, <1>2, <1>1
  <2>4. DOMAIN task' = Dags /\ \A e \in Dags : e # d => task'[e] = task[e]
    BY <2>1 DEF TypeOK
  <2>5. \A e \in Dags : task'[e] \in [Tasks(e) -> TaskStates]
    BY <2>2, <2>4, <1>2 DEF TypeOK
  <2>6. ASSUME NEW u \in Tasks(d), u # t
        PROVE  \/ task'[d][u] = task[d][u]
               \/ task[d][u] = "none" /\ task'[d][u] = "scheduled" /\ Ready(d, s, u)
               \/ task[d][u] = "none" /\ task'[d][u] = "upstream_failed"
    BY <2>2, <2>6, <1>1, <1>2
  <2> QED BY <2>3, <2>4, <2>5, <2>6 DEF s, Effect
<1>5. CASE ~(handover /\ new \in Ended)
  <2>1. task' = [task EXCEPT ![d] = s]
    BY <1>3, <1>5
  <2> HIDE DEF s
  <2>2. task'[d] = s
    BY <2>1 DEF TypeOK
  <2> QED BY <2>1, <2>2, <1>1 DEF TypeOK, Effect
<1> QED BY <1>4, <1>5

--------------------------------------------------------------------------------
(* Every step of a task has one shape. *)

Moves(d, t, new) ==
  /\ Move(d, t, new) /\ run' = run /\ handover' = handover /\ run[d] = "running"
  /\ task[d][t] \in {"none"} \union ActiveTaskStates /\ task[d][t] # new
  /\ new \in TaskStates \ {"none"}
  /\ returned' = IF t = Gate(d) /\ new = "success" THEN returned \union {d} ELSE returned
  /\ new = "scheduled" => task[d][t] = "none" /\ Ready(d, task[d], t)
  /\ new = "running" => task[d][t] = "scheduled"
  /\ new = "upstream_failed" => Blocked(d, task[d], t)
  /\ new = "failed" => task[d][t] \in ActiveTaskStates
  /\ new = "checked" => task[d][t] = "running"
  /\ new = "checked" => \/ d = Refresh /\ t = "wait"
                        \/ d = Refresh /\ t = "validate" /\ ~WarehouseWritersActive
                        \/ d \in Writers /\ t = "wait" /\ ~HistoricalRefreshWriting
                        \/ t = "restore" /\ d \in returned
  /\ new = "success" => \/ task[d][t] = "checked"
                        \/ task[d][t] = "running" /\ t \notin {"wait", "validate", "restore"}

TaskMoves == \E d \in Dags : \E t \in Tasks(d) : \E new \in TaskStates : Moves(d, t, new)

(* Every step either moves one task or creates, starts or ends one run.         *)
LEMMA StepShape ==
  ASSUME TypeOK, RunsOK, Next
  PROVE  TaskMoves \/ \E d \in Dags : Trigger(d) \/ StartRun(d) \/ EndRun(d)
<1>1. ASSUME NEW d \in Dags, TimeOut(d) PROVE TaskMoves
  <2>1. Moves(d, "wait", "failed")
    BY <1>1, Names DEF TimeOut, Moves, RunsOK, TaskStates, ActiveTaskStates
  <2> QED BY <2>1, Names DEF TaskMoves, TaskStates
<1>2. ASSUME NEW d \in Dags, NEW t \in Tasks(d), Schedule(d, t) PROVE TaskMoves
  <2> DEFINE new == Place(d, task[d], t)
  <2>1. /\ new = "scheduled" \/ new = "upstream_failed"
        /\ new = "scheduled" => Ready(d, task[d], t)
        /\ new = "upstream_failed" => Blocked(d, task[d], t)
    BY <1>2 DEF Schedule, Place
  <2>2. Moves(d, t, new)
    BY <1>2, <2>1 DEF Schedule, Moves, TaskStates
  <2> QED BY <2>1, <2>2 DEF TaskMoves, TaskStates
<1>3. ASSUME NEW d \in Dags, NEW t \in Tasks(d), StartTask(d, t) PROVE TaskMoves
  <2>1. Moves(d, t, "running")
    BY <1>3 DEF StartTask, Moves, RunsOK, TaskStates, ActiveTaskStates
  <2> QED BY <2>1 DEF TaskMoves, TaskStates
<1>4. ASSUME NEW d \in Dags, NEW t \in Tasks(d), TaskFails(d, t) PROVE TaskMoves
  <2>1. Moves(d, t, "failed")
    BY <1>4 DEF TaskFails, Moves, RunsOK, TaskStates, ActiveTaskStates
  <2> QED BY <2>1 DEF TaskMoves, TaskStates
<1>5. ASSUME NEW d \in Dags, NEW t \in Tasks(d), Return(d, t) PROVE TaskMoves
  <2>1. Moves(d, t, "success")
    BY <1>5 DEF Return, Moves, RunsOK, TaskStates, ActiveTaskStates
  <2> QED BY <2>1 DEF TaskMoves, TaskStates
<1>6. ASSUME NEW d \in Dags, NEW t \in Tasks(d), Work(d, t) PROVE TaskMoves
  <2>1. Moves(d, t, "success")
    BY <1>6 DEF Work, Moves, RunsOK, TaskStates, ActiveTaskStates, Gate
  <2> QED BY <2>1 DEF TaskMoves, TaskStates
<1>7. ASSUME NEW d \in Restoring \union {Refresh}, Restore(d) PROVE TaskMoves
  <2>1. "restore" \in Tasks(d) /\ d \in Dags
    BY Names DEF Writers, Dags
  <2>2. CASE d \in returned
    <3>1. Moves(d, "restore", "checked")
      BY <1>7, <2>1, <2>2 DEF Restore, Moves, RunsOK, TaskStates, ActiveTaskStates
    <3> QED BY <3>1, <2>1 DEF TaskMoves, TaskStates
  <2>3. CASE d \notin returned
    <3>1. Moves(d, "restore", "failed")
      BY <1>7, <2>1, <2>3 DEF Restore, Moves, RunsOK, TaskStates, ActiveTaskStates
    <3> QED BY <3>1, <2>1 DEF TaskMoves, TaskStates
  <2> QED BY <2>2, <2>3
<1>8. ASSUME NEW w \in Writers, WaitForRefresh(w) PROVE TaskMoves
  <2>1. Moves(w, "wait", "checked")
    BY <1>8, Names DEF WaitForRefresh, Moves, RunsOK, TaskStates, ActiveTaskStates
  <2> QED BY <2>1, Names DEF TaskMoves, TaskStates
<1>9. ASSUME WaitForWriters PROVE TaskMoves
  <2>1. Moves(Refresh, "wait", "checked")
    BY <1>9, Names DEF WaitForWriters, Moves, RunsOK, TaskStates, ActiveTaskStates
  <2> QED BY <2>1, Names DEF TaskMoves, TaskStates
<1>10. ASSUME Validate PROVE TaskMoves
  <2>1. CASE WarehouseWritersActive
    <3>1. Moves(Refresh, "validate", "failed")
      BY <1>10, <2>1, Names DEF Validate, Moves, RunsOK, TaskStates, ActiveTaskStates
    <3> QED BY <3>1, Names DEF TaskMoves, TaskStates
  <2>2. CASE ~WarehouseWritersActive
    <3>1. Moves(Refresh, "validate", "checked")
      BY <1>10, <2>2, Names DEF Validate, Moves, RunsOK, TaskStates, ActiveTaskStates
    <3> QED BY <3>1, Names DEF TaskMoves, TaskStates
  <2> QED BY <2>1, <2>2
<1> QED BY <1>1, <1>2, <1>3, <1>4, <1>5, <1>6, <1>7, <1>8, <1>9, <1>10
        DEF Next, Progress, Check, TaskStep

--------------------------------------------------------------------------------
(* What holds whatever the scheduler's delays. *)

(* The invariant holds while no DAG has run.                                    *)
LEMMA InitInv == Init => IInv
<1> SUFFICES ASSUME Init PROVE IInv
  OBVIOUS
<1>1. \A d \in Dags : run[d] = "none" /\ \A t \in Tasks(d) : task[d][t] = "none"
  BY DEF Init
<1>2. TypeOK
  BY ExclusionAssumption DEF Init, TypeOK, RunStates, TaskStates
<1>3. RunsOK
  BY <1>1 DEF RunsOK, ActiveTaskStates
<1>4. ReturnedOK
  BY DEF Init, ReturnedOK
<1>5. GatesOK
  BY <1>1 DEF GatesOK, Gated, Passed
<1>6. EntryExclusive
  BY <1>1, Names DEF EntryExclusive
<1> QED BY <1>2, <1>3, <1>4, <1>5, <1>6 DEF IInv

(* A task's step keeps the invariant: a gated task gets past its checks only after *)
(* its gate succeeded, and the refresh's validation looks at the writers again. *)
LEMMA TaskInv ==
  ASSUME IInv, NEW d \in Dags, NEW t \in Tasks(d), NEW new \in TaskStates, Moves(d, t, new)
  PROVE  IInv'
<1> USE DEF IInv
<1>1. /\ DOMAIN task' = Dags
      /\ \A e \in Dags : task'[e] \in [Tasks(e) -> TaskStates]
      /\ \A e \in Dags : e # d => task'[e] = task[e]
      /\ task'[d][t] = new
      /\ \A u \in Tasks(d) : u # t =>
           \/ task'[d][u] = task[d][u]
           \/ /\ task[d][u] = "none" /\ task'[d][u] = "scheduled"
              /\ Ready(d, [task[d] EXCEPT ![t] = new], u)
           \/ task[d][u] = "none" /\ task'[d][u] = "upstream_failed"
  <2>1. Effect(d, t, new)
    BY MoveEffect DEF Moves
  <2> QED BY <2>1 DEF Effect
<1>2. run' = run /\ run[d] = "running" /\ new # "none" /\ task[d][t] # "success"
  BY DEF Moves, ActiveTaskStates
<1>3. TypeOK'
  BY <1>1, <1>2 DEF TypeOK, Moves
<1>4. RunsOK'
  BY <1>1, <1>2 DEF RunsOK
<1>5. \A u \in Tasks(d) : task[d][u] = "success" => task'[d][u] = "success"
  BY <1>1, <1>2
<1>6. ReturnedOK'
  <2>1. \A e \in returned : e \in Dags
    BY DEF TypeOK
  <2>2. ASSUME NEW e \in returned, e # d PROVE task'[e][Gate(e)] = "success"
    BY <2>1, <2>2, <1>1 DEF ReturnedOK
  <2>3. ASSUME d \in returned PROVE task'[d][Gate(d)] = "success"
    BY <2>3, <1>5, Names DEF ReturnedOK
  <2>4. ASSUME t = Gate(d), new = "success" PROVE task'[d][Gate(d)] = "success"
    BY <2>4, <1>1
  <2> QED BY <2>2, <2>3, <2>4 DEF ReturnedOK, Moves, Gate
<1>7. GatesOK'
  <2>1. ASSUME NEW u \in Gated(d), u # "restore", task'[d][u] = "scheduled",
               task[d][u] = "none"
        PROVE  task'[d][Gate(d)] = "success"
    <3>1. u \in Tasks(d) /\ ~AllDone(u)
      BY <2>1 DEF Gated, AllDone
    <3>2. \A v \in Tasks(d) : v \in Upstream(d)[u] =>
            task[d][v] = "success" \/ (v = t /\ new = "success")
      <4>1. CASE u # t
        <5>1. Ready(d, [task[d] EXCEPT ![t] = new], u)
          BY <1>1, <2>1, <3>1, <4>1
        <5> QED BY <5>1, <3>1 DEF Ready, TypeOK
      <4>2. CASE u = t
        <5>1. Ready(d, task[d], u)
          BY <1>1, <2>1, <4>2 DEF Moves
        <5> QED BY <5>1, <3>1 DEF Ready
      <4> QED BY <4>1, <4>2
    <3>3. \A v \in Tasks(d) : v \in Upstream(d)[u] => task'[d][v] = "success"
      BY <3>2, <1>1, <1>5
    <3>4. ASSUME NEW v \in Gated(d), v \in Upstream(d)[u] PROVE task'[d][Gate(d)] = "success"
      <4>1. CASE task[d][v] = "success"
        BY <4>1, <1>5, Names DEF GatesOK, Passed
      <4>2. CASE v = t /\ new = "success"
        <5>1. Passed(d, v)
          BY <4>2 DEF Moves, Passed
        <5> QED BY <5>1, <1>5, Names DEF GatesOK
      <4> QED BY <4>1, <4>2, <3>2, <3>4 DEF Gated
    <3>5. Gate(d) \in Upstream(d)[u] \/ \E v \in Gated(d) : v \in Upstream(d)[u]
      <4>1. CASE d = Refresh
        BY <4>1, <2>1, Names, Edges DEF Gated
      <4>2. CASE d \in Restoring
        BY <4>2, <2>1, Names, Edges DEF Gated, Writers
      <4>3. CASE d \in Loading
        BY <4>3, <2>1, Names, Edges DEF Gated, Writers
      <4> QED BY <4>1, <4>2, <4>3 DEF Dags, Writers
    <3> QED BY <3>3, <3>4, <3>5, Names
  <2>2. ASSUME NEW u \in Gated(d), Passed(d, u)' PROVE task'[d][Gate(d)] = "success"
    <3>1. CASE Passed(d, u)
      BY <3>1, <1>5, Names DEF GatesOK
    <3>2. CASE ~Passed(d, u) /\ u # t
      BY <3>2, <2>2, <2>1, <1>1 DEF Passed, Gated
    <3>3. CASE ~Passed(d, u) /\ u = t /\ new = "checked"
      <4>1. u = "restore" /\ d \in returned
        BY <3>3 DEF Moves, Gated
      <4> QED BY <4>1, <1>5, Names DEF ReturnedOK
    <3>4. CASE ~Passed(d, u) /\ u = t /\ new # "checked"
      <4>1. u # "restore" /\ new = "scheduled" /\ task[d][u] = "none"
        BY <3>4, <2>2, <1>1 DEF Passed, Moves
      <4> QED BY <4>1, <2>1, <3>4, <1>1
    <3> QED BY <3>1, <3>2, <3>3, <3>4
  <2>3. ASSUME NEW e \in Dags, e # d, NEW u \in Gated(e), Passed(e, u)'
        PROVE  task'[e][Gate(e)] = "success"
    BY <2>3, <1>1 DEF GatesOK, Passed
  <2> QED BY <2>2, <2>3 DEF GatesOK
<1>8. EntryExclusive'
  <2> SUFFICES ASSUME task'[Refresh]["validate"] = "checked", NEW w \in Writers,
                      run'[w] \in ActiveRunStates
               PROVE  task'[w]["wait"] \notin {"checked", "success"}
    BY DEF EntryExclusive
  <2>0. w # Refresh /\ w \in Dags /\ "wait" \in Tasks(w) /\ Gate(w) = "wait"
        /\ Refresh \in Dags /\ "validate" \in Tasks(Refresh)
    BY Names
  <2>1. CASE d = Refresh /\ t = "validate"
    <3>1. ~WarehouseWritersActive
      BY <2>1, <2>0, <1>1 DEF Moves
    <3> QED BY <3>1, <1>2 DEF WarehouseWritersActive
  <2>2. CASE ~(d = Refresh /\ t = "validate")
    <3>1. task[Refresh]["validate"] = "checked"
      BY <2>2, <2>0, <1>1
    <3>2. task[w]["wait"] \notin {"checked", "success"}
      BY <3>1, <1>2, <2>0 DEF EntryExclusive
    <3>3. HistoricalRefreshWriting
      BY <3>1 DEF HistoricalRefreshWriting, RefreshWriterTasks, ActiveTaskStates
    <3>4. CASE d = w /\ t = "wait"
      <4>1. new # "checked" /\ new # "success"
        BY <3>2, <3>3, <3>4, <2>0 DEF Moves
      <4> QED BY <4>1, <3>4, <1>1
    <3>5. CASE ~(d = w /\ t = "wait")
      BY <3>2, <3>5, <2>0, <1>1
    <3> QED BY <3>4, <3>5
  <2> QED BY <2>1, <2>2
<1> QED BY <1>3, <1>4, <1>6, <1>7, <1>8

(* Creating, starting and ending a run keep the invariant: a new run has no     *)
(* return value of an earlier one.                                              *)
LEMMA RunInv ==
  ASSUME IInv, NEW d \in Dags, Trigger(d) \/ StartRun(d) \/ EndRun(d)
  PROVE  IInv'
<1> USE DEF IInv
<1>1. CASE Trigger(d)
  <2>1. /\ DOMAIN task' = Dags /\ task'[d] = [t \in Tasks(d) |-> "none"]
        /\ \A e \in Dags : e # d => task'[e] = task[e] /\ run'[e] = run[e]
        /\ run'[d] = "queued" /\ returned' = returned \ {d} /\ run' \in [Dags -> RunStates]
        /\ handover' = handover
    BY <1>1 DEF Trigger, TypeOK, RunStates
  <2>2. TypeOK'
    BY <2>1 DEF TypeOK, TaskStates
  <2>3. RunsOK'
    BY <2>1 DEF RunsOK, ActiveTaskStates
  <2>4. ReturnedOK'
    BY <2>1 DEF ReturnedOK, TypeOK
  <2>5. GatesOK'
    BY <2>1 DEF GatesOK, Passed, Gated
  <2>6. EntryExclusive'
    BY <2>1, Names DEF EntryExclusive
  <2> QED BY <2>2, <2>3, <2>4, <2>5, <2>6
<1>2. CASE StartRun(d) \/ EndRun(d)
  <2>1. /\ task' = task /\ returned' = returned /\ handover' = handover /\ run' \in [Dags -> RunStates]
        /\ run[d] \in ActiveRunStates
        /\ \A e \in Dags : e # d => run'[e] = run[e]
        /\ run'[d] # "running" => \A t \in Tasks(d) : task[d][t] \in Ended
    BY <1>2 DEF StartRun, EndRun, TypeOK, RunStates, ActiveRunStates
  <2>2. TypeOK' /\ ReturnedOK' /\ GatesOK'
    BY <2>1 DEF TypeOK, ReturnedOK, GatesOK, Passed
  <2>3. RunsOK'
    BY <2>1 DEF RunsOK, Ended, Unsuccessful, ActiveTaskStates
  <2>4. EntryExclusive'
    BY <2>1, Names DEF EntryExclusive
  <2> QED BY <2>2, <2>3, <2>4
<1> QED BY <1>1, <1>2

(* Every step keeps the invariant.                                              *)
LEMMA NextInv == IInv /\ [Next]_vars => IInv'
<1> SUFFICES ASSUME IInv, [Next]_vars PROVE IInv'
  OBVIOUS
<1>1. CASE Next
  BY <1>1, StepShape, TaskInv, RunInv DEF IInv, TaskMoves
<1>2. CASE UNCHANGED vars
  BY <1>2 DEF vars, IInv, TypeOK, RunsOK, ReturnedOK, GatesOK, Passed, EntryExclusive
<1> QED BY <1>1, <1>2

(* The invariant holds in every reachable state.                                *)
LEMMA Invariant == Spec => []IInv
BY InitInv, NextInv, PTL DEF Spec

\* Runs, tasks and return values keep their types.
THEOREM TypeCorrect == Spec => []TypeOK
<1>1. IInv => TypeOK
  BY DEF IInv
<1> QED BY <1>1, Invariant, PTL

\* The second check does its work for any number of writers and any scheduler delay.
THEOREM EntryAlwaysExclusive == Spec => []EntryExclusive
<1>1. IInv => EntryExclusive
  BY DEF IInv
<1> QED BY <1>1, Invariant, PTL

\* No restoration, nor anything behind one, writes in a run that was not let in.
THEOREM RefusedRunsNeverWrite == Spec => []RefusedRunsWriteNothing
<1>1. IInv => RefusedRunsWriteNothing
  BY DEF IInv, GatesOK, Passed, RefusedRunsWriteNothing, Works
<1> QED BY <1>1, Invariant, PTL

--------------------------------------------------------------------------------
(* What holds when successors are scheduled with the end of their predecessor: *)
(* the refresh, once validated, always has a task that the writers can see.    *)

ChainOK ==
  LET s == task[Refresh] IN
  /\ s["validate"] = "success" =>
       /\ s["refresh"] # "none"
       /\ s["refresh"] \in Ended => s["restore"] # "none"
       /\ s["restore"] \in Ended => s["export"] # "none"
  /\ s["refresh"] # "none" => s["validate"] \in Ended
  /\ s["restore"] # "none" => s["refresh"] \in Ended

(* Where the scheduler places each of the refresh's tasks.                      *)
LEMMA PlaceRefresh ==
  ASSUME NEW s \in [Tasks(Refresh) -> TaskStates]
  PROVE  /\ Place(Refresh, s, "refresh") =
              IF s["refresh"] # "none" THEN s["refresh"]
              ELSE IF s["validate"] = "success" THEN "scheduled"
              ELSE IF s["validate"] \in Unsuccessful THEN "upstream_failed" ELSE "none"
         /\ Place(Refresh, s, "restore") =
              IF s["restore"] # "none" THEN s["restore"]
              ELSE IF s["refresh"] \in Ended THEN "scheduled" ELSE "none"
         /\ Place(Refresh, s, "export") =
              IF s["export"] # "none" THEN s["export"]
              ELSE IF s["refresh"] = "success" /\ s["restore"] = "success" THEN "scheduled"
              ELSE IF s["refresh"] \in Unsuccessful \/ s["restore"] \in Unsuccessful
                   THEN "upstream_failed" ELSE "none"
BY Edges DEF Place, Ready, Blocked, AllDone

(* With immediate scheduling the refresh's tasks stay a chain without gaps.     *)
LEMMA ChainStep ==
  ASSUME IInv, ChainOK, handover, NEW t \in Tasks(Refresh), NEW new \in TaskStates,
         Moves(Refresh, t, new)
  PROVE  ChainOK'
<1> DEFINE s == [task[Refresh] EXCEPT ![t] = new]
<1>1. /\ s \in [Tasks(Refresh) -> TaskStates] /\ s[t] = new
      /\ \A u \in Tasks(Refresh) : u # t => s[u] = task[Refresh][u]
  BY Names DEF IInv, TypeOK
<1>2. task' = [task EXCEPT ![Refresh] = IF new \in Ended
                 THEN [u \in Tasks(Refresh) |-> Place(Refresh, s, u)] ELSE s]
  BY DEF Moves, Move
<1> HIDE DEF s
<1>3. task'[Refresh] = IF new \in Ended
                       THEN [u \in Tasks(Refresh) |-> Place(Refresh, s, u)] ELSE s
  BY <1>2, Names DEF IInv, TypeOK
<1>4. {"wait", "validate", "refresh", "restore", "export"} = Tasks(Refresh)
  BY Names
<1>5. task[Refresh][t] \in {"none"} \union ActiveTaskStates /\ new # "none"
      /\ new \in TaskStates
  BY DEF Moves
<1>6. new \notin Ended /\ task[Refresh][t] = "none" =>
        /\ t = "refresh" => task[Refresh]["validate"] = "success"
        /\ t = "restore" => task[Refresh]["refresh"] \in Ended
  <2>1. ASSUME new \notin Ended, task[Refresh][t] = "none" PROVE Ready(Refresh, task[Refresh], t)
    BY <2>1, <1>5 DEF Moves, TaskStates, Ended, Unsuccessful
  <2> QED BY Edges, <2>1 DEF Ready, AllDone
<1>7. CASE new \notin Ended
  <2>1. task'[Refresh] = s
    BY <1>3, <1>7
  <2> QED BY <2>1, <1>1, <1>4, <1>5, <1>6, <1>7 DEF ChainOK, Ended, Unsuccessful, ActiveTaskStates
<1>8. CASE new \in Ended
  <2>1. \A u \in Tasks(Refresh) : task'[Refresh][u] = Place(Refresh, s, u)
    BY <1>3, <1>8
  <2> DEFINE r == task'[Refresh]
  <2>2. /\ r["validate"] = "success" => s["validate"] = "success" \/ s["validate"] = "none"
        /\ s["validate"] # "none" => r["validate"] = s["validate"]
    BY <2>1, <1>1, <1>4 DEF Place, TaskStates
  <2>3. /\ r["refresh"] = Place(Refresh, s, "refresh")
        /\ r["restore"] = Place(Refresh, s, "restore")
        /\ r["export"] = Place(Refresh, s, "export")
    BY <2>1, <1>4
  <2>4. t = "refresh" => s["validate"] \in Ended
    <3>1. t = "refresh" /\ task[Refresh][t] = "none" => task[Refresh]["validate"] \in Unsuccessful
      BY <1>5, <1>8, Edges DEF Moves, Blocked, AllDone, Ended, Unsuccessful, ActiveTaskStates
    <3> QED BY <3>1, <1>1, <1>4 DEF ChainOK, Ended, Unsuccessful
  <2>5. t = "restore" => s["refresh"] \in Ended
    <3>1. t = "restore" => task[Refresh][t] # "none"
      BY <1>5, <1>8 DEF Moves, Blocked, AllDone, Ended, Unsuccessful, ActiveTaskStates
    <3> QED BY <3>1, <1>1, <1>4 DEF ChainOK
  <2>6. /\ s["refresh"] # "none" => s["validate"] \in Ended
        /\ s["restore"] # "none" => s["refresh"] \in Ended
    BY <2>4, <2>5, <1>1, <1>4, <1>5, <1>8 DEF ChainOK, Ended, Unsuccessful, ActiveTaskStates
  <2>7. s["validate"] = "none" => r["validate"] # "success"
    BY <2>1, <1>1, <1>4 DEF Place, TaskStates
  <2> QED BY <2>2, <2>3, <2>6, <2>7, <1>1, <1>4, PlaceRefresh
       DEF ChainOK, Ended, Unsuccessful, TaskStates
<1> QED BY <1>7, <1>8

\* Past its validation the refresh keeps every writer at its wait.
HoldsOK == RefreshHolds => \A w \in Writers : run[w] \in ActiveRunStates =>
                             task[w]["wait"] \notin {"checked", "success"}

HInv == IInv /\ ChainOK /\ HoldsOK

(* While the refresh holds the tables one of its four writing tasks is active, so a *)
(* writer that pokes sees it.                                                   *)
LEMMA HoldsVisible == ASSUME ChainOK, TypeOK, RefreshHolds PROVE HistoricalRefreshWriting
<1>1. Gated(Refresh) = {"refresh", "restore", "export"}
  BY Names DEF Gated
<1>2. \A t \in {"refresh", "restore", "export"} : task[Refresh][t] \in TaskStates
  BY Names DEF TypeOK
<1>3. \A t \in {"refresh", "restore", "export"} :
        task[Refresh][t] \in Ended \union {"none"} \/ task[Refresh][t] \in ActiveTaskStates
  BY <1>2 DEF TaskStates, Ended, Unsuccessful, ActiveTaskStates
<1> QED BY <1>1, <1>3 DEF ChainOK, RefreshHolds, HistoricalRefreshWriting, RefreshWriterTasks

(* No task's step puts a writer's gated task beside a refresh that holds the tables. *)
LEMMA HoldsMove ==
  ASSUME HInv, NEW d \in Dags, NEW t \in Tasks(d), NEW new \in TaskStates, Moves(d, t, new)
  PROVE  HoldsOK'
<1> SUFFICES ASSUME RefreshHolds', NEW w \in Writers, run'[w] \in ActiveRunStates
             PROVE  task'[w]["wait"] \notin {"checked", "success"}
  BY DEF HoldsOK
<1>1. /\ \A e \in Dags : e # d => task'[e] = task[e]
      /\ task'[d][t] = new
      /\ \A u \in Tasks(d) : u # t =>
           task'[d][u] = task[d][u] \/ task'[d][u] \in {"scheduled", "upstream_failed"}
      /\ \A u \in Tasks(d) : u # t => task[d][u] = "none" \/ task'[d][u] = task[d][u]
  <2>1. Effect(d, t, new)
    BY MoveEffect DEF Moves, HInv, IInv
  <2> QED BY <2>1 DEF Effect
<1>2. run' = run /\ task[d][t] \notin Ended
  BY DEF Moves, ActiveTaskStates, Ended, Unsuccessful
<1>3. w # Refresh /\ w \in Dags /\ "wait" \in Tasks(w) /\ Gate(w) = "wait"
      /\ Refresh \in Dags /\ "validate" \in Tasks(Refresh) /\ Gated(Refresh) \subseteq Tasks(Refresh)
  BY Names DEF Gated
<1>4. CASE d = Refresh /\ t = "validate"
  <2>1. task[Refresh]["validate"] = "checked"
    BY <1>1, <1>4 DEF RefreshHolds, Moves
  <2> QED BY <2>1, <1>1, <1>2, <1>3, <1>4 DEF HInv, IInv, EntryExclusive
<1>5. CASE ~(d = Refresh /\ t = "validate")
  <2>1. task[Refresh]["validate"] = "success"
    BY <1>1, <1>3, <1>5 DEF RefreshHolds
  <2>2. PICK u \in Gated(Refresh) : task'[Refresh][u] \notin Ended
    BY DEF RefreshHolds
  <2>3. task[Refresh][u] \notin Ended
    BY <2>2, <1>1, <1>2, <1>3 DEF Ended, Unsuccessful
  <2>4. RefreshHolds
    BY <2>1, <2>3 DEF RefreshHolds
  <2>5. task[w]["wait"] \notin {"checked", "success"} /\ HistoricalRefreshWriting
    BY <2>4, <1>2, HoldsVisible DEF HInv, IInv, HoldsOK
  <2>6. CASE d = w /\ t = "wait"
    <3>1. new # "checked" /\ new # "success"
      BY <2>5, <2>6, <1>3 DEF Moves
    <3> QED BY <3>1, <2>6, <1>1
  <2>7. CASE ~(d = w /\ t = "wait")
    BY <2>5, <2>7, <1>1, <1>3
  <2> QED BY <2>6, <2>7
<1> QED BY <1>4, <1>5

(* Nor does creating, starting or ending a run.                                 *)
LEMMA HoldsRun ==
  ASSUME HInv, NEW d \in Dags, Trigger(d) \/ StartRun(d) \/ EndRun(d)
  PROVE  ChainOK' /\ HoldsOK'
<1>1. \A e \in Dags : e # d => task'[e] = task[e] /\ run'[e] = run[e]
  BY DEF Trigger, StartRun, EndRun, HInv, IInv, TypeOK
<1>2. CASE Trigger(d)
  <2>1. \A t \in Tasks(d) : task'[d][t] = "none"
    BY <1>2 DEF Trigger, HInv, IInv, TypeOK
  <2>2. CASE d = Refresh
    BY <2>1, <2>2, Names DEF ChainOK, HoldsOK, RefreshHolds, Ended, Unsuccessful
  <2>3. CASE d # Refresh
    BY <2>1, <2>3, <1>1, Names DEF HInv, ChainOK, HoldsOK, RefreshHolds
  <2> QED BY <2>2, <2>3
<1>3. CASE StartRun(d) \/ EndRun(d)
  <2>1. task' = task /\ run[d] \in ActiveRunStates
    BY <1>3 DEF StartRun, EndRun, ActiveRunStates
  <2> QED BY <2>1, <1>1, Names DEF HInv, ChainOK, HoldsOK, RefreshHolds
<1> QED BY <1>2, <1>3

Inv == IInv /\ (handover => HInv)

(* With immediate scheduling every step keeps the chain and the exclusion.      *)
LEMMA HNext == ASSUME HInv, handover, Next PROVE HInv' /\ handover'
<1>0. TypeOK /\ RunsOK /\ IInv'
  BY NextInv DEF HInv, IInv
<1>1. ASSUME NEW d \in Dags, NEW t \in Tasks(d), NEW new \in TaskStates, Moves(d, t, new)
      PROVE  ChainOK' /\ HoldsOK' /\ handover'
  <2>1. CASE d = Refresh
    BY <1>1, <2>1, ChainStep, HoldsMove DEF HInv, Moves
  <2>2. CASE d # Refresh
    <3>1. Effect(d, t, new)
      BY <1>1, MoveEffect DEF Moves, HInv, IInv
    <3>2. task'[Refresh] = task[Refresh]
      BY <3>1, <2>2, Names DEF Effect
    <3>3. ChainOK'
      BY <3>2 DEF HInv, ChainOK
    <3> QED BY <1>1, <3>3, HoldsMove DEF Moves
  <2> QED BY <2>1, <2>2
<1>2. ASSUME NEW d \in Dags, Trigger(d) \/ StartRun(d) \/ EndRun(d)
      PROVE  ChainOK' /\ HoldsOK' /\ handover'
  BY <1>2, HoldsRun DEF Trigger, StartRun, EndRun
<1>3. ChainOK' /\ HoldsOK' /\ handover'
  BY <1>0, <1>1, <1>2, StepShape DEF TaskMoves
<1> QED BY <1>0, <1>3 DEF HInv

(* They hold in every reachable state of such a scheduler.                      *)
LEMMA HInvariant == Spec => []Inv
<1>1. Init => Inv
  <2> SUFFICES ASSUME Init PROVE ChainOK /\ HoldsOK
    BY InitInv DEF HInv, Inv
  <2>1. \A t \in Tasks(Refresh) : task[Refresh][t] = "none"
    BY Names DEF Init
  <2> QED BY <2>1, Names DEF ChainOK, HoldsOK, RefreshHolds, Ended, Unsuccessful
<1>2. Inv /\ [Next]_vars => Inv'
  <2> SUFFICES ASSUME Inv, [Next]_vars PROVE Inv'
    OBVIOUS
  <2>1. IInv'
    BY NextInv DEF Inv
  <2>2. CASE Next
    <3>1. handover' = handover
      BY <2>2 DEF Next, Progress, Check, TaskStep, Trigger, StartRun, EndRun, Schedule, StartTask,
        TaskFails, TimeOut, Work, Return, Restore, Validate, WaitForWriters, WaitForRefresh
    <3> QED BY <2>1, <2>2, <3>1, HNext DEF Inv
  <2>3. CASE UNCHANGED vars
    BY <2>1, <2>3 DEF vars, Inv, HInv, ChainOK, HoldsOK, RefreshHolds
  <2> QED BY <2>2, <2>3
<1> QED BY <1>1, <1>2, PTL DEF Spec

\* Were successors scheduled with the end of their predecessor, no writer would ever
\* work while the refresh holds the tables, for any number of writers.
THEOREM NeverInterleaving == Spec => []NoInterleavingAtHandover
<1>1. Inv => NoInterleavingAtHandover
  <2> SUFFICES ASSUME HInv, RefreshHolds, NEW w \in Writers, NEW t \in Gated(w), Works(w, t)
               PROVE  FALSE
    BY DEF Inv, NoInterleaving, NoInterleavingAtHandover
  <2>1. w \in Dags /\ Gate(w) = "wait" /\ t \in Tasks(w)
    BY Names DEF Gated
  <2>2. task[w]["wait"] = "success"
    BY <2>1 DEF HInv, IInv, GatesOK, Passed, Works
  <2>3. run[w] = "running"
    BY <2>1 DEF HInv, IInv, RunsOK, Works, ActiveTaskStates
  <2> QED BY <2>2, <2>3 DEF HInv, HoldsOK, ActiveRunStates
<1> QED BY <1>1, HInvariant, PTL
================================================================================
