------------------------------- MODULE RouteCache --------------------------------
(* route_cache.py: callers in several threads that ask one network for the same  *)
(* journeys share one computation; results are remembered, failures are not, and *)
(* a full table of computations in flight is bypassed. A flight is the future    *)
(* that the callers of one computation share.                                    *)
EXTENDS Integers, FiniteSets, SequencesExt

CONSTANTS
  Callers, Keys,
  CompletedLimit, InflightLimit,
  MaxCalls       \* calls, a bound of the model

CacheAssumption == IsFiniteSet(Keys) /\ Keys # {} /\ {CompletedLimit, InflightLimit} \subseteq Nat

VARIABLES
  completed,   \* remembered keys, the least recently used first
  inflight,    \* key -> flight, 0 where there is none
  outcome,     \* what each flight's future holds: "none", "result" or "error"
  caller,      \* step, key, flight, whether it owns it, the future when it was joined
  calls

vars == <<completed, inflight, outcome, caller, calls>>

Idle == [step |-> "idle", key |-> CHOOSE k \in Keys : TRUE, flight |-> 0, owner |-> FALSE, joined |-> "none"]
Remembered == {completed[k] : k \in DOMAIN completed}
Found(k) == k \in Remembered
\* An insertion at the end, and move_to_end.
Used(k) ==
  Append(IF Found(k) THEN RemoveAt(completed, CHOOSE i \in DOMAIN completed : completed[i] = k) ELSE completed, k)
Trimmed(s) == IF Len(s) > CompletedLimit THEN SubSeq(s, Len(s) - CompletedLimit + 1, Len(s)) ELSE s

Room == Cardinality({k \in Keys : inflight[k] # 0}) < InflightLimit

\* The lookup under the lock.
Get(c) ==
  /\ caller[c].step = "idle" /\ calls < MaxCalls /\ calls' = calls + 1
  /\ \E k \in Keys :
       LET flight == inflight[k]
           Becomes(step, f, owner) ==
             caller' = [caller EXCEPT ![c] = [step |-> step, key |-> k, flight |-> f, owner |-> owner,
                                              joined |-> IF f \in DOMAIN outcome THEN outcome[f] ELSE "none"]]
       IN  \/ Found(k) /\ completed' = Used(k) /\ UNCHANGED <<inflight, outcome, caller>>
           \/ /\ ~Found(k) /\ flight # 0 /\ Becomes("wait", flight, FALSE)
              /\ UNCHANGED <<completed, inflight, outcome>>
           \/ /\ ~Found(k) /\ flight = 0 /\ Room
              /\ outcome' = Append(outcome, "none") /\ inflight' = [inflight EXCEPT ![k] = Len(outcome')]
              /\ Becomes("compute", Len(outcome'), TRUE) /\ UNCHANGED completed
           \/ /\ ~Found(k) /\ flight = 0 /\ ~Room /\ Becomes("compute", 0, FALSE)
              /\ UNCHANGED <<completed, inflight, outcome>>

Settle(f, what) == outcome' = [outcome EXCEPT ![f] = what]
Leaves(k) == inflight' = [inflight EXCEPT ![k] = 0]
Step(c, step) == caller' = [caller EXCEPT ![c].step = step]

\* A caller that found the table full keeps its result, or its error, to itself.
Bypass(c) ==
  /\ caller[c].step = "compute" /\ ~caller[c].owner
  /\ caller' = [caller EXCEPT ![c] = Idle]
  /\ UNCHANGED <<completed, inflight, outcome, calls>>

Remember(c) ==
  /\ caller[c].step = "compute" /\ caller[c].owner
  /\ completed' = Trimmed(Used(caller[c].key)) /\ Leaves(caller[c].key)
  /\ Step(c, "publish result") /\ UNCHANGED <<outcome, calls>>

\* mutant: the failure is published before it leaves the table
ComputeFails_Published(c) ==
  /\ \/ /\ caller[c].step = "compute" /\ caller[c].owner
        /\ Settle(caller[c].flight, "error") /\ Step(c, "remove") /\ UNCHANGED inflight
     \/ /\ caller[c].step = "remove" /\ Leaves(caller[c].key)
        /\ caller' = [caller EXCEPT ![c] = Idle] /\ UNCHANGED outcome
  /\ UNCHANGED <<completed, calls>>

\* The computation raises: it leaves the table first.
ComputeFails(c) ==
  /\ caller[c].step = "compute" /\ caller[c].owner
  /\ Leaves(caller[c].key) /\ Step(c, "publish error") /\ UNCHANGED <<completed, outcome, calls>>

Tells == {"result", "error"}

\* set_result and set_exception, outside the lock.
Publish(c) ==
  /\ \/ caller[c].step = "publish result" /\ Settle(caller[c].flight, "result")
     \/ /\ caller[c].step = "publish error"
        /\ IF "error" \in Tells THEN Settle(caller[c].flight, "error") ELSE UNCHANGED outcome
  /\ caller' = [caller EXCEPT ![c] = Idle]
  /\ UNCHANGED <<completed, inflight, calls>>

\* A caller that joined gets the result or the leader's error.
Wake(c) ==
  /\ caller[c].step = "wait" /\ outcome[caller[c].flight] # "none"
  /\ caller' = [caller EXCEPT ![c] = Idle]
  /\ UNCHANGED <<completed, inflight, outcome, calls>>

Init ==
  /\ completed = <<>> /\ inflight = [k \in Keys |-> 0] /\ outcome = <<>>
  /\ caller = [c \in Callers |-> Idle] /\ calls = 0

Next ==
  \/ \E c \in Callers : Get(c) \/ Bypass(c) \/ Remember(c) \/ ComputeFails(c) \/ Publish(c) \/ Wake(c)
  \/ calls = MaxCalls /\ (\A c \in Callers : caller[c] = Idle) /\ UNCHANGED vars

Spec == Init /\ [][Next]_vars

--------------------------------------------------------------------------------
TypeOK ==
  /\ \A k \in Keys : inflight[k] \in 0 .. Len(outcome)
  /\ \A f \in DOMAIN outcome : outcome[f] \in {"none", "result", "error"}
  /\ calls \in 0 .. MaxCalls

\* "never failures on later calls": a caller only joins a computation whose outcome is
\* still to come, so a failure reaches those who waited for it and nobody else.
NoOldFailure == \A c \in Callers : caller[c].step = "wait" => caller[c].joined = "none"

\* Nobody waits for good: the future of a caller that waits is set, or the thread that
\* owns it is still at work on it.
WaitersServed ==
  \A c \in Callers : caller[c].step = "wait" =>
    \/ outcome[caller[c].flight] # "none"
    \/ \E d \in Callers : caller[d].owner /\ caller[d].flight = caller[c].flight

\* What is in flight is computed by one owner, is not remembered, and neither table
\* outgrows its limit, however the callers interleave.
ComputedOnce ==
  /\ \A k \in Keys : inflight[k] # 0 => k \notin Remembered /\
       \E c \in Callers : {d \in Callers : caller[d].owner /\ caller[d].step = "compute" /\ caller[d].key = k} = {c}
  /\ Cardinality({k \in Keys : inflight[k] # 0}) <= InflightLimit
  /\ Len(completed) <= CompletedLimit /\ \A i, j \in DOMAIN completed : completed[i] = completed[j] => i = j

--------------------------------------------------------------------------------
(* What makes the safety properties inductive *)

Outcomes == {"none", "result", "error"}
Shapes ==
  /\ completed \in Seq(Keys) /\ inflight \in [Keys -> Nat] /\ outcome \in Seq(Outcomes)
  /\ caller \in [Callers -> [step : {"idle", "wait", "compute", "publish result", "publish error"}, key : Keys,
                             flight : Nat, owner : BOOLEAN, joined : Outcomes]]

\* An owner is at work on a future that is not set; while it computes, that is in flight.
OwnersInv ==
  \A c \in Callers : caller[c].owner =>
    /\ caller[c].step \in {"compute", "publish result", "publish error"}
    /\ caller[c].flight \in DOMAIN outcome /\ outcome[caller[c].flight] = "none"
    /\ caller[c].step = "compute" => inflight[caller[c].key] = caller[c].flight
OneOwner ==
  \A c, d \in Callers : caller[c].owner /\ caller[d].owner /\ caller[c].flight = caller[d].flight => c = d
PublishersInv == \A c \in Callers : caller[c].step \in {"publish result", "publish error"} => caller[c].owner

\* A future that is not set has an owner, and what is in flight is being computed.
FuturesInv == \A f \in DOMAIN outcome : outcome[f] = "none" => \E c \in Callers : caller[c].owner /\ caller[c].flight = f
FlightsInv ==
  \A k \in Keys : inflight[k] # 0 => k \notin Remembered /\
    \E c \in Callers : caller[c].owner /\ caller[c].step = "compute" /\ caller[c].key = k

WaitersInv ==
  \A c \in Callers : caller[c].step = "wait" => caller[c].flight \in DOMAIN outcome /\ caller[c].joined = "none"

TablesInv ==
  /\ Cardinality({k \in Keys : inflight[k] # 0}) <= InflightLimit
  /\ Len(completed) <= CompletedLimit /\ \A i, j \in DOMAIN completed : completed[i] = completed[j] => i = j

WorkInv == OwnersInv /\ OneOwner /\ PublishersInv /\ FuturesInv /\ FlightsInv /\ WaitersInv

CacheInv == Shapes /\ WorkInv /\ TablesInv
==================================================================================
