---------------------------- MODULE HealthCounters ----------------------------
(* The poller's health counters: poller/poller_health_counters.py as it is     *)
(* driven by poller/poller.py.  Attempts are counted per UTC hour in memory,   *)
(* checkpointed after each one, and uploaded as cumulative snapshots that      *)
(* replace one another; a closed hour is retired once its upload succeeded.    *)
(*                                                                             *)
(* Abstractions: an hour's counters are the number of its attempts, zero when  *)
(* there is no entry (an entry is created by its first attempt); the size of   *)
(* the checkpoint is its number of hours; the wall clock is the current hour   *)
(* and never goes backwards (poller/README.md forbids it).                     *)
EXTENDS Naturals, FiniteSets

CONSTANTS
  LastHour,      \* bound: the clock stops in this hour
  MaxAttempts,   \* bound: attempts of one hour
  MaxPending,    \* health_max_bytes, in hours
  MaxMishaps,    \* bound: kills, errors of the local disk, uncaught exceptions
  Disks          \* the disks considered, see diskFails

ASSUME HealthAssumption ==
  /\ LastHour \in Nat /\ MaxAttempts \in Nat /\ MaxMishaps \in Nat
  /\ MaxPending \in Nat \ {0}
  /\ Disks \subseteq BOOLEAN

Hours == 0 .. LastHour

VARIABLES
  pc,           \* where the process is; "down" when there is none
  clock,        \* the current hour
  attemptHour,  \* hour of attempted_at of the poll under way
  hours,        \* self.hours: attempts of each hour
  why,          \* the call of upload under way: "start", "tick" or "stop"
  currentHour,  \* current_hour of that call
  todo,         \* hours that call has still to upload
  retiring,     \* the hour uploaded last
  checkpoint,   \* poller-health-v1.json
  objects,      \* the hour objects in GCS
  made,         \* history: attempts recorded, by hour
  mishaps,      \* bookkeeping of the bound MaxMishaps
  diskFails     \* whether writing the checkpoint may raise.  Never changes.

call == <<why, currentHour, todo, retiring>>
vars == <<pc, clock, attemptHour, hours, call, checkpoint, objects, made, mishaps, diskFails>>

NoCounts == [h \in Hours |-> 0]
Pending(counts) == {h \in Hours : counts[h] > 0}
Mishap == mishaps < MaxMishaps /\ mishaps' = mishaps + 1

Init ==
  /\ pc = "down"
  /\ clock = 0
  /\ attemptHour = 0
  /\ hours = NoCounts
  /\ why = "start" /\ currentHour = 0 /\ todo = {} /\ retiring = 0
  /\ checkpoint = NoCounts
  /\ objects = NoCounts
  /\ made = NoCounts
  /\ mishaps = 0
  /\ diskFails \in Disks

-----------------------------------------------------------------------------
(* upload: the hours it will visit are fixed when it is called.               *)
BeginUpload_RoundsUp(reason, counts) ==   \* mutant: the hour of `now` is rounded up
  /\ pc' = "upload"
  /\ why' = reason
  /\ currentHour' = clock + 1
  /\ todo' = {h \in Pending(counts) : h < clock + 1 \/ reason = "stop"}
  /\ retiring' = 0

BeginUpload(reason, counts) ==
  /\ pc' = "upload"
  /\ why' = reason
  /\ currentHour' = clock
  /\ todo' = {h \in Pending(counts) : h < clock \/ reason = "stop"}
  /\ retiring' = 0

(* The process is gone; its memory with it.                                   *)
Die ==
  /\ pc' = "down"
  /\ hours' = NoCounts
  /\ attemptHour' = 0
  /\ why' = "start" /\ currentHour' = 0 /\ todo' = {} /\ retiring' = 0

(* An exception: main uploads everything once more, partial hours included,   *)
(* and ends; an exception during that last upload ends it at once.            *)
Raise ==
  IF why = "stop" /\ pc \in {"upload", "retire", "stopSave"}
  THEN Die
  ELSE BeginUpload("stop", hours) /\ UNCHANGED <<hours, attemptHour>>

(* The constructor restores the checkpoint; main then uploads closed hours.   *)
Start ==
  /\ pc = "down"
  /\ hours' = checkpoint
  /\ BeginUpload("start", checkpoint)
  /\ UNCHANGED <<diskFails, clock, attemptHour, checkpoint, objects, made, mishaps>>

(* check_capacity lets the poll begin: one more hour is certain to fit.       *)
HasCapacity_NoReserve == Cardinality(Pending(hours)) <= MaxPending  \* mutant
HasCapacity == Cardinality(Pending(hours)) + 1 <= MaxPending

Attempt ==
  /\ pc = "poll"
  /\ HasCapacity
  /\ made[clock] < MaxAttempts
  /\ attemptHour' = clock
  /\ pc' = "calling"
  /\ UNCHANGED <<diskFails, clock, hours, call, checkpoint, objects, made, mishaps>>

AtCapacity ==
  /\ pc = "poll"
  /\ ~HasCapacity
  /\ Raise
  /\ UNCHANGED <<diskFails, clock, checkpoint, objects, made, mishaps>>

(* Bound: with MaxAttempts made in this hour, the loop goes on without one.   *)
NoMoreAttempts ==
  /\ pc = "poll"
  /\ HasCapacity
  /\ made[clock] = MaxAttempts
  /\ pc' = "uploads"
  /\ UNCHANGED <<diskFails, clock, attemptHour, hours, call, checkpoint, objects, made, mishaps>>

(* record, up to its call of save.                                            *)
Record ==
  /\ pc = "calling"
  /\ hours' = [hours EXCEPT ![attemptHour] = @ + 1]
  /\ made' = [made EXCEPT ![attemptHour] = @ + 1]
  /\ pc' = "record"
  /\ UNCHANGED <<diskFails, clock, attemptHour, call, checkpoint, objects, mishaps>>

(* save: the file is replaced as a whole.                                     *)
SaveRecorded ==
  /\ pc = "record"
  /\ checkpoint' = hours
  /\ pc' \in {"poll", "uploads"}    \* the next vehicle type, or the uploads
  /\ attemptHour' = 0
  /\ UNCHANGED <<diskFails, clock, hours, call, objects, made, mishaps>>

(* The tail of the loop: the heartbeat tick when it is due, or none.          *)
Tick ==
  /\ pc = "uploads"
  /\ BeginUpload("tick", hours)
  /\ UNCHANGED <<diskFails, clock, attemptHour, hours, checkpoint, objects, made, mishaps>>

NoTick ==
  /\ pc = "uploads"
  /\ pc' = "poll"
  /\ UNCHANGED <<diskFails, clock, attemptHour, hours, call, checkpoint, objects, made, mishaps>>

(* A signal ends the loop where the while condition reads it.                 *)
Stop ==
  /\ pc = "uploads"
  /\ BeginUpload("stop", hours)
  /\ UNCHANGED <<diskFails, clock, attemptHour, hours, checkpoint, objects, made, mishaps>>

-----------------------------------------------------------------------------
IsFirst(h) == h \in todo /\ \A g \in todo : h <= g

(* An hour before the call's current hour is closed.                          *)
Closed_WithCurrent(h) == h <= currentHour   \* mutant: the current hour is retired too
Closed_OneHourLate(h) == h + 1 < currentHour   \* mutant: the hour just closed is kept
Closed(h) == h < currentHour

(* A snapshot replaces the hour's object; a closed hour leaves memory.        *)
UploadHour_Adds(h) ==              \* mutant: counts are added to the object's
  /\ pc = "upload"
  /\ IsFirst(h)
  /\ objects' = [objects EXCEPT ![h] = @ + hours[h]]
  /\ todo' = todo \ {h}
  /\ IF Closed(h) THEN pc' = "retire" /\ retiring' = h ELSE UNCHANGED <<pc, retiring>>
  /\ UNCHANGED <<diskFails, clock, attemptHour, hours, why, currentHour, checkpoint, made, mishaps>>

UploadHour(h) ==
  /\ pc = "upload"
  /\ IsFirst(h)
  /\ objects' = [objects EXCEPT ![h] = hours[h]]
  /\ todo' = todo \ {h}
  /\ IF Closed(h)
     THEN pc' = "retire" /\ retiring' = h
     ELSE UNCHANGED <<pc, retiring>>
  /\ UNCHANGED <<diskFails, clock, attemptHour, hours, why, currentHour, checkpoint, made, mishaps>>

(* A caught error: the hour is retained, whether or not GCS applied it.       *)
UploadHourFails_Retired(applied) ==   \* mutant: a failed upload retires its hour
  /\ pc = "upload"
  /\ \E h \in todo :
       /\ IsFirst(h)
       /\ todo' = todo \ {h}
       /\ objects' = IF applied THEN [objects EXCEPT ![h] = hours[h]] ELSE objects
       /\ pc' = "retire" /\ retiring' = h
  /\ UNCHANGED <<diskFails, clock, attemptHour, hours, why, currentHour, checkpoint, made, mishaps>>

UploadHourFails(applied) ==
  /\ pc = "upload"
  /\ \E h \in todo :
       /\ IsFirst(h)
       /\ todo' = todo \ {h}
       /\ objects' = IF applied THEN [objects EXCEPT ![h] = hours[h]] ELSE objects
  /\ UNCHANGED <<diskFails, pc, clock, attemptHour, hours, why, currentHour, retiring,
                 checkpoint, made, mishaps>>

(* An error that upload does not catch.                                       *)
UploadHourRaises ==
  /\ pc = "upload" /\ todo # {}
  /\ Mishap
  /\ Raise
  /\ UNCHANGED <<diskFails, clock, checkpoint, objects, made>>

(* The retired hour is deleted and the checkpoint replaced without it.        *)
WithoutRetired == [hours EXCEPT ![retiring] = 0]

Retire ==
  /\ pc = "retire"
  /\ hours' = WithoutRetired
  /\ checkpoint' = WithoutRetired
  /\ pc' = "upload"
  /\ retiring' = 0
  /\ UNCHANGED <<diskFails, clock, attemptHour, why, currentHour, todo, objects, made, mishaps>>

UploadEnds ==
  /\ pc = "upload"
  /\ todo = {}
  /\ pc' = IF why = "stop" THEN "stopSave" ELSE "poll"
  /\ UNCHANGED <<diskFails, clock, attemptHour, hours, call, checkpoint, objects, made, mishaps>>

(* The last save of _flush_health_shutdown, and the end of the process.       *)
SaveAndExit ==
  /\ pc = "stopSave"
  /\ checkpoint' = hours
  /\ Die
  /\ UNCHANGED <<diskFails, clock, objects, made, mishaps>>

(* save raises: before the rename, or after it, from the directory's fsync.   *)
(* A failed retirement puts the hour back in memory (the copy that Raise sees).*)
SaveRaises(replaced) ==
  /\ diskFails
  /\ pc \in {"record", "retire", "stopSave"}
  /\ Mishap
  /\ checkpoint' = IF ~replaced THEN checkpoint
                   ELSE IF pc = "retire" THEN WithoutRetired ELSE hours
  /\ Raise
  /\ UNCHANGED <<diskFails, clock, objects, made>>

Crash ==
  /\ pc # "down"
  /\ Mishap
  /\ Die
  /\ UNCHANGED <<diskFails, clock, checkpoint, objects, made>>

HourPasses ==
  /\ clock < LastHour
  /\ clock' = clock + 1
  /\ UNCHANGED <<diskFails, pc, attemptHour, hours, call, checkpoint, objects, made, mishaps>>

Next ==
  \/ Start \/ Attempt \/ AtCapacity \/ NoMoreAttempts \/ Record \/ SaveRecorded
  \/ Tick \/ NoTick \/ Stop
  \/ \E h \in Hours : UploadHour(h)
  \/ \E flag \in BOOLEAN : UploadHourFails(flag) \/ SaveRaises(flag)
  \/ UploadHourRaises \/ Retire \/ UploadEnds \/ SaveAndExit
  \/ Crash \/ HourPasses

Spec == Init /\ [][Next]_vars

(* Fairness: the process is scheduled and restarted; the heartbeat interval    *)
(* elapses again and again; an upload of an hour that is tried again and again *)
(* succeeds; hours pass.                                                       *)
ProgramStep ==
  \/ Start \/ Attempt \/ AtCapacity \/ NoMoreAttempts \/ Record \/ SaveRecorded
  \/ Tick \/ NoTick \/ \E applied \in BOOLEAN : UploadHourFails(applied)
  \/ \E h \in Hours : UploadHour(h)
  \/ Retire \/ UploadEnds \/ SaveAndExit

FairSpec ==
  /\ Spec
  /\ WF_vars(ProgramStep) /\ SF_vars(Tick)
  /\ \A h \in Hours : SF_vars(UploadHour(h))

-----------------------------------------------------------------------------
Counts == [Hours -> Nat]

(* Types of every variable.                                                    *)
TypeOK ==
  /\ pc \in {"down", "poll", "calling", "record", "uploads", "upload", "retire", "stopSave"}
  /\ clock \in Hours /\ attemptHour \in Hours /\ currentHour \in Hours /\ retiring \in Hours
  /\ why \in {"start", "tick", "stop"}
  /\ todo \subseteq Hours
  /\ hours \in Counts /\ checkpoint \in Counts /\ objects \in Counts /\ made \in Counts
  /\ mishaps \in 0 .. MaxMishaps
  /\ diskFails \in BOOLEAN

(* No restart, retry or replaced snapshot counts an attempt twice.             *)
NoOvercount == \A h \in Hours : objects[h] <= made[h] /\ checkpoint[h] <= made[h]

(* The checkpoint stays within the cap, so the next start never refuses it and *)
(* record never fails for lack of room.                                        *)
CheckpointWithinCap == Cardinality(Pending(checkpoint)) <= MaxPending

(* An hour leaves the checkpoint only once its object holds all it counted.    *)
RetiredWhenPublished ==
  [][\A h \in Hours : checkpoint[h] > 0 /\ checkpoint'[h] = 0 => objects[h] >= checkpoint[h]]_vars

(* The durable count of an hour: the larger of its checkpoint and its object.  *)
Durable == [h \in Hours |-> IF checkpoint[h] > objects[h] THEN checkpoint[h] ELSE objects[h]]

\* With a disk whose writes fail the ledger is not promised: what was published
\* may shrink (ObjectNeverShrinks).
Ledger == INSTANCE CountLedger WITH count <- IF diskFails THEN NoCounts ELSE Durable

(* While the local disk works, the durable count of an hour grows by one       *)
(* attempt at a time and never shrinks, across kills, failed uploads, partial  *)
(* uploads, retirements and restarts.                                          *)
CountsRefined == Ledger!CountSpec

(* An hour's object is only ever replaced by one that counts at least as much. *)
ObjectNeverShrinks == [][\A h \in Hours : objects'[h] >= objects[h]]_vars

(* Every closed hour that was checkpointed is published and retired.           *)
ClosedHourRetired ==
  \A h \in Hours : (checkpoint[h] > 0 /\ h < clock) ~> (checkpoint[h] = 0 /\ objects[h] > 0)

(* The facts behind RetiredWhenPublished: memory counts at least what the      *)
(* checkpoint does, and the hour being retired has just been published.        *)
MemoryAhead ==
  /\ pc # "down" => \A h \in Hours : checkpoint[h] <= hours[h]
  /\ pc = "retire" => objects[retiring] = hours[retiring]

(* The facts behind CountsRefined, while the disk works: memory is ahead of    *)
(* the checkpoint by the attempt being saved only; an object counts more than  *)
(* the checkpoint only for an hour that is over and retired, which no attempt  *)
(* under way belongs to; the hours still to upload are pending.                *)
InFlight(h) == IF pc = "record" /\ h = attemptHour THEN 1 ELSE 0

Accounted ==
  /\ pc # "down" => \A h \in Hours : hours[h] = checkpoint[h] + InFlight(h)
  /\ \A h \in Hours : objects[h] > checkpoint[h] =>
        /\ checkpoint[h] = 0
        /\ h < clock
        /\ pc \in {"calling", "record"} => attemptHour # h
  /\ currentHour <= clock
  /\ \A h \in todo : hours[h] > 0 /\ (pc = "retire" => h # retiring)
  /\ todo # {} => pc \in {"upload", "retire"}
  /\ pc = "retire" => objects[retiring] = hours[retiring] /\ retiring < currentHour

=============================================================================
