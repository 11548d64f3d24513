------------------------------ MODULE AirflowProofs ------------------------------
(* The components of MCAirflow. First the health counters, for any number of      *)
(* hours, attempts and failures. Then GTFS polling and loading, for every feed,   *)
(* number of hours, of retries and of mishaps: GtfsInv of GtfsIngest is the        *)
(* inductive invariant: the schedule days are written only by a process whose      *)
(* read is still the object, and what a refresh has returned for is in the tables, *)
(* so a later plan for a date is always the newest among all of them.              *)
EXTENDS MCAirflow, TLAPS, FiniteSetTheorems, WellFoundedInduction

--------------------------------------------------------------------------------
(* Health counters *)

(* Counts of no attempts are counts, and hours are natural numbers.             *)
LEMMA CountTypes ==
  /\ 0 \in Hours
  /\ NoCounts \in Counts
  /\ Hours \subseteq Nat
  BY HealthAssumption DEF HealthAssumption, Hours, NoCounts, Counts

(* An upload begins in a well-typed call.                                       *)
LEMMA BeginTypes ==
  ASSUME TypeOK, NEW reason \in {"start", "tick", "stop"}, NEW counts, BeginUpload(reason, counts)
  PROVE  /\ pc' = "upload" /\ why' = reason /\ currentHour' \in Hours
         /\ todo' \subseteq Hours /\ retiring' \in Hours
  BY CountTypes DEF BeginUpload, TypeOK, Pending

(* A process that ends leaves well-typed empty memory.                          *)
LEMMA DieTypes ==
  ASSUME Die
  PROVE  /\ pc' = "down" /\ hours' \in Counts /\ attemptHour' \in Hours
         /\ why' \in {"start", "tick", "stop"} /\ currentHour' \in Hours
         /\ todo' \subseteq Hours /\ retiring' \in Hours
  BY CountTypes DEF Die

(* An exception leads to a well-typed state: the end, or the shutdown upload.   *)
LEMMA RaiseTypes ==
  ASSUME TypeOK, Raise
  PROVE  /\ pc' \in {"down", "upload"} /\ hours' \in Counts /\ attemptHour' \in Hours
         /\ why' \in {"start", "tick", "stop"} /\ currentHour' \in Hours
         /\ todo' \subseteq Hours /\ retiring' \in Hours
<1>1. CASE Die
  BY <1>1, DieTypes
<1>2. CASE BeginUpload("stop", hours) /\ UNCHANGED <<hours, attemptHour>>
  BY <1>2, BeginTypes DEF TypeOK
<1> QED BY <1>1, <1>2 DEF Raise

(* The count of mishaps stays within its bound.                                 *)
LEMMA MishapTypes ==
  ASSUME TypeOK, Mishap PROVE mishaps' \in 0 .. MaxMishaps
  BY HealthAssumption DEF TypeOK, Mishap, HealthAssumption

(* Counts without the retired hour are counts.                                  *)
LEMMA WithoutRetiredType ==
  ASSUME TypeOK PROVE WithoutRetired \in Counts
  BY DEF TypeOK, WithoutRetired, Counts

(* The initial state is well typed.                                             *)
LEMMA TypeInit == Init => TypeOK
  BY CountTypes, HealthAssumption DEF Init, TypeOK, HealthAssumption

(* Every step keeps the state well typed.                                       *)
LEMMA TypeStep == TypeOK /\ [Next]_vars => TypeOK'
<1> SUFFICES ASSUME TypeOK, [Next]_vars PROVE TypeOK'
  OBVIOUS
<1>1. CASE UNCHANGED vars
  BY <1>1 DEF vars, call, TypeOK
<1>2. CASE Start
  BY <1>2, BeginTypes DEF Start, TypeOK
<1>3. CASE Attempt
  BY <1>3 DEF Attempt, call, TypeOK
<1>4. CASE AtCapacity
  BY <1>4, RaiseTypes DEF AtCapacity, TypeOK
<1>5. CASE NoMoreAttempts
  BY <1>5 DEF NoMoreAttempts, call, TypeOK
<1>6. CASE Record
  <2>1. hours' \in Counts /\ made' \in Counts
    BY <1>6 DEF Record, TypeOK, Counts
  <2> QED BY <1>6, <2>1 DEF Record, call, TypeOK
<1>7. CASE SaveRecorded
  BY <1>7, CountTypes DEF SaveRecorded, call, TypeOK
<1>8. CASE Tick \/ Stop
  BY <1>8, BeginTypes DEF Tick, Stop, TypeOK
<1>9. CASE NoTick
  BY <1>9 DEF NoTick, call, TypeOK
<1>10. ASSUME NEW h \in Hours, UploadHour(h) PROVE TypeOK'
  <2>1. objects' \in Counts
    BY <1>10 DEF UploadHour, TypeOK, Counts
  <2> QED BY <1>10, <2>1 DEF UploadHour, TypeOK
<1>11. ASSUME NEW flag \in BOOLEAN, UploadHourFails(flag) PROVE TypeOK'
  <2>1. objects' \in Counts
    BY <1>11 DEF UploadHourFails, TypeOK, Counts
  <2> QED BY <1>11, <2>1 DEF UploadHourFails, TypeOK
<1>12. ASSUME NEW flag \in BOOLEAN, SaveRaises(flag) PROVE TypeOK'
  <2>1. checkpoint' \in Counts
    BY <1>12, WithoutRetiredType DEF SaveRaises, TypeOK
  <2> QED BY <1>12, <2>1, RaiseTypes, MishapTypes DEF SaveRaises, TypeOK
<1>13. CASE UploadHourRaises
  BY <1>13, RaiseTypes, MishapTypes DEF UploadHourRaises, TypeOK
<1>14. CASE Retire
  BY <1>14, WithoutRetiredType, CountTypes DEF Retire, TypeOK
<1>15. CASE UploadEnds
  BY <1>15 DEF UploadEnds, call, TypeOK
<1>16. CASE SaveAndExit
  BY <1>16, DieTypes DEF SaveAndExit, TypeOK
<1>17. CASE Crash
  BY <1>17, DieTypes, MishapTypes DEF Crash, TypeOK
<1>18. CASE HourPasses
  BY <1>18, HealthAssumption DEF HourPasses, call, TypeOK, Hours, HealthAssumption
<1> QED BY <1>1, <1>2, <1>3, <1>4, <1>5, <1>6, <1>7, <1>8, <1>9, <1>10, <1>11, <1>12,
           <1>13, <1>14, <1>15, <1>16, <1>17, <1>18 DEF Next

(* Type correctness of every reachable state.                                 *)
THEOREM TypeCorrect == Spec => []TypeOK
<1> QED BY TypeInit, TypeStep, PTL DEF Spec

-----------------------------------------------------------------------------
(* No copy of an hour counts more attempts than were made: memory, checkpoint *)
(* and object alike.  Memory is what makes NoOvercount inductive.             *)
CountedOnce == NoOvercount /\ \A h \in Hours : hours[h] <= made[h]

(* What a step may put into the checkpoint and into memory.                   *)
LEMMA CopiesStep ==
  ASSUME TypeOK, Next
  PROVE  \/ /\ checkpoint' \in {checkpoint, hours, WithoutRetired}
            /\ hours' \in {hours, checkpoint, WithoutRetired, NoCounts}
            /\ \/ objects' = objects
               \/ \E h \in Hours : objects' = [objects EXCEPT ![h] = hours[h]]
            /\ made' = made
         \/ Record
<1>1. CASE Start \/ Attempt \/ NoMoreAttempts \/ SaveRecorded \/ Tick \/ NoTick \/ Stop
  BY <1>1 DEF Start, Attempt, NoMoreAttempts, SaveRecorded, Tick, NoTick, Stop
<1>2. CASE AtCapacity \/ UploadHourRaises \/ Crash \/ SaveAndExit
  BY <1>2 DEF AtCapacity, UploadHourRaises, Crash, SaveAndExit, Raise, Die
<1>3. CASE \E h \in Hours : UploadHour(h)
  BY <1>3 DEF UploadHour
<1>4. CASE \E flag \in BOOLEAN : UploadHourFails(flag)
  BY <1>4 DEF UploadHourFails, TypeOK
<1>5. CASE \E flag \in BOOLEAN : SaveRaises(flag)
  BY <1>5 DEF SaveRaises, Raise, Die
<1>6. CASE Retire \/ UploadEnds \/ HourPasses
  BY <1>6 DEF Retire, UploadEnds, HourPasses
<1> QED BY <1>1, <1>2, <1>3, <1>4, <1>5, <1>6 DEF Next

(* Every step keeps CountedOnce: memory, the checkpoint and the objects never hold *)
(* more than the attempts made.                                                 *)
LEMMA CountedOnceStep == TypeOK /\ CountedOnce /\ [Next]_vars => CountedOnce'
<1> SUFFICES ASSUME TypeOK, CountedOnce, [Next]_vars PROVE CountedOnce'
  OBVIOUS
<1> USE DEF CountedOnce, NoOvercount
<1>1. CASE UNCHANGED vars
  BY <1>1 DEF vars
<1>2. CASE Record
  BY <1>2 DEF Record, TypeOK, Counts
<1>3. CASE Next /\ ~Record
  <2>1. \A h \in Hours : /\ WithoutRetired[h] <= made[h] /\ NoCounts[h] <= made[h]
                         /\ made[h] \in Nat
    BY DEF WithoutRetired, NoCounts, TypeOK, Counts
  <2>2. \A h \in Hours : checkpoint'[h] <= made[h] /\ hours'[h] <= made[h]
    BY <1>3, <2>1, CopiesStep
  <2>3. \A h \in Hours : objects'[h] <= made[h]
    BY <1>3, CopiesStep DEF TypeOK, Counts
  <2>4. made' = made
    BY <1>3, CopiesStep
  <2> QED BY <2>2, <2>3, <2>4
<1> QED BY <1>1, <1>2, <1>3

(* No restart, retry or replaced snapshot counts an attempt twice.            *)
THEOREM NeverCountedTwice == Spec => []NoOvercount
<1>1. Init => TypeOK /\ CountedOnce
  BY TypeInit DEF Init, CountedOnce, NoOvercount, NoCounts
<1>2. CountedOnce => NoOvercount
  BY DEF CountedOnce
<1> QED BY <1>1, <1>2, TypeStep, CountedOnceStep, PTL DEF Spec

-----------------------------------------------------------------------------
(* Memory is never behind the checkpoint, whatever the disk does.             *)
LEMMA MemoryAheadStep == TypeOK /\ MemoryAhead /\ [Next]_vars => MemoryAhead'
<1> SUFFICES ASSUME TypeOK, MemoryAhead, [Next]_vars PROVE MemoryAhead'
  OBVIOUS
<1> USE DEF MemoryAhead
<1>0. \A h \in Hours : /\ hours[h] \in Nat /\ checkpoint[h] \in Nat
                       /\ WithoutRetired[h] = IF h = retiring THEN 0 ELSE hours[h]
  BY DEF TypeOK, Counts, WithoutRetired
<1>1. CASE UNCHANGED vars \/ Attempt \/ NoMoreAttempts \/ NoTick \/ UploadEnds \/ HourPasses
  BY <1>1 DEF vars, call, Attempt, NoMoreAttempts, NoTick, UploadEnds, HourPasses
<1>2. CASE Start \/ Tick \/ Stop
  BY <1>0, <1>2 DEF Start, Tick, Stop, BeginUpload
<1>3. CASE AtCapacity \/ UploadHourRaises
  BY <1>3 DEF AtCapacity, UploadHourRaises, Raise, BeginUpload, Die
<1>4. CASE Record
  BY <1>0, <1>4 DEF Record, call, TypeOK, Counts
<1>5. CASE SaveRecorded
  BY <1>0, <1>5 DEF SaveRecorded
<1>6. CASE \E h \in Hours : UploadHour(h)
  <2>1. PICK h \in Hours : UploadHour(h)
    BY <1>6
  <2>2. objects'[h] = hours[h]
    BY <2>1 DEF UploadHour, TypeOK, Counts
  <2> QED BY <2>1, <2>2 DEF UploadHour
<1>7. CASE \E flag \in BOOLEAN : UploadHourFails(flag)
  BY <1>7 DEF UploadHourFails
<1>8. CASE Retire
  BY <1>0, <1>8 DEF Retire
<1>9. CASE \E flag \in BOOLEAN : SaveRaises(flag)
  BY <1>0, <1>9 DEF SaveRaises, Raise, BeginUpload, Die
<1>10. CASE SaveAndExit \/ Crash
  BY <1>10 DEF SaveAndExit, Crash, Die
<1> QED BY <1>1, <1>2, <1>3, <1>4, <1>5, <1>6, <1>7, <1>8, <1>9, <1>10 DEF Next

(* An hour leaves the checkpoint only once its object holds its counts, even  *)
(* when writes to the local disk fail.                                        *)
THEOREM RetiredOnlyWhenPublished == Spec => RetiredWhenPublished
<1> DEFINE Kept == \A h \in Hours : checkpoint[h] > 0 /\ checkpoint'[h] = 0 => objects[h] >= checkpoint[h]
<1>1. Init => TypeOK /\ MemoryAhead
  BY TypeInit DEF Init, MemoryAhead
<1>2. ASSUME TypeOK, MemoryAhead, Next PROVE Kept
  <2>0. \A h \in Hours : hours[h] \in Nat /\ checkpoint[h] \in Nat /\ objects[h] \in Nat
    BY <1>2 DEF TypeOK, Counts
  <2>1. CASE checkpoint' = checkpoint
    BY <2>0, <2>1
  <2>2. CASE checkpoint' = hours /\ pc # "down"
    BY <1>2, <2>0, <2>2 DEF MemoryAhead
  <2>3. CASE checkpoint' = WithoutRetired /\ pc = "retire"
    <3>1. \A h \in Hours : WithoutRetired[h] = IF h = retiring THEN 0 ELSE hours[h]
      BY <1>2 DEF WithoutRetired, TypeOK, Counts
    <3> QED BY <1>2, <2>0, <2>3, <3>1 DEF MemoryAhead
  <2>4. CASE Start \/ Attempt \/ AtCapacity \/ NoMoreAttempts \/ Record \/ Tick \/ NoTick \/ Stop
    BY <2>1, <2>4 DEF Start, Attempt, AtCapacity, NoMoreAttempts, Record, Tick, NoTick, Stop
  <2>5. CASE \/ \E h \in Hours : UploadHour(h)
             \/ \E flag \in BOOLEAN : UploadHourFails(flag)
             \/ UploadHourRaises \/ UploadEnds \/ Crash \/ HourPasses
    BY <2>1, <2>5 DEF UploadHour, UploadHourFails, UploadHourRaises, UploadEnds, Crash, HourPasses
  <2>6. CASE SaveRecorded \/ SaveAndExit \/ Retire
    BY <2>2, <2>3, <2>6 DEF SaveRecorded, SaveAndExit, Retire
  <2>7. CASE \E flag \in BOOLEAN : SaveRaises(flag)
    BY <2>1, <2>2, <2>3, <2>7 DEF SaveRaises
  <2> QED BY <1>2, <2>4, <2>5, <2>6, <2>7 DEF Next
<1>3. TypeOK /\ MemoryAhead /\ [Next]_vars => [Kept]_vars
  BY <1>2
<1> QED BY <1>1, <1>3, TypeStep, MemoryAheadStep, PTL DEF Spec, RetiredWhenPublished

-----------------------------------------------------------------------------
(* A disk works, or fails, for good.                                          *)
LEMMA DiskStays == [Next]_vars => diskFails' = diskFails
  BY DEF Next, vars, Start, Attempt, AtCapacity, NoMoreAttempts, Record, SaveRecorded, Tick,
         NoTick, Stop, UploadHour, UploadHourFails, SaveRaises, UploadHourRaises, Retire,
         UploadEnds, SaveAndExit, Crash, HourPasses

(* With a working disk the counts of memory, checkpoint and objects add up.   *)
LEMMA AccountedInit == Init => Accounted
  BY CountTypes DEF Init, Accounted, NoCounts

(* While the disk works, every step keeps Accounted: memory is ahead of the     *)
(* checkpoint by the attempt being recorded only, objects by retired hours only. *)
LEMMA AccountedStep ==
  ASSUME ~diskFails, TypeOK, Accounted, [Next]_vars
  PROVE  Accounted'
<1>0. \A h \in Hours : hours[h] \in Nat /\ checkpoint[h] \in Nat /\ objects[h] \in Nat
  BY DEF TypeOK, Counts
<1>a. /\ clock \in Nat /\ currentHour \in Nat /\ attemptHour \in Hours /\ retiring \in Hours
      /\ todo \subseteq Hours /\ Hours \subseteq Nat
  BY CountTypes DEF TypeOK
<1> USE DEF Accounted, InFlight
<1>1. CASE UNCHANGED vars
  BY <1>1 DEF vars, call
<1>2. CASE Start
  BY <1>0, <1>a, <1>2 DEF Start, BeginUpload, Pending
<1>3. CASE Attempt
  BY <1>0, <1>a, <1>3 DEF Attempt, call
<1>4. CASE AtCapacity
  BY <1>0, <1>a, <1>4 DEF AtCapacity, Raise, BeginUpload, Pending
<1>5. CASE NoMoreAttempts \/ NoTick
  BY <1>5 DEF NoMoreAttempts, NoTick, call
<1>6. CASE Record
  <2>1. \A h \in Hours : hours'[h] = IF h = attemptHour THEN hours[h] + 1 ELSE hours[h]
    BY <1>6 DEF Record, TypeOK, Counts
  <2> QED BY <1>0, <1>a, <1>6, <2>1 DEF Record, call
<1>7. CASE SaveRecorded
  <2>1. \A h \in Hours : checkpoint[h] <= checkpoint'[h]
    BY <1>0, <1>a, <1>7 DEF SaveRecorded
  <2>2. \A h \in Hours : objects[h] > checkpoint'[h] => checkpoint'[h] = checkpoint[h] /\ h < clock
    BY <1>0, <1>a, <1>7, <2>1 DEF SaveRecorded
  <2> QED BY <1>0, <1>a, <1>7, <2>1, <2>2 DEF SaveRecorded, call
<1>8. CASE Tick \/ Stop
  BY <1>0, <1>a, <1>8 DEF Tick, Stop, BeginUpload, Pending
<1>9. CASE \E h \in Hours : UploadHour(h)
  <2>1. PICK h \in Hours : UploadHour(h)
    BY <1>9
  <2>2. \A g \in Hours : objects'[g] = IF g = h THEN hours[g] ELSE objects[g]
    BY <2>1 DEF UploadHour, TypeOK, Counts
  <2>3. hours' = hours /\ checkpoint' = checkpoint /\ clock' = clock /\ currentHour' = currentHour
        /\ attemptHour' = attemptHour /\ todo' = todo \ {h} /\ pc = "upload"
    BY <2>1 DEF UploadHour
  <2>4. CASE Closed(h) /\ pc' = "retire" /\ retiring' = h
    BY <1>0, <1>a, <2>2, <2>3, <2>4 DEF Closed
  <2>5. CASE pc' = "upload" /\ retiring' = retiring
    BY <1>0, <1>a, <2>2, <2>3, <2>5
  <2> QED BY <2>1, <2>4, <2>5 DEF UploadHour
<1>10. CASE \E flag \in BOOLEAN : UploadHourFails(flag)
  <2>1. PICK h \in Hours, flag \in BOOLEAN :
             /\ UploadHourFails(flag) /\ todo' = todo \ {h}
             /\ objects' = IF flag THEN [objects EXCEPT ![h] = hours[h]] ELSE objects
    BY <1>10 DEF UploadHourFails, TypeOK
  <2>2. \A g \in Hours : objects'[g] \in {hours[g], objects[g]}
    BY <2>1 DEF TypeOK, Counts
  <2>3. hours' = hours /\ checkpoint' = checkpoint /\ clock' = clock /\ currentHour' = currentHour
        /\ attemptHour' = attemptHour /\ retiring' = retiring /\ pc = "upload" /\ pc' = "upload"
    BY <2>1 DEF UploadHourFails
  <2> QED BY <1>0, <1>a, <2>1, <2>2, <2>3
<1>11. CASE UploadHourRaises
  BY <1>0, <1>a, <1>11 DEF UploadHourRaises, Raise, BeginUpload, Die, Pending
<1>12. CASE Retire
  <2>1. \A h \in Hours : WithoutRetired[h] = IF h = retiring THEN 0 ELSE hours[h]
    BY DEF WithoutRetired, TypeOK, Counts
  <2> QED BY <1>0, <1>a, <1>12, <2>1 DEF Retire
<1>13. CASE UploadEnds
  BY <1>0, <1>a, <1>13 DEF UploadEnds, call
<1>14. CASE SaveAndExit
  BY <1>0, <1>a, <1>14 DEF SaveAndExit, Die
<1>15. CASE Crash
  BY <1>0, <1>a, <1>15 DEF Crash, Die
<1>16. CASE HourPasses
  BY <1>0, <1>a, <1>16 DEF HourPasses, call
<1>17. CASE \E flag \in BOOLEAN : SaveRaises(flag)
  BY <1>17 DEF SaveRaises
<1> QED BY <1>1, <1>2, <1>3, <1>4, <1>5, <1>6, <1>7, <1>8, <1>9, <1>10, <1>11, <1>12,
           <1>13, <1>14, <1>15, <1>16, <1>17 DEF Next

(* A step leaves every durable count alone, or it is the save of an attempt,  *)
(* which adds one to the hour of that attempt.                                *)
LEMMA LedgerStep ==
  ASSUME ~diskFails, TypeOK, Accounted, [Next]_vars
  PROVE  [\E h \in Hours : Durable' = [Durable EXCEPT ![h] = @ + 1]]_Durable
<1>0. \A h \in Hours : hours[h] \in Nat /\ checkpoint[h] \in Nat /\ objects[h] \in Nat
  BY DEF TypeOK, Counts
<1> DEFINE Larger(a, b) == IF a > b THEN a ELSE b
<1>a. Durable = [h \in Hours |-> Larger(checkpoint[h], objects[h])]
  BY DEF Durable
<1>b. Durable' = [h \in Hours |-> Larger(checkpoint'[h], objects'[h])]
  BY DEF Durable
<1>c. ASSUME \A h \in Hours : Larger(checkpoint'[h], objects'[h]) = Larger(checkpoint[h], objects[h])
      PROVE  Durable' = Durable
  BY <1>a, <1>b, <1>c
<1> HIDE DEF Larger
<1>1. CASE UNCHANGED vars
  BY <1>1, <1>c DEF vars
<1>2. CASE SaveRecorded
  <2>1. /\ attemptHour \in Hours /\ checkpoint' = hours /\ objects' = objects
        /\ pc = "record"
    BY <1>2 DEF SaveRecorded, TypeOK
  <2>2. \A h \in Hours : hours[h] = IF h = attemptHour THEN checkpoint[h] + 1 ELSE checkpoint[h]
    BY <1>0, <2>1 DEF Accounted, InFlight
  <2>3. objects[attemptHour] <= checkpoint[attemptHour]
    BY <1>0, <2>1 DEF Accounted
  <2>4. \A h \in Hours : Larger(checkpoint'[h], objects'[h])
                         = IF h = attemptHour THEN Larger(checkpoint[h], objects[h]) + 1
                                              ELSE Larger(checkpoint[h], objects[h])
    BY <1>0, <2>1, <2>2, <2>3 DEF Larger
  <2>5. Durable' = [Durable EXCEPT ![attemptHour] = @ + 1]
    BY <1>a, <1>b, <2>4
  <2> QED BY <2>1, <2>5
<1>3. ASSUME NEW h \in todo, pc = "upload", checkpoint' = checkpoint,
             objects' \in {objects, [objects EXCEPT ![h] = hours[h]]}
      PROVE  Durable' = Durable
  <2>1. h \in Hours /\ hours[h] = checkpoint[h] /\ hours[h] > 0
    BY <1>0, <1>3 DEF Accounted, InFlight, TypeOK
  <2>2. objects[h] <= checkpoint[h]
    BY <1>0, <2>1 DEF Accounted
  <2>3. objects'[h] \in {objects[h], checkpoint[h]} /\ \A g \in Hours \ {h} : objects'[g] = objects[g]
    BY <1>3, <2>1 DEF TypeOK, Counts
  <2>4. \A g \in Hours : Larger(checkpoint'[g], objects'[g]) = Larger(checkpoint[g], objects[g])
    BY <1>0, <1>3, <2>1, <2>2, <2>3 DEF Larger
  <2> QED BY <1>c, <2>4
<1>4. CASE \E h \in Hours : UploadHour(h)
  BY <1>3, <1>4 DEF UploadHour, IsFirst
<1>5. CASE \E flag \in BOOLEAN : UploadHourFails(flag)
  BY <1>3, <1>5 DEF UploadHourFails
<1>6. CASE Retire
  <2>1. /\ checkpoint' = WithoutRetired /\ objects' = objects /\ pc = "retire" /\ retiring \in Hours
    BY <1>6 DEF Retire, TypeOK
  <2>2. \A g \in Hours : /\ WithoutRetired[g] = IF g = retiring THEN 0 ELSE hours[g]
                         /\ hours[g] = checkpoint[g]
    BY <1>0, <2>1 DEF WithoutRetired, TypeOK, Counts, Accounted, InFlight
  <2>3. objects[retiring] = checkpoint[retiring]
    BY <2>1, <2>2 DEF Accounted
  <2>4. \A g \in Hours : Larger(checkpoint'[g], objects'[g]) = Larger(checkpoint[g], objects[g])
    BY <1>0, <2>1, <2>2, <2>3 DEF Larger
  <2> QED BY <1>c, <2>4
<1>7. CASE SaveAndExit
  <2>1. \A g \in Hours : checkpoint'[g] = checkpoint[g] /\ objects'[g] = objects[g]
    BY <1>0, <1>7 DEF SaveAndExit, Accounted, InFlight
  <2> QED BY <1>c, <2>1
<1>8. CASE checkpoint' = checkpoint /\ objects' = objects
  BY <1>8, <1>c
<1>9. CASE Start \/ Attempt \/ AtCapacity \/ NoMoreAttempts \/ Record \/ Tick \/ NoTick \/ Stop
  BY <1>8, <1>9 DEF Start, Attempt, AtCapacity, NoMoreAttempts, Record, Tick, NoTick, Stop
<1>10. CASE UploadHourRaises \/ UploadEnds \/ Crash \/ HourPasses
  BY <1>8, <1>10 DEF UploadHourRaises, UploadEnds, Crash, HourPasses
<1>11. CASE \E flag \in BOOLEAN : SaveRaises(flag)
  BY <1>11 DEF SaveRaises
<1> QED BY <1>1, <1>2, <1>4, <1>5, <1>6, <1>7, <1>9, <1>10, <1>11 DEF Next

(* With a working disk the counters implement the ledger of attempts: durable *)
(* counts grow by one attempt at a time and never shrink.                     *)
THEOREM CountsImplemented == Spec => CountsRefined
<1> DEFINE View == IF diskFails THEN NoCounts ELSE Durable
           Working == ~diskFails => Accounted
<1>1. Init => Ledger!CountInit
  BY DEF Init, Ledger!CountInit, Durable, NoCounts
<1>2. Init => TypeOK /\ Working
  BY TypeInit, AccountedInit
<1>3. ASSUME [Next]_vars PROVE diskFails' = diskFails
  BY <1>3, DiskStays
<1>4. TypeOK /\ Working /\ [Next]_vars => Working'
  BY <1>3, AccountedStep
<1>5. TypeOK /\ Working /\ [Next]_vars => [\E h \in Hours : Ledger!CountAttempt(h)]_View
  <2> SUFFICES ASSUME TypeOK, Working, [Next]_vars
               PROVE  [\E h \in Hours : Ledger!CountAttempt(h)]_View
    OBVIOUS
  <2>1. CASE diskFails
    BY <1>3, <2>1 DEF NoCounts
  <2>2. CASE ~diskFails
    BY <1>3, <2>2, LedgerStep DEF Ledger!CountAttempt
  <2> QED BY <2>1, <2>2
<1> QED BY <1>1, <1>2, <1>4, <1>5, TypeStep, PTL DEF Spec, CountsRefined, Ledger!CountSpec

-----------------------------------------------------------------------------
(* The cap: a poll only begins while one more hour is certain to fit, and no  *)
(* step between that check and the record adds an hour to memory.             *)

Fits(counts) == Cardinality(Pending(counts)) <= MaxPending
CapOK == Fits(checkpoint) /\ Fits(hours) /\ (pc = "calling" => HasCapacity)

LEMMA PendingFinite == ASSUME NEW counts PROVE IsFiniteSet(Pending(counts)) /\ Cardinality(Pending(counts)) \in Nat
<1>1. IsFiniteSet(Hours)
  BY HealthAssumption, FS_Interval DEF HealthAssumption, Hours
<1>2. Pending(counts) \subseteq Hours
  BY DEF Pending
<1>3. IsFiniteSet(Pending(counts))
  BY <1>1, <1>2, FS_Subset
<1> QED BY <1>3, FS_CardinalityType

LEMMA FewerFit ==
  ASSUME NEW counts, NEW fewer, Pending(fewer) \subseteq Pending(counts), Fits(counts) PROVE Fits(fewer)
<1>1. Cardinality(Pending(fewer)) <= Cardinality(Pending(counts))
  BY PendingFinite, FS_Subset
<1>2. Cardinality(Pending(fewer)) \in Nat /\ Cardinality(Pending(counts)) \in Nat /\ MaxPending \in Nat
  BY PendingFinite, HealthAssumption DEF HealthAssumption
<1> QED BY <1>1, <1>2 DEF Fits

LEMMA OneMoreFits == ASSUME TypeOK, HasCapacity, Record PROVE Fits(hours')
<1>1. Pending(hours') \subseteq Pending(hours) \union {attemptHour}
  BY DEF Record, TypeOK, Counts, Pending
<1>2. IsFiniteSet(Pending(hours)) /\ IsFiniteSet(Pending(hours) \union {attemptHour})
  BY PendingFinite, FS_AddElement
<1>3. Cardinality(Pending(hours) \union {attemptHour}) <= Cardinality(Pending(hours)) + 1
  <2>1. Cardinality(Pending(hours) \union {attemptHour})
          = IF attemptHour \in Pending(hours) THEN Cardinality(Pending(hours)) ELSE Cardinality(Pending(hours)) + 1
    BY <1>2, FS_AddElement
  <2>2. Cardinality(Pending(hours)) \in Nat
    BY PendingFinite
  <2> QED BY <2>1, <2>2
<1>4. Cardinality(Pending(hours')) <= Cardinality(Pending(hours) \union {attemptHour})
  BY <1>1, <1>2, FS_Subset
<1>5. /\ Cardinality(Pending(hours')) \in Nat /\ Cardinality(Pending(hours) \union {attemptHour}) \in Nat
      /\ Cardinality(Pending(hours)) \in Nat /\ MaxPending \in Nat
  BY <1>2, PendingFinite, FS_CardinalityType, HealthAssumption DEF HealthAssumption
<1> QED BY <1>3, <1>4, <1>5 DEF HasCapacity, Fits

LEMMA CapStep == TypeOK /\ CapOK /\ [Next]_vars => CapOK'
<1> SUFFICES ASSUME TypeOK, CapOK, [Next]_vars PROVE CapOK'
  OBVIOUS
<1>0. Fits(checkpoint) /\ Fits(hours) /\ Fits(NoCounts) /\ Fits(WithoutRetired)
  <2>1. Pending(NoCounts) \subseteq Pending(hours)
    BY DEF Pending, NoCounts
  <2>2. Pending(WithoutRetired) \subseteq Pending(hours)
    BY DEF Pending, WithoutRetired, TypeOK, Counts
  <2> QED BY <2>1, <2>2, FewerFit DEF CapOK
<1>1. CASE UNCHANGED vars
  BY <1>1 DEF vars, CapOK, Fits, HasCapacity, Pending
<1>2. CASE Record
  <2>1. pc = "calling" /\ pc' = "record" /\ checkpoint' = checkpoint
    BY <1>2 DEF Record
  <2>2. Fits(hours')
    BY <1>2, <2>1, OneMoreFits DEF CapOK
  <2> QED BY <1>0, <2>1, <2>2 DEF CapOK, Fits, Pending
<1>3. CASE Attempt
  BY <1>0, <1>3 DEF Attempt, CapOK, HasCapacity, Fits, Pending
<1>4. CASE HourPasses
  BY <1>0, <1>4 DEF HourPasses, CapOK, HasCapacity, Fits, Pending
<1>5. CASE ~(Record \/ Attempt \/ HourPasses \/ UNCHANGED vars)
  <2>1. Next /\ pc' # "calling"
    BY <1>5 DEF Next, Start, AtCapacity, NoMoreAttempts, SaveRecorded, Tick, NoTick, Stop, UploadHour, UploadHourFails,
       SaveRaises, UploadHourRaises, Retire, UploadEnds, SaveAndExit, Crash, Raise, Die, BeginUpload
  <2>2. /\ checkpoint' \in {checkpoint, hours, WithoutRetired}
        /\ hours' \in {hours, checkpoint, WithoutRetired, NoCounts}
    BY <1>5, <2>1, CopiesStep
  <2> QED BY <1>0, <2>1, <2>2 DEF CapOK, Fits, Pending
<1> QED BY <1>1, <1>2, <1>3, <1>4, <1>5

(* check_capacity reserves room before each poll, so that neither record nor  *)
(* the next start ever finds more hours than the file may hold.               *)
THEOREM CapKept == Spec => []CheckpointWithinCap
<1>1. Init => CapOK
  <2>1. Pending(NoCounts) = {}
    BY DEF Pending, NoCounts
  <2>2. Cardinality({}) = 0 /\ MaxPending \in Nat
    BY FS_EmptySet, HealthAssumption DEF HealthAssumption
  <2> QED BY <2>1, <2>2 DEF Init, CapOK, Fits
<1>2. CapOK => CheckpointWithinCap
  BY DEF CapOK, Fits, CheckpointWithinCap
<1> QED BY <1>1, <1>2, TypeInit, TypeStep, CapStep, PTL DEF Spec

--------------------------------------------------------------------------------
(* GTFS *)

(* Numbers: days of hours, least and greatest elements.                           *)

LEMMA HashesBounded == \E most \in Nat : Hashes \subseteq 1 .. most
<1>1. PICK most \in Hashes \union {0} : \A h \in Hashes : h <= most BY GtfsHolds DEF G!GtfsAssumption
<1>2. Hashes \subseteq Nat \ {0} BY GtfsHolds DEF G!GtfsAssumption
<1>3. most \in Nat BY <1>1, <1>2
<1>4. \A h \in Hashes : h \in 1 .. most BY <1>1, <1>2, <1>3
<1> QED BY <1>3, <1>4

LEMMA DivMono == ASSUME NEW h \in Nat \ {0}, NEW a \in Nat, NEW b \in Nat, a <= b PROVE a \div h <= b \div h
<1> DEFINE x == a \div h  y == b \div h
<1>1. x \in Int /\ y \in Int OBVIOUS
<1>2. h * x <= a /\ a < h * (x + 1) BY Z3
<1>3. h * y <= b /\ b < h * (y + 1) BY Z3
<1> QED BY <1>1, <1>2, <1>3, Z3

LEMMA DayNat == ASSUME NEW t \in Nat PROVE G!Day(t) \in Nat
<1>1. HoursPerDay \in Nat \ {0} BY GtfsHolds DEF G!GtfsAssumption
<1> DEFINE n == t + HoursPerDay - 1
<1>2. n \in Nat BY <1>1
<1> HIDE DEF n
<1>3. n \div HoursPerDay \in Nat BY <1>1, <1>2, Z3
<1> QED BY <1>3 DEF G!Day, n

LEMMA DayMono == ASSUME NEW a \in Nat, NEW b \in Nat, a <= b PROVE G!Day(a) <= G!Day(b)
<1>1. HoursPerDay \in Nat \ {0} BY GtfsHolds DEF G!GtfsAssumption
<1> DEFINE m == a + HoursPerDay - 1
           n == b + HoursPerDay - 1
<1>2. m \in Nat /\ n \in Nat /\ m <= n BY <1>1
<1> HIDE DEF m, n
<1>3. m \div HoursPerDay <= n \div HoursPerDay BY <1>1, <1>2, DivMono
<1> QED BY <1>3 DEF G!Day, m, n

LEMMA LessThan == OpToRel(<, Nat) = {ss \in Nat \X Nat : ss[1] < ss[2]}
BY Zenon DEF OpToRel

LEMMA LeastOf == ASSUME NEW S, S \subseteq Nat, S # {} PROVE \E x \in S : \A y \in S : x <= y
<1> DEFINE R == {ss \in Nat \X Nat : ss[1] < ss[2]}
<1>1. IsWellFoundedOn(R, Nat) BY NatLessThanWellFounded, LessThan
<1> HIDE DEF R
<1>2. PICK x \in S : \A y \in S : ~(<<y, x>> \in R) BY <1>1, WFMin
<1>3. ASSUME NEW y \in S PROVE x <= y
  <2>1. x \in Nat /\ y \in Nat OBVIOUS
  <2>2. y < x => <<y, x>> \in R BY <2>1 DEF R
  <2> QED BY <1>2, <2>1, <2>2
<1> QED BY <1>3

LEMMA MinOf == ASSUME NEW S, S \subseteq Nat, S # {} PROVE G!Min(S) \in S /\ \A y \in S : G!Min(S) <= y
  BY LeastOf DEF G!Min

LEMMA GreatestOf == ASSUME NEW m \in Nat, NEW S, S \subseteq 0 .. m, S # {} PROVE \E x \in S : \A y \in S : y <= x
<1> DEFINE R == {m - x : x \in S}
<1>1. R \subseteq Nat /\ R # {} OBVIOUS
<1>2. PICK r \in R : \A q \in R : r <= q BY <1>1, LeastOf
<1>3. PICK x \in S : r = m - x BY <1>2
<1>4. \A y \in S : m - x <= m - y BY <1>2, <1>3
<1> QED BY <1>3, <1>4

LEMMA NewestOf ==
  ASSUME NEW S, S \subseteq G!Ids, S # {}
  PROVE  \E s \in S : \A t \in S : ~G!Newer(t, s)
<1>1. MaxHour \in Nat BY GtfsHolds DEF G!GtfsAssumption
<1>2. PICK most \in Nat : Hashes \subseteq 1 .. most BY HashesBounded
<1>3. \A s \in S : s[1] \in 0 .. MaxHour /\ s[2] \in 0 .. most
  <2> SUFFICES ASSUME NEW s \in S PROVE s[1] \in 0 .. MaxHour /\ s[2] \in 0 .. most OBVIOUS
  <2>1. s[1] \in 1 .. MaxHour /\ s[2] \in Hashes BY DEF G!Ids
  <2>2. s[2] \in 1 .. most BY <1>2, <2>1
  <2> QED BY <1>1, <2>1, <2>2
<1>4. PICK h \in {s[1] : s \in S} : \A k \in {s[1] : s \in S} : k <= h
  <2>1. {s[1] : s \in S} \subseteq 0 .. MaxHour /\ {s[1] : s \in S} # {} BY <1>3
  <2> QED BY <1>1, <2>1, GreatestOf
<1> DEFINE T == {s \in S : s[1] = h}
<1>5. PICK b \in {s[2] : s \in T} : \A c \in {s[2] : s \in T} : c <= b
  <2>1. {s[2] : s \in T} \subseteq 0 .. most /\ {s[2] : s \in T} # {} BY <1>3, <1>4
  <2> QED BY <2>1, GreatestOf
<1>6. PICK s \in T : s[2] = b BY <1>5
<1>7. ASSUME NEW t \in S PROVE ~G!Newer(t, s)
  <2>1. t[1] <= s[1] /\ (t[1] = s[1] => t[2] <= s[2]) BY <1>4, <1>5, <1>6
  <2>2. t[1] \in Nat /\ t[2] \in Nat /\ s[1] \in Nat /\ s[2] \in Nat BY <1>3, <1>6
  <2> QED BY <2>1, <2>2 DEF G!Newer
<1> QED BY <1>6, <1>7

--------------------------------------------------------------------------------
(* What the step lemmas need of the constants and of the state.                  *)

LEMMA IdsAre ==
  ASSUME NEW s \in G!Ids
  PROVE  /\ s[1] \in Nat /\ s[2] \in Nat /\ s[2] # 0 /\ G!Day(s[1]) \in Nat
         /\ \A k \in G!ToSet(Tables) : <<s, k>> \in G!JobNames
<1>1. MaxHour \in Nat BY GtfsHolds DEF G!GtfsAssumption
<1>2. PICK most \in Nat : Hashes \subseteq 1 .. most BY HashesBounded
<1>3. s[1] \in 1 .. MaxHour /\ s[2] \in Hashes BY DEF G!Ids
<1>4. s[2] \in 1 .. most BY <1>2, <1>3
<1>5. s[1] \in Nat /\ s[2] \in Nat /\ s[2] # 0 BY <1>1, <1>2, <1>3, <1>4
<1> QED BY <1>5, DayNat DEF G!JobNames

LEMMA ListOf ==
  ASSUME NEW b \in Seq(G!Ids)
  PROVE  /\ G!ToSet(b) \subseteq G!Ids
         /\ b # <<>> => G!ToSet(b) # {}
         /\ \A s \in G!ToSet(b) : \E i \in 1 .. Len(b) : s = b[i]
         /\ \A i \in 1 .. Len(b) : b[i] \in G!ToSet(b)
BY DEF G!ToSet

LEMMA ListAppend ==
  ASSUME NEW b \in Seq(G!Ids), NEW s \in G!Ids
  PROVE  G!ToSet(Append(b, s)) = G!ToSet(b) \union {s}
<1> DEFINE c == Append(b, s)
<1>1. Len(c) = Len(b) + 1 /\ c[Len(b) + 1] = s /\ \A i \in 1 .. Len(b) : c[i] = b[i] OBVIOUS
<1>2. DOMAIN c = 1 .. Len(b) + 1 /\ DOMAIN b = 1 .. Len(b) /\ Len(b) \in Nat OBVIOUS
<1> HIDE DEF c
<1>3. G!ToSet(c) \subseteq G!ToSet(b) \union {s} BY <1>1, <1>2 DEF G!ToSet
<1>4. G!ToSet(b) \union {s} \subseteq G!ToSet(c) BY <1>1, <1>2 DEF G!ToSet
<1> QED BY <1>3, <1>4 DEF c

\* The rows of a table are only ever added to, so what is in the tables stays.
LEMMA RowsGrow ==
  ASSUME G!Shapes, \A j \in G!JobNames : rows'[j] >= rows[j], rows' \in [G!JobNames -> Nat],
         NEW s \in G!Ids, G!InTables(s)
  PROVE  G!InTables(s)'
<1>1. ASSUME NEW k \in G!ToSet(Tables) PROVE rows'[<<s, k>>] > 0
  <2>1. <<s, k>> \in G!JobNames BY IdsAre
  <2>2. rows[<<s, k>>] > 0 BY DEF G!InTables
  <2>3. rows[<<s, k>>] \in Nat /\ rows'[<<s, k>>] \in Nat BY <2>1 DEF G!Shapes
  <2> QED BY <2>1, <2>2, <2>3
<1> QED BY <1>1 DEF G!InTables

--------------------------------------------------------------------------------
(* The refresh of the schedule days: no stored date goes back.                   *)

LEMMA FirstDayOf ==
  ASSUME NEW b \in Seq(G!Ids), b # <<>>, NEW read \in G!Reads
  PROVE  /\ G!FirstDay(read, b) \in Nat
         /\ \A t \in G!ToSet(b) : G!FirstDay(read, b) <= G!Day(t[1])
<1> DEFINE S == {G!Day(s[1]) : s \in G!ToSet(b)}
           first == G!Min(S)
<1>1. S \subseteq Nat /\ S # {} BY ListOf, IdsAre
<1>2. first \in S /\ \A y \in S : first <= y BY <1>1, MinOf
<1>3. RetentionDays \in Nat BY GtfsHolds DEF G!GtfsAssumption
<1>4. first \in Nat BY <1>1, <1>2
<1>5. G!FirstDay(read, b) = IF read.ok THEN first ELSE IF first > RetentionDays THEN first - RetentionDays ELSE 0
  BY DEF G!FirstDay
<1>6. \A t \in G!ToSet(b) : first <= G!Day(t[1]) BY <1>2
<1> HIDE DEF first
<1>7. G!FirstDay(read, b) \in Nat /\ G!FirstDay(read, b) <= first BY <1>3, <1>4, <1>5
<1>8. ASSUME NEW t \in G!ToSet(b) PROVE G!FirstDay(read, b) <= G!Day(t[1])
  <2>1. t \in G!Ids BY ListOf
  <2>2. G!Day(t[1]) \in Nat BY <2>1, IdsAre
  <2> QED BY <1>4, <1>6, <1>7, <2>2
<1> QED BY <1>7, <1>8

\* A plan is empty only when no snapshot is listed; otherwise it is that of a listed
\* snapshot none published by then is newer than.
LEMMA PlanIs ==
  ASSUME NEW d \in Nat, NEW first \in Nat, NEW p \in G!PlanOf(d, first)
  PROVE  \E s \in G!Ids : /\ G!InTables(s) /\ G!Day(s[1]) <= d /\ s[2] = p
                          /\ \A t \in G!Ids : G!InTables(t) /\ G!Day(t[1]) <= d => ~G!Newer(t, s)
<1> DEFINE listed == {s \in G!Ids : G!InTables(s) /\ G!Day(s[1]) \in first .. d}
<1>1. PICK s \in listed : s[2] = p /\ \A t \in listed : ~G!Newer(t, s) BY DEF G!PlanOf
<1>2. s \in G!Ids /\ G!InTables(s) /\ G!Day(s[1]) \in first .. d BY <1>1
<1>3. s[1] \in Nat /\ s[2] \in Nat /\ G!Day(s[1]) \in Nat BY <1>2, IdsAre
<1>4. ASSUME NEW t \in G!Ids, G!InTables(t), G!Day(t[1]) <= d PROVE ~G!Newer(t, s)
  <2>1. t[1] \in Nat /\ t[2] \in Nat /\ G!Day(t[1]) \in Nat BY IdsAre
  <2>2. CASE first <= G!Day(t[1])
    <3>1. t \in listed BY <1>4, <2>1, <2>2
    <3> QED BY <1>1, <3>1
  <2>3. CASE ~(first <= G!Day(t[1]))
    <3>1. ~(s[1] <= t[1])
      <4>1. s[1] <= t[1] => G!Day(s[1]) <= G!Day(t[1]) BY <1>3, <2>1, DayMono
      <4> QED BY <1>2, <1>3, <2>1, <2>3, <4>1
    <3> QED BY <1>3, <2>1, <3>1 DEF G!Newer
  <2> QED BY <2>2, <2>3
<1> QED BY <1>1, <1>2, <1>3, <1>4

LEMMA NoPlan ==
  ASSUME NEW d \in Nat, NEW first \in Nat, G!PlanOf(d, first) = {}, NEW s \in G!Ids, G!InTables(s)
  PROVE  G!Day(s[1]) \notin first .. d
<1> DEFINE listed == {t \in G!Ids : G!InTables(t) /\ G!Day(t[1]) \in first .. d}
<1>1. SUFFICES ASSUME s \in listed PROVE FALSE OBVIOUS
<1>2. PICK b \in listed : \A t \in listed : ~G!Newer(t, b) BY <1>1, NewestOf
<1>3. b[2] \in G!PlanOf(d, first) BY <1>2 DEF G!PlanOf
<1> QED BY <1>3

LEMMA DaysAreNat == G!Days \subseteq Nat
<1>1. MaxHour \in Nat BY GtfsHolds DEF G!GtfsAssumption
<1>2. G!Day(MaxHour) \in Nat BY <1>1, DayNat
<1> QED BY <1>2 DEF G!Days

LEMMA MergedIs ==
  ASSUME NEW read \in G!Reads, NEW b \in Seq(G!Ids), NEW d \in G!Days
  PROVE  LET v == G!Merged(read, b)[d]
             plan == G!PlanOf(d, G!FirstDay(read, b))
         IN  v = 0 \/ v \in plan \/ (plan = {} /\ read.ok /\ v = read.of[d])
<1> DEFINE plan == G!PlanOf(d, G!FirstDay(read, b))
<1>1. G!Merged(read, b)[d] = IF d + RetentionDays < G!Day(hour) THEN 0
                            ELSE IF plan # {} THEN CHOOSE p \in plan : TRUE ELSE IF read.ok THEN read.of[d] ELSE 0
  BY DEF G!Merged
<1>2. plan # {} => (CHOOSE p \in plan : TRUE) \in plan OBVIOUS
<1> HIDE DEF plan
<1> QED BY <1>1, <1>2 DEF plan

LEMMA MergedShape ==
  ASSUME NEW read \in G!Reads, NEW b \in Seq(G!Ids), b # <<>>
  PROVE  G!Merged(read, b) \in [G!Days -> Nat]
<1>1. ASSUME NEW d \in G!Days PROVE G!Merged(read, b)[d] \in Nat
  <2>1. d \in Nat /\ G!FirstDay(read, b) \in Nat BY DaysAreNat, FirstDayOf
  <2>2. ASSUME NEW p \in G!PlanOf(d, G!FirstDay(read, b)) PROVE p \in Nat BY <2>1, PlanIs, IdsAre
  <2>3. read.of[d] \in Nat BY DEF G!Reads
  <2> QED BY <2>2, <2>3, MergedIs
<1>2. G!Merged(read, b) = [d \in G!Days |-> G!Merged(read, b)[d]] BY DEF G!Merged
<1> QED BY <1>1, <1>2

LEMMA StoreKeeps ==
  ASSUME G!Shapes, G!NoStalePlan, UNCHANGED rows,
         NEW read \in G!Reads, NEW b \in Seq(G!Ids), b # <<>>, G!Current(read), G!Store(read, b),
         refreshed' \subseteq G!Ids, \A s \in refreshed' : G!InTables(s),
         refreshed' = refreshed \/ (days.gen = read.gen /\ refreshed' = refreshed \union G!ToSet(b))
  PROVE  days' \in G!Reads /\ days'.gen >= days.gen /\ (days' # days => days'.gen > days.gen) /\ G!NoStalePlan'
<1> DEFINE first == G!FirstDay(read, b)
<1>1. days \in G!Reads /\ days.gen \in Nat BY DEF G!Shapes, G!Reads
<1>2. CASE days.gen # read.gen
  <2>1. UNCHANGED days /\ refreshed' = refreshed BY <1>2 DEF G!Store
  <2>2. G!NoStalePlan' BY <2>1 DEF G!NoStalePlan, G!InTables
  <2> QED BY <1>1, <2>1, <2>2
<1>3. CASE days.gen = read.gen
  <2>1. read = days BY <1>3 DEF G!Current
  <2>2. days' = [ok |-> TRUE, gen |-> days.gen + 1, of |-> G!Merged(read, b)] BY <1>3 DEF G!Store
  <2>3. days' \in G!Reads /\ days'.gen = days.gen + 1 /\ days'.of = G!Merged(read, b)
    <3> DEFINE of == G!Merged(read, b)
               D == G!Days
    <3>1. of \in [D -> Nat] BY MergedShape
    <3>2. days' = [ok |-> TRUE, gen |-> days.gen + 1, of |-> of] BY <2>2
    <3> HIDE DEF of, D
    <3>3. days' \in [ok : BOOLEAN, gen : Nat, of : [D -> Nat]] /\ days'.gen = days.gen + 1 /\ days'.of = of
      BY <1>1, <3>1, <3>2
    <3> QED BY <3>3 DEF G!Reads, of, D
  <2>4. ASSUME NEW d \in G!Days, days'.of[d] # 0
        PROVE  \E s \in G!Ids : /\ G!InTables(s) /\ G!Day(s[1]) <= d /\ s[2] = days'.of[d]
                                /\ \A t \in refreshed' : G!Day(t[1]) <= d => ~G!Newer(t, s)
    <3> DEFINE v == days'.of[d]
               plan == G!PlanOf(d, first)
    <3>1. d \in Nat /\ first \in Nat /\ \A t \in G!ToSet(b) : first <= G!Day(t[1]) BY DaysAreNat, FirstDayOf
    <3>2. v \in plan \/ (plan = {} /\ read.ok /\ v = read.of[d]) BY <2>3, <2>4, MergedIs
    <3>3. CASE v \in plan
      <4>1. PICK s \in G!Ids : /\ G!InTables(s) /\ G!Day(s[1]) <= d /\ s[2] = v
                               /\ \A t \in G!Ids : G!InTables(t) /\ G!Day(t[1]) <= d => ~G!Newer(t, s)
        BY <3>1, <3>3, PlanIs
      <4> QED BY <4>1
    <3>4. CASE plan = {} /\ read.ok /\ v = read.of[d]
      <4>1. days.ok /\ days.of[d] # 0 /\ v = days.of[d] BY <2>1, <2>4, <3>4
      <4>2. PICK s \in G!Ids : /\ G!InTables(s) /\ G!Day(s[1]) <= d /\ s[2] = v
                               /\ \A t \in refreshed : G!Day(t[1]) <= d => ~G!Newer(t, s)
        BY <4>1 DEF G!NoStalePlan
      <4>3. ASSUME NEW t \in refreshed', G!Day(t[1]) <= d PROVE ~G!Newer(t, s)
        <5>1. CASE t \in refreshed BY <4>2, <4>3, <5>1
        <5>2. CASE t \in G!ToSet(b)
          <6>1. t \in G!Ids /\ G!InTables(t) /\ G!Day(t[1]) \in Nat BY <4>3, IdsAre
          <6>2. G!Day(t[1]) \in first .. d BY <3>1, <4>3, <5>2, <6>1
          <6> QED BY <3>1, <3>4, <6>1, <6>2, NoPlan
        <5> QED BY <4>3, <5>1, <5>2
      <4> QED BY <4>2, <4>3
    <3> QED BY <3>2, <3>3, <3>4
  <2>5. G!NoStalePlan' BY <2>4 DEF G!NoStalePlan, G!InTables
  <2> QED BY <1>1, <2>3, <2>5
<1> QED BY <1>2, <1>3

--------------------------------------------------------------------------------
(* dag_gtfs_poll *)

LEMMA GtfsInitInv == G!Init => G!GtfsInv
<1> SUFFICES ASSUME G!Init PROVE G!GtfsInv OBVIOUS
<1> USE DEF G!Init, G!Idle, G!NoLoad, G!NoRead, G!None
<1>1. MaxHour \in Nat BY GtfsHolds DEF G!GtfsAssumption
<1>2. G!NoRead \in G!Reads BY DEF G!Reads
<1>3. G!Shapes BY <1>2 DEF G!Shapes
<1>4. G!TypeOK BY <1>1 DEF G!TypeOK, G!ToSet
<1>5. G!PollInv /\ G!JobsInv /\ G!ReadInv /\ G!RefreshedLoaded /\ G!NoStalePlan
  BY DEF G!PollInv, G!JobsInv, G!ReadInv, G!RefreshedLoaded, G!NoStalePlan
<1>6. G!LoadInv BY DEF G!LoadInv, G!ToSet
<1> QED BY <1>3, <1>4, <1>5, <1>6 DEF G!GtfsInv

\* What the poll does leaves alone what is known of the load.
LEMMA LoadStands ==
  ASSUME G!GtfsInv, UNCHANGED G!loadVars, snapshots \subseteq snapshots'
  PROVE  G!LoadInv' /\ G!JobsInv' /\ G!ReadInv' /\ G!NoStalePlan' /\ \A s \in refreshed' : G!InTables(s)'
<1> USE DEF G!GtfsInv, G!loadVars
<1>1. \A s : G!InTables(s)' <=> G!InTables(s) BY DEF G!InTables
<1>2. G!LoadInv' BY <1>1 DEF G!LoadInv, G!Snapshot
<1>3. G!JobsInv' BY DEF G!JobsInv
<1>4. G!ReadInv' BY DEF G!ReadInv, G!Current
<1>5. G!NoStalePlan' BY <1>1 DEF G!NoStalePlan
<1>6. \A s \in refreshed' : G!InTables(s)' BY <1>1 DEF G!RefreshedLoaded
<1> QED BY <1>2, <1>3, <1>4, <1>5, <1>6

LEMMA PollKeeps == ASSUME G!GtfsInv, G!PollStep \/ G!KillPoll PROVE G!GtfsInv'
<1> USE DEF G!GtfsInv
<1> DEFINE PollSide == G!TypeOK' /\ G!Shapes' /\ G!PollInv' /\ snapshots' \subseteq zips'
<1>0. MaxHour \in Nat /\ Hashes \subseteq Nat BY GtfsHolds DEF G!GtfsAssumption
<1>1. UNCHANGED G!loadVars /\ snapshots \subseteq snapshots' 
  BY DEF G!PollStep, G!StartPoll, G!Download, G!Compare, G!Upload, G!Insert, G!Emit, G!KillPoll, G!loadVars
<1>2. SUFFICES PollSide
  <2>1. G!LoadInv' /\ G!JobsInv' /\ G!ReadInv' /\ G!NoStalePlan' /\ \A s \in refreshed' : G!InTables(s)'
    BY <1>1, LoadStands
  <2> QED BY <2>1 DEF G!RefreshedLoaded
<1> USE DEF G!loadVars, G!bounds, G!Idle
<1>3. CASE G!StartPoll
  BY <1>0, <1>3, SMTT(30) DEF G!StartPoll, G!TypeOK, G!Shapes, G!PollInv, G!RefreshedLoaded
<1>4. CASE G!Download
  BY <1>0, <1>4 DEF G!Download, G!TypeOK, G!Shapes, G!PollInv, G!RefreshedLoaded
<1>5. CASE G!Compare
  <2>1. poll' = G!Idle \/ poll' = [poll EXCEPT !.step = "upload"] BY <1>5 DEF G!Compare
  <2>2. poll.step = "compare" /\ UNCHANGED <<hour, snapshots, zips, events, emitted>> BY <1>5 DEF G!Compare
  <2>3. G!TypeOK' BY <1>1, <2>1, <2>2 DEF G!TypeOK, G!Shapes
  <2>4. G!Shapes' BY <1>1, <2>1, <2>2, SMTT(30) DEF G!Shapes
  <2>5. G!PollInv' BY <2>1, <2>2, SMTT(30) DEF G!PollInv, G!Shapes
  <2> QED BY <2>2, <2>3, <2>4, <2>5 DEF G!RefreshedLoaded
<1>6. CASE G!Upload
  <2>1. poll' = [poll EXCEPT !.step = "insert"] /\ poll.step = "upload" /\ zips' = zips \union {G!Id}
        /\ UNCHANGED <<hour, snapshots, events, emitted>>
    BY <1>6 DEF G!Upload
  <2>2. G!Id \in G!Ids BY <1>0, <2>1 DEF G!PollInv, G!TypeOK, G!Id, G!Ids
  <2>3. G!TypeOK' BY <1>1, <2>1, <2>2 DEF G!TypeOK, G!Shapes
  <2>4. G!Shapes' BY <1>1, <2>1 DEF G!Shapes
  <2>5. G!PollInv' BY <2>1 DEF G!PollInv, G!Shapes, G!Id
  <2> QED BY <2>1, <2>3, <2>4, <2>5 DEF G!RefreshedLoaded
<1>7. CASE G!Insert
  BY <1>0, <1>7 DEF G!Insert, G!TypeOK, G!Shapes, G!PollInv, G!RefreshedLoaded, G!Id, G!Ids
<1>8. CASE G!Emit
  <2>1. poll' = G!Idle /\ poll.step = "return" /\ events' = Append(events, G!Id) /\ emitted' = emitted \union {G!Id}
        /\ UNCHANGED <<hour, snapshots, zips>>
    BY <1>8 DEF G!Emit
  <2>2. G!Id \in snapshots /\ G!Id \in G!Ids BY <2>1 DEF G!PollInv, G!TypeOK
  <2>3. events' \in Seq(G!Ids) BY <2>1, <2>2 DEF G!Shapes
  <2>4. G!ToSet(events') = G!ToSet(events) \union {G!Id} BY <2>1, <2>2, ListAppend DEF G!Shapes
  <2>5. G!TypeOK' BY <1>1, <2>1, <2>2, <2>4 DEF G!TypeOK
  <2>6. G!Shapes' BY <1>1, <2>1, <2>3 DEF G!Shapes
  <2>7. G!PollInv' BY <2>1 DEF G!PollInv
  <2> QED BY <2>1, <2>5, <2>6, <2>7 DEF G!RefreshedLoaded
<1>9. CASE G!KillPoll
  <2>1. poll' = G!Idle \/ poll' = [step |-> "download", hash |-> 0, try |-> poll.try + 1]
    BY <1>9 DEF G!KillPoll
  <2>2. poll.step # "idle" /\ UNCHANGED <<hour, snapshots, zips, events, emitted>> BY <1>9 DEF G!KillPoll
  <2>3. G!TypeOK' BY <1>0, <1>1, <2>1, <2>2 DEF G!TypeOK, G!Shapes
  <2>4. G!Shapes' BY <1>1, <2>1, <2>2 DEF G!Shapes
  <2>5. G!PollInv' BY <2>1, <2>2 DEF G!PollInv
  <2> QED BY <2>2, <2>3, <2>4, <2>5 DEF G!RefreshedLoaded
<1> QED BY <1>3, <1>4, <1>5, <1>6, <1>7, <1>8, <1>9 DEF G!PollStep

--------------------------------------------------------------------------------
(* dag_gtfs_load *)

Loads == [step : {"idle", "submit", "wait", "read", "write"}, batch : Seq(G!Ids), snap : Nat, table : Nat, try : Nat]

LEMMA TablesAre == Len(Tables) \in Nat \ {0} /\ DOMAIN Tables = 1 .. Len(Tables)
                   /\ G!ToSet(Tables) = {Tables[i] : i \in 1 .. Len(Tables)}
BY GtfsHolds DEF G!GtfsAssumption, G!ToSet

\* What the load does leaves alone what is known of the poll.
LEMMA PollStands ==
  ASSUME G!GtfsInv, UNCHANGED <<hour, poll, snapshots, zips>>
  PROVE  G!PollInv' /\ snapshots' \subseteq zips' /\ hour' \in 0 .. MaxHour
         /\ poll'.step \in {"idle", "download", "compare", "upload", "insert", "return"}
         /\ poll' \in [step : {"idle", "download", "compare", "upload", "insert", "return"}, hash : Nat, try : Nat]
BY DEF G!GtfsInv, G!PollInv, G!RefreshedLoaded, G!TypeOK, G!Shapes, G!Id

\* While no row is added and no refresh returns, what the tables and the days hold stands.
LEMMA TablesStand ==
  ASSUME G!GtfsInv, UNCHANGED rows
  PROVE  /\ \A s : G!InTables(s)' <=> G!InTables(s)
         /\ UNCHANGED jobs => G!JobsInv'
         /\ UNCHANGED refreshed => \A s \in refreshed' : G!InTables(s)'
         /\ UNCHANGED <<refreshed, days>> => G!NoStalePlan'
<1>1. \A s : G!InTables(s)' <=> G!InTables(s) BY DEF G!InTables
<1> QED BY <1>1 DEF G!GtfsInv, G!JobsInv, G!RefreshedLoaded, G!NoStalePlan

LEMMA FreshLoad ==
  ASSUME load'.step \in {"idle", "submit"}, load'.snap = 1, load'.table = 1, G!ToSet(load'.batch) \subseteq snapshots'
  PROVE  G!LoadInv'
BY DEF G!LoadInv

LEMMA LoadAgain ==
  ASSUME G!Shapes, NEW again \in Loads, load' = G!AgainOrFail(again)
  PROVE  load' \in Loads /\ (load' = G!NoLoad \/ load' = [again EXCEPT !.try = load.try + 1])
<1>1. G!NoLoad \in Loads BY DEF G!NoLoad, Loads
<1>2. load.try \in Nat BY DEF G!Shapes
<1>3. load' = G!NoLoad \/ load' = [again EXCEPT !.try = load.try + 1] BY DEF G!AgainOrFail
<1>4. [again EXCEPT !.try = load.try + 1] \in Loads BY <1>2 DEF Loads
<1> QED BY <1>1, <1>3, <1>4

LEMMA StartKeeps == ASSUME G!GtfsInv, G!StartLoad \/ G!StartManually PROVE G!GtfsInv'
<1> USE DEF G!GtfsInv
<1>1. UNCHANGED <<hour, poll, snapshots, zips, emitted, jobs, rows, days, held, zombie, refreshed>> /\ load.step = "idle"
  BY DEF G!StartLoad, G!StartManually, G!pollVars, G!Begin
<1>2. PICK b \in Seq(G!Ids) :
        /\ b # <<>> /\ G!ToSet(b) \subseteq snapshots
        /\ load' = [G!NoLoad EXCEPT !.step = "submit", !.batch = b]
        /\ events' \in Seq(G!Ids) /\ G!ToSet(events') \subseteq G!ToSet(events)
  <2>1. CASE G!StartLoad
    <3>1. PICK n \in 1 .. Len(events) : /\ load' = [G!NoLoad EXCEPT !.step = "submit", !.batch = SubSeq(events, 1, n)]
                                        /\ events' = SubSeq(events, n + 1, Len(events))
      BY <2>1 DEF G!StartLoad, G!Begin
    <3>2. events \in Seq(G!Ids) /\ G!ToSet(events) \subseteq snapshots BY DEF G!Shapes, G!TypeOK
    <3> DEFINE b == SubSeq(events, 1, n)
    <3>3. b \in Seq(G!Ids) /\ b # <<>> /\ G!ToSet(b) \subseteq G!ToSet(events) BY <3>2 DEF G!ToSet
    <3>4. events' \in Seq(G!Ids) /\ G!ToSet(events') \subseteq G!ToSet(events) BY <3>1, <3>2 DEF G!ToSet
    <3> QED BY <3>1, <3>2, <3>3, <3>4
  <2>2. CASE G!StartManually
    <3>1. PICK s \in snapshots : load' = [G!NoLoad EXCEPT !.step = "submit", !.batch = <<s>>] /\ UNCHANGED events
      BY <2>2 DEF G!StartManually, G!Begin
    <3>2. s \in G!Ids BY <3>1 DEF G!TypeOK
    <3>3. <<s>> \in Seq(G!Ids) /\ <<s>> # <<>> /\ G!ToSet(<<s>>) \subseteq snapshots BY <3>1, <3>2 DEF G!ToSet
    <3> QED BY <3>1, <3>3 DEF G!Shapes
  <2> QED BY <2>1, <2>2
<1>3. load' = [step |-> "submit", batch |-> b, snap |-> 1, table |-> 1, try |-> 1] BY <1>2 DEF G!NoLoad
<1>4. G!LoadInv'
  <2>1. load'.batch = b /\ load'.step = "submit" /\ load'.snap = 1 /\ load'.table = 1 BY <1>3
  <2>2. G!ToSet(load'.batch) \subseteq snapshots' BY <1>1, <1>2, <2>1
  <2> QED BY <2>1, <2>2, FreshLoad
<1>5. G!ReadInv' BY <1>1, <1>3 DEF G!ReadInv, G!Current
<1>6. 1 \in DOMAIN b /\ 1 \in DOMAIN Tables BY <1>2, TablesAre
<1>7. G!TypeOK'
  <2>1. G!ToSet(events') \subseteq emitted BY <1>2 DEF G!TypeOK
  <2> QED BY <1>1, <1>3, <1>6, <2>1, PollStands DEF G!TypeOK
<1>8. G!Shapes' BY <1>1, <1>2, <1>3 DEF G!Shapes
<1> QED BY <1>1, <1>4, <1>5, <1>7, <1>8, PollStands, TablesStand DEF G!RefreshedLoaded

LEMMA SubmitKeeps == ASSUME G!GtfsInv, G!Submit PROVE G!GtfsInv'
<1> USE DEF G!GtfsInv
<1>1. UNCHANGED <<hour, poll, snapshots, zips, events, emitted, rows, days, held, zombie, refreshed>> /\ load.step = "submit"
  BY DEF G!Submit, G!pollVars
<1>2. jobs' = [jobs EXCEPT ![G!Job] = IF @ = "none" THEN "running" ELSE @] BY DEF G!Submit
<1>3. load \in Loads /\ load' = [load EXCEPT !.step = "wait"] BY DEF G!Submit, G!Shapes, Loads
<1>4. load' \in Loads /\ load'.step = "wait" /\ load'.batch = load.batch /\ load'.snap = load.snap /\ load'.table = load.table
  BY <1>3 DEF Loads
<1>5. jobs' \in [G!JobNames -> {"none", "running", "done", "error"}]
      /\ \A j \in G!JobNames : jobs'[j] = jobs[j] \/ (jobs[j] = "none" /\ jobs'[j] = "running")
  BY <1>2 DEF G!Shapes
<1>6. G!JobsInv' BY <1>1, <1>5 DEF G!JobsInv
<1>7. G!LoadInv' BY <1>1, <1>4, TablesStand DEF G!LoadInv, G!Snapshot
<1>8. G!ReadInv' BY <1>1, <1>4 DEF G!ReadInv, G!Current
<1>9. G!TypeOK' BY <1>1, <1>4, <1>5, PollStands DEF G!TypeOK
<1>10. G!Shapes' BY <1>1, <1>4, <1>5 DEF G!Shapes, Loads
<1> QED BY <1>1, <1>6, <1>7, <1>8, <1>9, <1>10, PollStands, TablesStand DEF G!RefreshedLoaded

LEMMA JobEndsKeeps == ASSUME G!GtfsInv, G!JobEnds PROVE G!GtfsInv'
<1> USE DEF G!GtfsInv
<1>1. UNCHANGED <<hour, poll, snapshots, zips, events, emitted, load, days, held, zombie, refreshed>>
  BY DEF G!JobEnds, G!pollVars
<1>2. PICK j \in G!JobNames :
        /\ jobs[j] = "running"
        /\ \/ jobs' = [jobs EXCEPT ![j] = "done"] /\ rows' = [rows EXCEPT ![j] = @ + 1]
           \/ jobs' = [jobs EXCEPT ![j] = "error"] /\ UNCHANGED rows
  BY DEF G!JobEnds
<1>3. /\ jobs' \in [G!JobNames -> {"none", "running", "done", "error"}]
      /\ rows' \in [G!JobNames -> Nat]
      /\ \A i \in G!JobNames : rows'[i] >= rows[i]
  <2>1. jobs \in [G!JobNames -> {"none", "running", "done", "error"}] /\ rows \in [G!JobNames -> Nat] BY DEF G!Shapes
  <2>2. CASE jobs' = [jobs EXCEPT ![j] = "done"] /\ rows' = [rows EXCEPT ![j] = @ + 1] BY <2>1, <2>2
  <2>3. CASE jobs' = [jobs EXCEPT ![j] = "error"] /\ UNCHANGED rows BY <2>1, <2>3
  <2> QED BY <1>2, <2>2, <2>3
<1>4. G!JobsInv' BY <1>2, <1>3, SMTT(30) DEF G!JobsInv, G!Shapes
<1>5. \A s \in G!Ids : G!InTables(s) => G!InTables(s)' BY <1>3, RowsGrow
<1>6. load \in Loads /\ snapshots \subseteq G!Ids /\ refreshed \subseteq G!Ids BY DEF G!Shapes, Loads, G!TypeOK
<1>7. G!LoadInv'
  <2>1. G!ToSet(load.batch) \subseteq G!Ids BY <1>6 DEF G!LoadInv
  <2>2. load'.step \in {"read", "write"} => load'.batch # <<>> /\ \A s \in G!ToSet(load'.batch) : G!InTables(s)'
    BY <1>1, <1>5, <2>1 DEF G!LoadInv
  <2>3. ASSUME load'.step \in {"submit", "wait"}
        PROVE  /\ \A i \in 1 .. load'.snap - 1 : G!InTables(load.batch[i])'
               /\ \A k \in 1 .. load'.table - 1 : rows'[<<G!Snapshot', Tables[k]>>] > 0
    <3>1. load.snap \in 1 .. Len(load.batch) /\ load.table \in 1 .. Len(Tables)
      BY <1>1, <1>6, <2>3, TablesAre DEF G!TypeOK, Loads
    <3>2. \A i \in 1 .. load.snap : load.batch[i] \in G!Ids BY <1>6, <3>1 DEF Loads
    <3>3. ASSUME NEW i \in 1 .. load'.snap - 1 PROVE G!InTables(load.batch[i])'
      <4>1. i \in 1 .. load.snap - 1 /\ i \in 1 .. load.snap /\ load'.batch = load.batch BY <1>1, <3>1, <3>3
      <4>2. load.batch[i] \in G!Ids /\ G!InTables(load.batch[i]) BY <1>1, <2>3, <3>2, <4>1 DEF G!LoadInv
      <4> QED BY <1>5, <4>1, <4>2
    <3>4. ASSUME NEW k \in 1 .. load'.table - 1 PROVE rows'[<<G!Snapshot', Tables[k]>>] > 0
      <4>1. k \in 1 .. load.table - 1 /\ k \in 1 .. Len(Tables) /\ G!Snapshot' = G!Snapshot
        BY <1>1, <3>1, <3>4, TablesAre DEF G!Snapshot
      <4>2. rows[<<G!Snapshot, Tables[k]>>] > 0 BY <1>1, <2>3, <4>1 DEF G!LoadInv
      <4>3. G!Snapshot \in G!Ids BY <3>1, <3>2 DEF G!Snapshot
      <4>4. <<G!Snapshot, Tables[k]>> \in G!JobNames BY <4>1, <4>3, TablesAre, IdsAre
      <4>5. rows[<<G!Snapshot, Tables[k]>>] \in Nat /\ rows'[<<G!Snapshot, Tables[k]>>] \in Nat
            /\ rows'[<<G!Snapshot, Tables[k]>>] >= rows[<<G!Snapshot, Tables[k]>>]
        BY <1>3, <4>4 DEF G!Shapes
      <4> QED BY <4>1, <4>2, <4>5
    <3> QED BY <3>3, <3>4
  <2>4. G!ToSet(load'.batch) \subseteq snapshots' BY <1>1 DEF G!LoadInv
  <2> QED BY <2>2, <2>3, <2>4 DEF G!LoadInv
<1>8. G!ReadInv' BY <1>1 DEF G!ReadInv, G!Current
<1>9. G!TypeOK' BY <1>1, <1>3, PollStands DEF G!TypeOK
<1>10. G!Shapes' BY <1>1, <1>3 DEF G!Shapes
<1>11. G!NoStalePlan' BY <1>1, <1>5 DEF G!NoStalePlan
<1>12. \A s \in refreshed' : G!InTables(s)' BY <1>1, <1>5, <1>6 DEF G!RefreshedLoaded
<1> QED BY <1>4, <1>7, <1>8, <1>9, <1>10, <1>11, <1>12, PollStands, <1>1 DEF G!RefreshedLoaded

\* What a finished job leaves behind it: its table is done, and after the last table
\* its snapshot.
LEMMA LoadedKeeps == ASSUME G!GtfsInv, G!Loaded PROVE G!GtfsInv'
<1> USE DEF G!GtfsInv
<1>1. UNCHANGED <<hour, poll, snapshots, zips, events, emitted, jobs, rows, days, held, zombie, refreshed>>
      /\ load.step = "wait" /\ jobs[G!Job] = "done"
  BY DEF G!Loaded, G!pollVars
<1>2. load \in Loads /\ load.snap \in 1 .. Len(load.batch) /\ load.table \in 1 .. Len(Tables)
      /\ load.batch \in Seq(G!Ids) /\ G!ToSet(load.batch) \subseteq snapshots
  BY <1>1, TablesAre DEF G!Shapes, Loads, G!TypeOK, G!LoadInv
<1>3. /\ \A i \in 1 .. load.snap - 1 : G!InTables(load.batch[i])
      /\ \A k \in 1 .. load.table : rows[<<G!Snapshot, Tables[k]>>] > 0
  <2>1. G!Snapshot \in G!Ids BY <1>2 DEF G!Snapshot
  <2>2. G!Job \in G!JobNames BY <1>2, <2>1, TablesAre, IdsAre DEF G!Job
  <2>3. rows[G!Job] > 0 BY <1>1, <2>2 DEF G!JobsInv
  <2>4. ASSUME NEW k \in 1 .. load.table PROVE rows[<<G!Snapshot, Tables[k]>>] > 0
    <3>1. CASE k = load.table BY <2>3, <3>1 DEF G!Job
    <3>2. CASE k # load.table
      <4>1. k \in 1 .. load.table - 1 BY <1>2, <3>2
      <4> QED BY <1>1, <4>1 DEF G!LoadInv
    <3> QED BY <3>1, <3>2
  <2> QED BY <1>1, <2>4 DEF G!LoadInv
<1>4. load.table = Len(Tables) => G!InTables(G!Snapshot) BY <1>3, TablesAre DEF G!InTables
<1>5. load' \in Loads /\ load'.batch = load.batch /\ load'.step # "write" /\ G!LoadInv'
      /\ (load'.step # "idle" => load'.snap \in DOMAIN load'.batch /\ load'.table \in DOMAIN Tables)
  <2>0. DOMAIN load.batch = 1 .. Len(load.batch) /\ DOMAIN Tables = 1 .. Len(Tables) BY <1>2, TablesAre
  <2>1. CASE load.table < Len(Tables)
    <3>1. load' = [step |-> "submit", batch |-> load.batch, snap |-> load.snap, table |-> load.table + 1, try |-> load.try]
      BY <1>2, <2>1 DEF G!Loaded, Loads
    <3>2. load' \in Loads /\ load'.step = "submit" /\ load'.batch = load.batch /\ load'.snap = load.snap
          /\ load'.table = load.table + 1
      BY <1>2, <3>1 DEF Loads
    <3>3. G!Snapshot' = G!Snapshot BY <3>2 DEF G!Snapshot
    <3>4. 1 .. load'.table - 1 = 1 .. load.table BY <1>2, <3>2
    <3>5. G!LoadInv' BY <1>1, <1>2, <1>3, <3>2, <3>3, <3>4, TablesStand DEF G!LoadInv
    <3>6. load'.table \in 1 .. Len(Tables) BY <1>2, <2>1, <3>2, TablesAre
    <3> QED BY <1>2, <2>0, <3>2, <3>5, <3>6
  <2>2. CASE ~(load.table < Len(Tables)) /\ load.snap < Len(load.batch)
    <3>1. load' = [step |-> "submit", batch |-> load.batch, snap |-> load.snap + 1, table |-> 1, try |-> load.try]
      BY <1>2, <2>2 DEF G!Loaded, Loads
    <3>2. load' \in Loads /\ load'.step = "submit" /\ load'.batch = load.batch /\ load'.snap = load.snap + 1
          /\ load'.table = 1
      BY <1>2, <3>1 DEF Loads
    <3>3. load.table = Len(Tables) BY <1>2, <2>2, TablesAre
    <3>4. ASSUME NEW i \in 1 .. load'.snap - 1 PROVE G!InTables(load.batch[i])
      <4>1. i = load.snap \/ i \in 1 .. load.snap - 1 BY <1>2, <3>2
      <4>2. i = load.snap => load.batch[i] = G!Snapshot BY DEF G!Snapshot
      <4> QED BY <1>3, <1>4, <3>3, <4>1, <4>2
    <3>5. G!LoadInv' BY <1>1, <1>2, <3>2, <3>4, TablesStand DEF G!LoadInv
    <3>6. load'.snap \in 1 .. Len(load.batch) /\ load'.table \in 1 .. Len(Tables) BY <1>2, <2>2, <3>2, TablesAre
    <3> QED BY <1>2, <2>0, <3>2, <3>5, <3>6
  <2>3. CASE ~(load.table < Len(Tables)) /\ ~(load.snap < Len(load.batch))
    <3>1. load' = [load EXCEPT !.step = "read", !.try = 1] BY <2>3 DEF G!Loaded
    <3>2. load' \in Loads /\ load'.step = "read" /\ load'.batch = load.batch /\ load'.snap = load.snap
          /\ load'.table = load.table
      BY <1>2, <3>1 DEF Loads
    <3>3. load.table = Len(Tables) /\ load.snap = Len(load.batch) BY <1>2, <2>3, TablesAre
    <3>4. ASSUME NEW s \in G!ToSet(load.batch) PROVE G!InTables(s)
      <4>1. PICK i \in 1 .. Len(load.batch) : s = load.batch[i] BY <1>2, ListOf
      <4>2. CASE i = load.snap BY <1>4, <3>3, <4>1, <4>2 DEF G!Snapshot
      <4>3. CASE i # load.snap
        <5>1. i \in 1 .. load.snap - 1 BY <1>2, <3>3, <4>3
        <5> QED BY <1>3, <4>1, <5>1
      <4> QED BY <4>2, <4>3
    <3>5. load.batch # <<>> BY <1>2
    <3>6. G!LoadInv' BY <1>1, <1>2, <3>2, <3>4, <3>5, TablesStand DEF G!LoadInv
    <3> QED BY <1>2, <2>0, <3>2, <3>6
  <2> QED BY <2>1, <2>2, <2>3
<1>6. G!ReadInv' BY <1>1, <1>5 DEF G!ReadInv, G!Current
<1>7. G!TypeOK' BY <1>1, <1>5, PollStands DEF G!TypeOK, Loads
<1>8. G!Shapes' BY <1>1, <1>5 DEF G!Shapes, Loads
<1> QED BY <1>1, <1>5, <1>6, <1>7, <1>8, PollStands, TablesStand DEF G!RefreshedLoaded

LEMMA LoadFailsKeeps == ASSUME G!GtfsInv, G!LoadFails PROVE G!GtfsInv'
<1> USE DEF G!GtfsInv
<1>1. UNCHANGED <<hour, poll, snapshots, zips, events, emitted, jobs, rows, days, held, zombie, refreshed>>
      /\ load.step = "wait" /\ load' = G!AgainOrFail(G!FirstStep)
  BY DEF G!LoadFails, G!pollVars
<1>2. load \in Loads /\ G!ToSet(load.batch) \subseteq snapshots /\ load.snap \in DOMAIN load.batch
  BY <1>1 DEF G!Shapes, Loads, G!LoadInv, G!TypeOK
<1>3. /\ load' \in Loads /\ load'.step \in {"idle", "submit"} /\ load'.snap = 1 /\ load'.table = 1
      /\ load'.batch \in {<<>>, load.batch} /\ (load'.step # "idle" => load'.batch = load.batch)
  <2>1. PICK f : f = G!FirstStep OBVIOUS
  <2>2. f \in Loads /\ f.step = "submit" /\ f.snap = 1 /\ f.table = 1 /\ f.batch = load.batch
    BY <1>2, <2>1 DEF G!FirstStep, Loads
  <2>3. load' \in Loads /\ (load' = G!NoLoad \/ load' = [G!FirstStep EXCEPT !.try = load.try + 1])
    BY <1>1, <2>1, <2>2, LoadAgain
  <2>4. load' = G!NoLoad \/ load' = [f EXCEPT !.try = load.try + 1] BY <2>1, <2>3
  <2> QED BY <2>2, <2>3, <2>4 DEF G!NoLoad, Loads
<1>4. 1 \in DOMAIN load.batch /\ 1 \in DOMAIN Tables BY <1>2, TablesAre DEF Loads
<1>5. G!ToSet(load'.batch) \subseteq snapshots' BY <1>1, <1>2, <1>3 DEF G!ToSet
<1>6. G!LoadInv' BY <1>3, <1>5, FreshLoad
<1>7. G!ReadInv' BY <1>1, <1>3 DEF G!ReadInv, G!Current
<1>8. G!TypeOK' BY <1>1, <1>3, <1>4, PollStands DEF G!TypeOK
<1>9. G!Shapes' BY <1>1, <1>3 DEF G!Shapes, Loads
<1> QED BY <1>1, <1>6, <1>7, <1>8, <1>9, PollStands, TablesStand DEF G!RefreshedLoaded

LEMMA ReadKeeps == ASSUME G!GtfsInv, G!ReadDays PROVE G!GtfsInv'
<1> USE DEF G!GtfsInv
<1>1. UNCHANGED <<hour, poll, snapshots, zips, events, emitted, jobs, rows, days, zombie, refreshed>>
      /\ load.step = "read" /\ held' = days
  BY DEF G!ReadDays, G!pollVars
<1>2. load \in Loads /\ days \in G!Reads BY DEF G!Shapes, Loads
<1>3. /\ load' \in Loads /\ load'.step = "write" /\ load'.batch = load.batch
      /\ load'.snap = load.snap /\ load'.table = load.table
  BY <1>2 DEF G!ReadDays, Loads
<1>4. G!LoadInv' BY <1>1, <1>3, TablesStand DEF G!LoadInv
<1>5. G!ReadInv' BY <1>1, <1>2 DEF G!ReadInv, G!Current, G!Reads
<1>6. G!TypeOK' BY <1>1, <1>3, PollStands DEF G!TypeOK
<1>7. G!Shapes' BY <1>1, <1>2, <1>3 DEF G!Shapes, Loads
<1> QED BY <1>1, <1>4, <1>5, <1>6, <1>7, PollStands, TablesStand DEF G!RefreshedLoaded

\* Whatever is known to be read stays current or becomes older when the days change.
LEMMA StaysCurrent ==
  ASSUME days \in G!Reads, days' \in G!Reads, days' = days \/ days'.gen > days.gen,
         NEW read \in G!Reads, G!Current(read)
  PROVE  read.gen <= days'.gen /\ (read.gen = days'.gen => read = days')
BY DEF G!Current, G!Reads

LEMMA WriteKeeps == ASSUME G!GtfsInv, G!WriteDays PROVE G!GtfsInv'
<1> USE DEF G!GtfsInv
<1>1. UNCHANGED <<hour, poll, snapshots, zips, events, emitted, jobs, rows, zombie>>
      /\ load.step = "write" /\ held' = G!NoRead /\ G!Store(held, load.batch)
  BY DEF G!WriteDays, G!pollVars
<1>2. /\ load \in Loads /\ load.batch \in Seq(G!Ids) /\ held \in G!Reads /\ days \in G!Reads
      /\ zombie.step = "write" => zombie.read \in G!Reads
  BY DEF G!Shapes, Loads
<1>3. /\ load.batch # <<>> /\ G!ToSet(load.batch) \subseteq snapshots /\ \A s \in G!ToSet(load.batch) : G!InTables(s)
      /\ G!Current(held)
  BY <1>1 DEF G!LoadInv, G!ReadInv
<1>4. refreshed' = refreshed \/ (days.gen = held.gen /\ refreshed' = refreshed \union G!ToSet(load.batch))
  BY DEF G!WriteDays
<1>5. snapshots \subseteq G!Ids /\ refreshed \subseteq snapshots BY DEF G!TypeOK
<1>6. refreshed' \subseteq snapshots' /\ \A s \in refreshed' : G!InTables(s)
  BY <1>1, <1>3, <1>4, <1>5 DEF G!RefreshedLoaded
<1>7. days' \in G!Reads /\ days'.gen >= days.gen /\ (days' # days => days'.gen > days.gen) /\ G!NoStalePlan'
  <2>1. UNCHANGED rows BY <1>1
  <2>2. refreshed' \subseteq G!Ids BY <1>1, <1>5, <1>6
  <2> QED BY <1>1, <1>2, <1>3, <1>4, <1>6, <2>1, <2>2, StoreKeeps
<1>8. \A s \in refreshed' : G!InTables(s)' BY <1>1, <1>6, TablesStand
<1>9. /\ load' \in Loads /\ load'.step \in {"idle", "read"}
      /\ load' = G!NoLoad \/ (load'.batch = load.batch /\ load'.snap = load.snap /\ load'.table = load.table)
  <2>1. CASE load' = G!NoLoad BY <2>1 DEF G!NoLoad, Loads
  <2>2. CASE load' = G!AgainOrFail([load EXCEPT !.step = "read"])
    <3>1. PICK f : f = [load EXCEPT !.step = "read"] OBVIOUS
    <3>2. f \in Loads /\ f.step = "read" /\ f.batch = load.batch /\ f.snap = load.snap /\ f.table = load.table
      BY <1>2, <3>1 DEF Loads
    <3>3. load' \in Loads /\ (load' = G!NoLoad \/ load' = [f EXCEPT !.try = load.try + 1])
      BY <2>2, <3>1, <3>2, LoadAgain
    <3> QED BY <3>2, <3>3 DEF G!NoLoad, Loads
  <2> QED BY <2>1, <2>2 DEF G!WriteDays
<1>10. G!LoadInv'
  <2>1. CASE load' = G!NoLoad BY <2>1 DEF G!NoLoad, G!LoadInv, G!ToSet
  <2>2. CASE load'.batch = load.batch BY <1>1, <1>3, <1>9, <2>2, TablesStand DEF G!LoadInv
  <2> QED BY <1>9, <2>1, <2>2
<1>11. G!ReadInv'
  <2>1. zombie.step = "write" => zombie.batch # <<>> /\ G!Current(zombie.read) BY DEF G!ReadInv
  <2>2. zombie.step = "write" => zombie.read.gen <= days'.gen /\ (zombie.read.gen = days'.gen => zombie.read = days')
    BY <1>2, <1>7, <2>1, StaysCurrent
  <2> QED BY <1>1, <1>9, <2>1, <2>2 DEF G!ReadInv, G!Current
<1>12. G!TypeOK' BY <1>1, <1>6, <1>9, PollStands DEF G!TypeOK, G!NoLoad
<1>13. G!NoRead \in G!Reads BY DEF G!NoRead, G!Reads
<1>14. G!Shapes' BY <1>1, <1>7, <1>9, <1>13 DEF G!Shapes, Loads
<1>15. G!JobsInv' BY <1>1, TablesStand
<1> QED BY <1>7, <1>8, <1>10, <1>11, <1>12, <1>14, <1>15, <1>1, PollStands DEF G!RefreshedLoaded

LEMMA SpoilKeeps == ASSUME G!GtfsInv, G!Spoil PROVE G!GtfsInv'
<1> USE DEF G!GtfsInv
<1>1. UNCHANGED <<hour, poll, snapshots, zips, events, emitted, load, jobs, rows, held, zombie, refreshed>>
  BY DEF G!Spoil, G!pollVars
<1>2. days \in G!Reads /\ held \in G!Reads /\ (zombie.step = "write" => zombie.read \in G!Reads) BY DEF G!Shapes
<1>3. days' \in G!Reads /\ ~days'.ok /\ days'.gen > days.gen
  <2>1. days' = [ok |-> FALSE, gen |-> days.gen + 1, of |-> days.of] BY <1>2 DEF G!Spoil, G!Reads
  <2> QED BY <1>2, <2>1 DEF G!Reads
<1>4. G!ReadInv'
  <2>1. load.step = "write" => held.gen <= days'.gen /\ (held.gen = days'.gen => held = days')
    BY <1>2, <1>3, StaysCurrent DEF G!ReadInv
  <2>2. zombie.step = "write" => zombie.read.gen <= days'.gen /\ (zombie.read.gen = days'.gen => zombie.read = days')
    BY <1>2, <1>3, StaysCurrent DEF G!ReadInv
  <2> QED BY <1>1, <2>1, <2>2 DEF G!ReadInv, G!Current
<1>5. G!NoStalePlan' BY <1>3 DEF G!NoStalePlan
<1>6. G!LoadInv' BY <1>1, TablesStand DEF G!LoadInv, G!Snapshot
<1>7. G!TypeOK' BY <1>1, PollStands DEF G!TypeOK
<1>8. G!Shapes' BY <1>1, <1>3 DEF G!Shapes
<1> QED BY <1>1, <1>4, <1>5, <1>6, <1>7, <1>8, PollStands, TablesStand DEF G!RefreshedLoaded

LEMMA KillLoadKeeps == ASSUME G!GtfsInv, G!KillLoad PROVE G!GtfsInv'
<1> USE DEF G!GtfsInv
<1>1. UNCHANGED <<hour, poll, snapshots, zips, events, emitted, jobs, rows, days, refreshed>>
      /\ load.step # "idle" /\ held' = G!NoRead
  BY DEF G!KillLoad, G!pollVars
<1>2. load \in Loads /\ held \in G!Reads /\ load.snap \in DOMAIN load.batch /\ load.table \in DOMAIN Tables
      /\ G!ToSet(load.batch) \subseteq snapshots
  BY <1>1 DEF G!Shapes, Loads, G!TypeOK, G!LoadInv
<1>3. 1 \in DOMAIN load.batch /\ 1 \in DOMAIN Tables BY <1>2, TablesAre DEF Loads
<1>4. /\ load' \in Loads /\ load'.step \in {"idle", "submit", "read"} /\ G!LoadInv'
      /\ load'.step # "idle" => load'.snap \in DOMAIN load'.batch /\ load'.table \in DOMAIN Tables
  <2>1. CASE load.step \in {"submit", "wait"}
    <3>1. load' = G!AgainOrFail(G!FirstStep) BY <2>1 DEF G!KillLoad
    <3>2. PICK f : f = G!FirstStep OBVIOUS
    <3>3. f \in Loads /\ f.step = "submit" /\ f.snap = 1 /\ f.table = 1 /\ f.batch = load.batch
      BY <1>2, <3>2 DEF G!FirstStep, Loads
    <3>4. load' \in Loads /\ (load' = G!NoLoad \/ load' = [f EXCEPT !.try = load.try + 1])
      BY <3>1, <3>2, <3>3, LoadAgain
    <3>5. /\ load'.step \in {"idle", "submit"} /\ load'.snap = 1 /\ load'.table = 1
          /\ load'.batch \in {<<>>, load.batch} /\ (load'.step # "idle" => load'.batch = load.batch)
      BY <3>3, <3>4 DEF G!NoLoad, Loads
    <3>6. G!ToSet(load'.batch) \subseteq snapshots' BY <1>1, <1>2, <3>5 DEF G!ToSet
    <3>7. G!LoadInv' BY <3>5, <3>6, FreshLoad
    <3> QED BY <1>3, <3>4, <3>5, <3>7
  <2>2. CASE load.step \in {"read", "write"}
    <3>1. load' = G!AgainOrFail([load EXCEPT !.step = "read"]) BY <2>2 DEF G!KillLoad
    <3>2. PICK f : f = [load EXCEPT !.step = "read"] OBVIOUS
    <3>3. f \in Loads /\ f.step = "read" /\ f.batch = load.batch /\ f.snap = load.snap /\ f.table = load.table
      BY <1>2, <3>2 DEF Loads
    <3>4. load' \in Loads /\ (load' = G!NoLoad \/ load' = [f EXCEPT !.try = load.try + 1])
      BY <3>1, <3>2, <3>3, LoadAgain
    <3>5. \/ load' = G!NoLoad
          \/ load'.step = "read" /\ load'.batch = load.batch /\ load'.snap = load.snap /\ load'.table = load.table
      BY <3>3, <3>4 DEF Loads
    <3>6. CASE load' = G!NoLoad BY <3>4, <3>6 DEF G!NoLoad, G!LoadInv, G!ToSet
    <3>7. CASE load'.step = "read" /\ load'.batch = load.batch /\ load'.snap = load.snap /\ load'.table = load.table
      BY <1>1, <1>2, <2>2, <3>4, <3>7, TablesStand DEF G!LoadInv
    <3> QED BY <3>5, <3>6, <3>7
  <2> QED BY <1>1, <1>2, <2>1, <2>2 DEF Loads
<1>5. /\ zombie' \in [step : {"none", "write"}, read : G!Reads, batch : Seq(G!Ids)]
      /\ zombie'.step = "write" => zombie'.batch # <<>> /\ G!Current(zombie'.read)
  <2>1. CASE zombie' = zombie BY <2>1 DEF G!Shapes, G!ReadInv
  <2>2. CASE zombie' = [step |-> "write", read |-> held, batch |-> load.batch] /\ load.step = "write"
    BY <1>2, <2>2 DEF Loads, G!ReadInv, G!LoadInv
  <2> QED BY <2>1, <2>2 DEF G!KillLoad
<1>6. G!ReadInv' BY <1>1, <1>4, <1>5 DEF G!ReadInv, G!Current
<1>7. G!NoRead \in G!Reads BY DEF G!NoRead, G!Reads
<1>8. G!Shapes' BY <1>1, <1>4, <1>5, <1>7 DEF G!Shapes, Loads
<1>9. G!TypeOK' BY <1>1, <1>4, PollStands DEF G!TypeOK
<1> QED BY <1>1, <1>4, <1>6, <1>8, <1>9, PollStands, TablesStand DEF G!RefreshedLoaded

LEMMA ZombieKeeps == ASSUME G!GtfsInv, G!ZombieWrites PROVE G!GtfsInv'
<1> USE DEF G!GtfsInv
<1>1. UNCHANGED <<hour, poll, snapshots, zips, events, emitted, load, jobs, rows, held, refreshed>>
      /\ zombie.step = "write" /\ zombie' = G!None /\ G!Store(zombie.read, zombie.batch)
  BY DEF G!ZombieWrites, G!pollVars
<1>2. /\ zombie.read \in G!Reads /\ zombie.batch \in Seq(G!Ids) /\ zombie.batch # <<>> /\ G!Current(zombie.read)
      /\ days \in G!Reads /\ held \in G!Reads
  BY <1>1 DEF G!Shapes, G!ReadInv
<1>3. refreshed' = refreshed /\ refreshed' \subseteq G!Ids /\ \A s \in refreshed' : G!InTables(s)
  BY <1>1 DEF G!TypeOK, G!RefreshedLoaded
<1>4. days' \in G!Reads /\ days'.gen >= days.gen /\ (days' # days => days'.gen > days.gen) /\ G!NoStalePlan'
  <2>1. UNCHANGED rows BY <1>1
  <2> QED BY <1>1, <1>2, <1>3, <2>1, StoreKeeps
<1>5. G!ReadInv'
  <2>1. load.step = "write" => held.gen <= days'.gen /\ (held.gen = days'.gen => held = days')
    BY <1>2, <1>4, StaysCurrent DEF G!ReadInv
  <2>2. zombie'.step # "write" BY <1>1 DEF G!None
  <2> QED BY <1>1, <2>1, <2>2 DEF G!ReadInv, G!Current
<1>6. zombie' \in [step : {"none", "write"}, read : G!Reads, batch : Seq(G!Ids)]
  BY <1>1 DEF G!None, G!NoRead, G!Reads
<1>7. G!Shapes' BY <1>1, <1>4, <1>6 DEF G!Shapes
<1>8. G!LoadInv' BY <1>1, TablesStand DEF G!LoadInv, G!Snapshot
<1>9. G!TypeOK' BY <1>1, PollStands DEF G!TypeOK
<1> QED BY <1>1, <1>4, <1>5, <1>7, <1>8, <1>9, PollStands, TablesStand DEF G!RefreshedLoaded

LEMMA GtfsStands == ASSUME G!GtfsInv, UNCHANGED gtfsVars PROVE G!GtfsInv'
BY DEF gtfsVars, G!GtfsInv, G!TypeOK, G!Shapes, G!PollInv, G!JobsInv, G!LoadInv, G!ReadInv, G!RefreshedLoaded,
       G!NoStalePlan, G!Id, G!Snapshot, G!InTables, G!Current

LEMMA GtfsStep == ASSUME G!GtfsInv, G!Next PROVE G!GtfsInv'
<1>1. CASE G!PollStep \/ G!KillPoll BY <1>1, PollKeeps
<1>2. CASE G!Done
  <2>1. UNCHANGED gtfsVars BY <1>2 DEF G!Done, G!vars, G!pollVars, G!loadVars, G!bounds, gtfsVars
  <2> QED BY <2>1, GtfsStands
<1> QED BY <1>1, <1>2, StartKeeps, SubmitKeeps, JobEndsKeeps, LoadedKeeps, LoadFailsKeeps, ReadKeeps, WriteKeeps,
           SpoilKeeps, KillLoadKeeps, ZombieKeeps DEF G!Next, G!LoadStep

LEMMA GtfsFinite == \A S : G!IsFiniteSet(S) <=> IsFiniteSet(S)
BY DEF G!IsFiniteSet, IsFiniteSet

LEMMA GtfsSize == \A S : G!Cardinality(S) = Cardinality(S)
BY DEF G!Cardinality, Cardinality, G!IsFiniteSet, IsFiniteSet

LEMMA LossReads ==
  /\ G!LossInv => /\ IsFiniteSet(snapshots) /\ kills \in Nat
                  /\ Cardinality(snapshots \ G!Announced) <= kills
  /\ (IsFiniteSet(snapshots) /\ kills \in Nat /\ Cardinality(snapshots \ G!Announced) <= kills) => G!LossInv
BY GtfsFinite, GtfsSize DEF G!LossInv, G!LostOnlyByKills

\* A step that leaves at most `more' further snapshots without an event, and counts as
\* many lost workers, keeps the bound.
LEMMA LossBounded ==
  ASSUME G!LossInv, NEW more, IsFiniteSet(more), kills' \in Nat, IsFiniteSet(snapshots'),
         (snapshots' \ G!Announced') \subseteq (snapshots \ G!Announced) \union more,
         kills' >= kills + Cardinality(more)
  PROVE  G!LossInv'
<1> DEFINE Lost == snapshots \ G!Announced
           Lost1 == snapshots' \ G!Announced'
<1>1. IsFiniteSet(Lost) /\ Cardinality(Lost) \in Nat /\ Cardinality(Lost) <= kills
  <2>1. IsFiniteSet(Lost) BY LossReads, FS_Subset
  <2> QED BY <2>1, LossReads, FS_CardinalityType
<1>2. IsFiniteSet(Lost \union more)
      /\ Cardinality(Lost \union more) = Cardinality(Lost) + Cardinality(more) - Cardinality(Lost \cap more)
  BY <1>1, FS_Union
<1>3. Cardinality(Lost \cap more) \in Nat /\ Cardinality(more) \in Nat
  <2>1. IsFiniteSet(Lost \cap more) BY FS_Intersection, <1>1
  <2> QED BY <2>1, FS_CardinalityType
<1>4. Cardinality(Lost1) <= Cardinality(Lost \union more)
  <2>1. Lost1 \subseteq Lost \union more OBVIOUS
  <2> QED BY <1>2, <2>1, FS_Subset
<1>5. Cardinality(Lost1) \in Nat
  <2>1. IsFiniteSet(Lost1) BY FS_Subset
  <2> QED BY <2>1, FS_CardinalityType
<1>6. kills \in Nat BY LossReads
<1>7. Cardinality(Lost1) <= kills'
  <2> HIDE DEF Lost, Lost1
  <2> QED BY <1>1, <1>2, <1>3, <1>4, <1>5, <1>6
<1>8. G!IsFiniteSet(snapshots') /\ G!Cardinality(snapshots' \ G!Announced') <= kills'
  BY <1>7, GtfsFinite, GtfsSize
<1> QED BY <1>8 DEF G!LossInv, G!LostOnlyByKills

LEMMA LossStep == ASSUME G!LossInv, G!Next \/ UNCHANGED gtfsVars PROVE G!LossInv'
<1>0. kills \in Nat /\ IsFiniteSet(snapshots) BY LossReads
<1>n. IsFiniteSet({}) /\ Cardinality({}) = 0 BY FS_EmptySet
<1>1. CASE G!KillPoll
  <2>1. snapshots \ G!Announced' \subseteq (snapshots \ G!Announced) \union {G!Id} /\ kills' = kills + 1
        /\ snapshots' = snapshots
    BY <1>1 DEF G!KillPoll, G!Announced
  <2>2. IsFiniteSet({G!Id}) /\ Cardinality({G!Id}) = 1 BY FS_Singleton
  <2> QED BY <1>0, <2>1, <2>2, LossBounded
<1>2. CASE G!Insert
  <2>1. snapshots' = snapshots \union {G!Id} /\ UNCHANGED <<hour, emitted, kills>>
        /\ poll.step = "insert" /\ poll' = [poll EXCEPT !.step = "return"]
    BY <1>2 DEF G!Insert, G!bounds
  <2>2. IsFiniteSet(snapshots') BY <1>0, <2>1, FS_AddElement
  <2>3. G!Announced \subseteq G!Announced' BY <2>1 DEF G!Announced
  <2>4. G!Id \in G!Announced' BY <2>1 DEF G!Announced, G!Id
  <2> QED BY <1>0, <1>n, <2>1, <2>2, <2>3, <2>4, LossBounded
<1>3. CASE (G!Next /\ ~G!KillPoll /\ ~G!Insert) \/ UNCHANGED gtfsVars
  <2>1. snapshots' = snapshots /\ kills' \in {kills, kills + 1} /\ G!Announced \subseteq G!Announced'
    <3>1. CASE G!StartPoll \/ G!Download \/ G!Compare \/ G!Upload \/ G!Emit
      BY <3>1 DEF G!StartPoll, G!Download, G!Compare, G!Upload, G!Emit, G!Announced, G!bounds, G!Id
    <3>2. CASE G!LoadStep \/ G!Done \/ G!StartManually \/ G!Spoil \/ G!KillLoad \/ G!ZombieWrites
               \/ UNCHANGED gtfsVars
      <4>1. UNCHANGED <<hour, poll, snapshots, emitted>> /\ kills' \in {kills, kills + 1}
        BY <3>2 DEF G!LoadStep, G!StartLoad, G!Submit, G!JobEnds, G!Loaded, G!LoadFails, G!ReadDays, G!WriteDays,
                    G!Done, G!StartManually, G!Spoil, G!KillLoad, G!ZombieWrites, G!pollVars, G!bounds, G!vars,
                    gtfsVars
      <4> QED BY <4>1 DEF G!Announced, G!Id
    <3> QED BY <1>3, <3>1, <3>2 DEF G!Next, G!PollStep
  <2> QED BY <1>0, <1>n, <2>1, LossBounded
<1> QED BY <1>1, <1>2, <1>3

\* In every behaviour a snapshot's rows are in a table at most once, every snapshot that a
\* refresh has returned for is in every table, and no stored schedule date goes back to
\* an older plan, whatever was killed, retried, loaded by hand or written by a process
\* that outlived its attempt; and no more recorded snapshots lack their event than workers
\* were lost.
THEOREM LoadedSafely == HostSpec => []GtfsSound
<1>1. HostInit => G!GtfsInv /\ G!LossInv
  <2>1. ASSUME G!Init PROVE G!LossInv
    <3>1. snapshots \ G!Announced = {} /\ snapshots = {} /\ kills = 0 BY <2>1 DEF G!Init
    <3> QED BY <3>1, FS_EmptySet, LossReads
  <2> QED BY <2>1, GtfsInitInv DEF HostInit
<1>2. G!GtfsInv /\ G!LossInv /\ [HostNext]_<<which, gtfsVars, vars>> => G!GtfsInv' /\ G!LossInv'
  <2> SUFFICES ASSUME G!GtfsInv, G!LossInv, [HostNext]_<<which, gtfsVars, vars>>
               PROVE  G!GtfsInv' /\ G!LossInv'
    OBVIOUS
  <2>1. G!Next \/ UNCHANGED gtfsVars BY DEF HostNext
  <2> QED BY <2>1, GtfsStep, GtfsStands, LossStep
<1>3. G!GtfsInv /\ G!LossInv => GtfsSound
  BY DEF G!GtfsInv, G!LossInv, GtfsSound, G!JobsInv, G!LoadedOnce
<1> QED BY <1>1, <1>2, <1>3, PTL DEF HostSpec
================================================================================
