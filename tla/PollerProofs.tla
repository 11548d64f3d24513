---------------------------- MODULE PollerProofs ----------------------------
(* Machine-checked theorems about Poller, for every set of pings, every       *)
(* number of vehicle types, every cap, lag and interval, and any number of    *)
(* failures.                                                                  *)
EXTENDS Poller, TLAPS, FiniteSetTheorems, WellFoundedInduction

(* The constants that bound the clock and the flushes are natural numbers.      *)
LEMMA ConstantTypes ==
  /\ FlushInterval \in Nat /\ FlushLag \in Nat /\ MaxAge \in Nat
  /\ MaxClock \in Nat /\ MaxDeaths \in Nat
  /\ ShiftAt \in Int /\ ShiftBy \in Int
  /\ ModeCount \in Nat /\ ModeCount >= 1
  BY PollerAssumption DEF PollerAssumption

(* The empty buffer is a bag of pings.                                          *)
LEMMA NoRowsType == NoRows \in Bag
  BY DEF NoRows, Bag

(* What a flush takes of a slot and what it leaves are bags of pings.           *)
LEMMA BatchTypes ==
  ASSUME TypeOK, NEW s
  PROVE  BatchOf(s) \in Bag /\ Remaining(BatchOf(s)) \in Bag
<1>1. BatchOf(s) \in Bag
  BY DEF BatchOf, Bag, TypeOK
<1>2. \A r \in Pings : buffers[r] - BatchOf(s)[r] \in Nat
  BY DEF BatchOf, Bag, TypeOK
<1> QED BY <1>1, <1>2 DEF Remaining, Bag

(* Leaving the loop or the process gives its variables values of their types. *)
LEMMA ForgetTypes ==
  ASSUME ForgetLoop
  PROVE  /\ mode' \in Modes /\ accepted' \in BOOLEAN
         /\ sinceFlush' \in 0 .. FlushInterval /\ cutoff' \in Int
         /\ todo' \subseteq Slots /\ flushOk' \in BOOLEAN
<1>1. mode' \in Modes /\ sinceFlush' \in 0 .. FlushInterval /\ cutoff' \in Int
  BY ConstantTypes DEF ForgetLoop, Modes
<1>2. accepted' \in BOOLEAN /\ todo' \subseteq Slots /\ flushOk' \in BOOLEAN
  BY DEF ForgetLoop
<1> QED BY <1>1, <1>2

(* An exception leads to a well-typed state of the same process or to its end.  *)
LEMMA RaiseTypes ==
  ASSUME TypeOK, Raise
  PROVE  /\ pc' \in PCs /\ stopping' \in BOOLEAN
         /\ mode' \in Modes /\ accepted' \in BOOLEAN
         /\ sinceFlush' \in 0 .. FlushInterval /\ cutoff' \in Int
         /\ todo' \subseteq Slots /\ flushOk' \in BOOLEAN
         /\ exit' \in {"ok", "failed", "raised", "killed"}
         /\ buffers' \in Bag
<1>1. CASE pc \in {"stopFlush", "stopSave"}
  BY <1>1, ForgetTypes, NoRowsType DEF Raise, Die, PCs
<1>2. CASE pc \notin {"stopFlush", "stopSave"}
  BY <1>2, ForgetTypes DEF Raise, RaiseFromLoop, LeaveLoop, TypeOK, PCs
<1> QED BY <1>1, <1>2

(* The count of deaths stays within its bound.                                  *)
LEMMA MisfortuneTypes ==
  ASSUME TypeOK, Misfortune PROVE deaths' \in 0 .. MaxDeaths
  BY ConstantTypes DEF TypeOK, Misfortune

(* The loop goes on with a well-typed vehicle type.                             *)
LEMMA NextVehicleTypes ==
  ASSUME TypeOK, NextVehicleType PROVE pc' \in PCs /\ mode' \in Modes
  BY ConstantTypes DEF TypeOK, NextVehicleType, PCs, Modes

(* The initial state is well typed.                                             *)
LEMMA TypeInit == Init => TypeOK
<1> SUFFICES ASSUME Init PROVE TypeOK
  OBVIOUS
<1> USE ConstantTypes DEF Init
<1>1. pc \in PCs /\ mode \in Modes
  BY DEF PCs, Modes
<1>2. buffers \in Bag /\ spool \in Bag /\ parts \subseteq Bag
  BY NoRowsType
<1>3. deaths \in 0 .. MaxDeaths /\ sinceFlush \in 0 .. FlushInterval
  OBVIOUS
<1>4. cutoff \in Int /\ clock \in Nat
  OBVIOUS
<1> QED BY <1>1, <1>2, <1>3, <1>4 DEF TypeOK

(* Every step keeps the state well typed.                                       *)
LEMMA TypeStep == TypeOK /\ [Next]_vars => TypeOK'
<1> SUFFICES ASSUME TypeOK, [Next]_vars PROVE TypeOK'
  OBVIOUS
<1>1. CASE UNCHANGED vars
  BY <1>1 DEF vars, memory, durable, TypeOK
<1>2. CASE Next
  <2>1. CASE Start
    BY <2>1, ConstantTypes DEF Start, LoadedSpool, TypeOK, PCs, durable
  <2>2. CASE StartRaises
    BY <2>2, ForgetTypes, MisfortuneTypes DEF StartRaises, LoadedSpool, LeaveLoop, TypeOK, PCs, durable
  <2>3. CASE LoopTop
    BY <2>3, ForgetTypes DEF LoopTop, LeaveLoop, TypeOK, PCs, durable
  <2>4. CASE Poll
    <3>1. CASE PollFails
      BY <3>1 DEF PollFails, TypeOK, PCs, durable
    <3>2. CASE \E answer \in SUBSET Pings : PollSucceeds(answer)
      <4>1. buffers' \in Bag
        BY <3>2 DEF PollSucceeds, TypeOK, Bag
      <4> QED BY <3>2, <4>1 DEF PollSucceeds, TypeOK, PCs, durable
    <3> QED BY <2>4, <3>1, <3>2 DEF Poll
  <2>5. CASE Record
    BY <2>5, NextVehicleTypes DEF Record, TypeOK, PCs, durable
  <2>6. CASE HealthRaises
    BY <2>6, ForgetTypes, MisfortuneTypes DEF HealthRaises, RaiseFromLoop, LeaveLoop, TypeOK, PCs, durable
  <2>7. CASE SaveSpool
    <3>1. CASE pc = "save" /\ NextVehicleType /\ UNCHANGED <<sinceFlush, flushOk>>
      BY <2>7, <3>1, NextVehicleTypes DEF SaveSpool, TypeOK
    <3>2. CASE pc = "flushSave" /\ pc' = "beat" /\ mode' = mode /\ flushOk' = TRUE
               /\ sinceFlush' = IF flushOk THEN 0 ELSE sinceFlush
      <4>1. sinceFlush' \in 0 .. FlushInterval
        BY <3>2, ConstantTypes DEF TypeOK
      <4> QED BY <2>7, <3>2, <4>1 DEF SaveSpool, TypeOK, PCs
    <3> QED BY <2>7, <3>1, <3>2 DEF SaveSpool, AfterSave
  <2>8. CASE SaveSpoolAndExit
    BY <2>8, ForgetTypes, NoRowsType DEF SaveSpoolAndExit, ExitStatus, Die, TypeOK, PCs
  <2>9. CASE SaveSpoolTooBig
    BY <2>9, RaiseTypes DEF SaveSpoolTooBig, TypeOK, durable
  <2>10. CASE SaveSpoolRaises
    BY <2>10, RaiseTypes, MisfortuneTypes DEF SaveSpoolRaises, TypeOK, durable
  <2>11. CASE FlushDecision
    <3>1. BufferedSlots \subseteq Slots
      BY DEF BufferedSlots, Slots, RowsOf
    <3>2. Warsaw(clock) - FlushLag \in Int
      BY ConstantTypes DEF TypeOK, Warsaw
    <3> QED BY <2>11, <3>1, <3>2 DEF FlushDecision, TypeOK, PCs, durable
  <2>12. CASE Flush
    <3>1. CASE SkipHour
      BY <3>1 DEF SkipHour, Visit, TypeOK, durable
    <3>2. CASE FlushEnds
      BY <3>2 DEF FlushEnds, TypeOK, PCs, memory, durable
    <3>3. CASE \E s \in todo : UploadHour(s)
      BY <3>3, BatchTypes DEF UploadHour, Visit, TypeOK
    <3>4. CASE \E applied \in BOOLEAN : UploadHourFails(applied)
      BY <3>4, BatchTypes DEF UploadHourFails, Visit, TypeOK
    <3>5. CASE \E applied \in BOOLEAN : UploadHourRaises(applied)
      <4>1. parts' \subseteq Bag
        BY <3>5, BatchTypes DEF UploadHourRaises, TypeOK
      <4> QED BY <3>5, <4>1, RaiseTypes, MisfortuneTypes DEF UploadHourRaises, TypeOK
    <3> QED BY <2>12, <3>1, <3>2, <3>3, <3>4, <3>5 DEF Flush
  <2>13. CASE Heartbeat
    BY <2>13 DEF Heartbeat, TypeOK, PCs, memory, durable
  <2>14. CASE WakeUp
    BY <2>14, ConstantTypes DEF WakeUp, Capped, TypeOK, PCs, durable
  <2>15. CASE FlushHealthShutdown
    <3>1. BufferedSlots \subseteq Slots
      BY DEF BufferedSlots, Slots, RowsOf
    <3> QED BY <2>15, <3>1 DEF FlushHealthShutdown, ShutdownFlushBegins, TypeOK, PCs, durable
  <2>16. CASE FlushHealthShutdownRaises
    <3>1. BufferedSlots \subseteq Slots
      BY DEF BufferedSlots, Slots, RowsOf
    <3> QED BY <2>16, <3>1, MisfortuneTypes
        DEF FlushHealthShutdownRaises, ShutdownFlushBegins, TypeOK, PCs, durable
  <2>17. CASE Signal
    BY <2>17 DEF Signal, TypeOK, durable
  <2>18. CASE Crash
    BY <2>18, ForgetTypes, NoRowsType, MisfortuneTypes DEF Crash, Die, TypeOK, PCs, durable
  <2>19. CASE Tick
    BY <2>19 DEF Tick, TypeOK, memory, durable
  <2> QED
    BY <1>2, <2>1, <2>2, <2>3, <2>4, <2>5, <2>6, <2>7, <2>8, <2>9, <2>10, <2>11, <2>12, <2>13, <2>14, <2>15, <2>16, <2>17, <2>18, <2>19 DEF Next
<1> QED BY <1>1, <1>2

(* Type correctness of every reachable state.                                 *)
THEOREM TypeCorrect == Spec => []TypeOK
<1> QED BY TypeInit, TypeStep, PTL DEF Spec

-----------------------------------------------------------------------------
(* What a step may do to durable storage: nothing, a snapshot of memory, or   *)
(* one new object that holds a batch of one partition.                        *)
LEMMA DurableStep ==
  ASSUME TypeOK, Next
  PROVE  \/ parts' = parts /\ spool' = spool
         \/ parts' = parts /\ Running /\ spool' = buffers
         \/ \E s \in Slots : parts' = parts \cup {BatchOf(s)} /\ spool' = spool
<1>1. CASE Flush
  <2>1. todo \subseteq Slots
    BY DEF TypeOK
  <2>2. CASE SkipHour \/ FlushEnds
    BY <2>2 DEF SkipHour, FlushEnds, durable
  <2>3. CASE \E s \in todo : UploadHour(s)
    BY <2>1, <2>3 DEF UploadHour
  <2>4. CASE \E applied \in BOOLEAN : UploadHourFails(applied)
    BY <2>1, <2>4 DEF UploadHourFails
  <2>5. CASE \E applied \in BOOLEAN : UploadHourRaises(applied)
    BY <2>1, <2>5 DEF UploadHourRaises
  <2> QED BY <1>1, <2>2, <2>3, <2>4, <2>5 DEF Flush
<1>2. CASE SaveSpool \/ SaveSpoolAndExit
  BY <1>2 DEF SaveSpool, SaveSpoolAndExit, Running
<1>3. CASE Start \/ StartRaises \/ LoopTop \/ Poll \/ Record \/ HealthRaises
  BY <1>3 DEF Start, LoadedSpool, StartRaises, LoopTop, Poll, PollFails, PollSucceeds, Record, HealthRaises, durable
<1>4. CASE SaveSpoolTooBig \/ SaveSpoolRaises \/ FlushDecision \/ Heartbeat \/ WakeUp
  BY <1>4 DEF SaveSpoolTooBig, SaveSpoolRaises, FlushDecision, Heartbeat, WakeUp, durable
<1>5. CASE FlushHealthShutdown \/ FlushHealthShutdownRaises \/ Signal \/ Crash \/ Tick
  BY <1>5 DEF FlushHealthShutdown, FlushHealthShutdownRaises, ShutdownFlushBegins,
              Signal, Crash, Tick, durable
<1> QED BY <1>1, <1>2, <1>3, <1>4, <1>5 DEF Next

(* No step removes a ping from the archive.                                     *)
LEMMA ArchiveGrows ==
  ASSUME TypeOK, Next PROVE Archived \subseteq Archived'
<1>1. parts \subseteq parts'
  BY DurableStep
<1> QED BY <1>1 DEF Archived, RowsOf

(* An upload moves the pings of its batch from memory to the archive.         *)
LEMMA UploadMoves ==
  ASSUME TypeOK, NEW s, UploadHour(s)
  PROVE  RowsOf(buffers) \subseteq RowsOf(buffers') \cup Archived'
<1> SUFFICES ASSUME NEW r \in Pings, buffers[r] > 0, r \notin Archived'
             PROVE  buffers'[r] > 0
  BY DEF RowsOf
<1>1. r \notin RowsOf(BatchOf(s))
  BY DEF UploadHour, Archived
<1>2. BatchOf(s)[r] \in {0, buffers[r]}
  BY DEF BatchOf
<1>3. BatchOf(s)[r] = 0
  BY <1>1, <1>2 DEF RowsOf
<1>4. buffers[r] \in Nat
  BY DEF TypeOK, Bag
<1> QED BY <1>3, <1>4 DEF UploadHour, Remaining

(* What a step may do to the memory of a process that goes on running.        *)
LEMMA MemoryStep ==
  ASSUME TypeOK, Next, Running'
  PROVE  IF Running THEN RowsOf(buffers) \subseteq RowsOf(buffers') \cup Archived'
                    ELSE buffers' = spool
<1>1. CASE buffers' = buffers /\ Running
  BY <1>1
<1>2. CASE Start \/ StartRaises
  BY <1>2 DEF Start, LoadedSpool, StartRaises, Running
<1>3. CASE Poll
  <2>1. CASE PollFails
    BY <2>1 DEF PollFails, Running
  <2>2. ASSUME NEW answer \in SUBSET Pings, PollSucceeds(answer)
        PROVE  RowsOf(buffers) \subseteq RowsOf(buffers') /\ Running
    BY <2>2 DEF PollSucceeds, RowsOf, TypeOK, Bag, Running
  <2> QED BY <1>3, <2>1, <2>2 DEF Poll
<1>4. CASE Flush
  <2>1. CASE SkipHour \/ FlushEnds
    BY <2>1 DEF SkipHour, FlushEnds, Running
  <2>2. CASE \E s \in todo : UploadHour(s)
    BY <2>2, UploadMoves DEF UploadHour, Running
  <2>3. CASE \E applied \in BOOLEAN : UploadHourFails(applied)
    BY <2>3 DEF UploadHourFails, Running
  <2>4. CASE \E applied \in BOOLEAN : UploadHourRaises(applied)
    BY <2>4 DEF UploadHourRaises, Raise, RaiseFromLoop, Die, Running
  <2> QED BY <1>4, <2>1, <2>2, <2>3, <2>4 DEF Flush
<1>5. CASE LoopTop \/ Record \/ HealthRaises \/ SaveSpool \/ SaveSpoolAndExit
  BY <1>5 DEF LoopTop, Record, HealthRaises, RaiseFromLoop, SaveSpool, SaveSpoolAndExit, Die, Running
<1>6. CASE SaveSpoolTooBig \/ SaveSpoolRaises \/ FlushDecision \/ Heartbeat \/ WakeUp
  BY <1>6 DEF SaveSpoolTooBig, SaveSpoolRaises, Raise, RaiseFromLoop, Die, FlushDecision,
              Heartbeat, WakeUp, Running
<1>7. CASE FlushHealthShutdown \/ FlushHealthShutdownRaises \/ Signal \/ Crash
  BY <1>7 DEF FlushHealthShutdown, FlushHealthShutdownRaises, ShutdownFlushBegins, Signal,
              Crash, Die, Running
<1>8. CASE Tick /\ Running
  BY <1>8 DEF Tick
<1>9. CASE Tick /\ ~Running
  BY <1>9 DEF Tick, Running
<1> QED BY <1>2, <1>3, <1>4, <1>5, <1>6, <1>7, <1>8, <1>9 DEF Next

(* Every step keeps SpoolBacked: a row leaves the buffers only when its object has *)
(* been created, and the spool only by a snapshot of the buffers.               *)
LEMMA SpoolBackedStep ==
  TypeOK /\ SpoolBacked /\ [Next]_vars => SpoolBacked'
<1>1. CASE UNCHANGED vars
  BY <1>1 DEF vars, durable, SpoolBacked, Running, RowsOf, Archived
<1>2. ASSUME TypeOK, SpoolBacked, Next, Running'
      PROVE  RowsOf(spool') \subseteq RowsOf(buffers') \cup Archived'
  <2>1. CASE spool' = spool /\ Running
    BY <1>2, <2>1, MemoryStep, ArchiveGrows DEF SpoolBacked
  <2>2. CASE spool' = spool /\ ~Running
    BY <1>2, <2>2, MemoryStep
  <2>3. CASE spool' = buffers /\ Running
    BY <1>2, <2>3, MemoryStep
  <2> QED BY <1>2, <2>1, <2>2, <2>3, DurableStep
<1>3. ASSUME TypeOK, SpoolBacked, Next PROVE SpoolBacked'
  BY <1>2, <1>3 DEF SpoolBacked, Running, RowsOf, Archived
<1> QED BY <1>1, <1>3

(* No snapshot can lose the only copy of a ping: a running process always has *)
(* in memory, or has archived, every ping of the spool file.                  *)
THEOREM SpoolAlwaysBacked == Spec => []SpoolBacked
<1>1. Init => SpoolBacked
  BY DEF Init, SpoolBacked, Running
<1> QED BY <1>1, TypeInit, TypeStep, SpoolBackedStep, PTL DEF Spec

-----------------------------------------------------------------------------
(* The refinement, one step at a time.                                        *)
LEMMA LedgerStep ==
  ASSUME TypeOK, SpoolBacked, [Next]_vars
  PROVE  [Ledger!LedgerNext]_LedgerView
<1>1. CASE parts' = parts /\ spool' = spool
  BY <1>1 DEF LedgerView, Archived, RowsOf
<1>2. ASSUME Next, parts' = parts, Running, spool' = buffers
      PROVE  Ledger!LedgerNext
  <2> DEFINE S == {r \in Pings : LedgerView[r] = "absent" /\ buffers[r] > 0}
  <2>1. Archived' = Archived
    BY <1>2 DEF Archived, RowsOf
  <2>2. \A r \in Pings : spool[r] > 0 /\ r \notin Archived => buffers[r] > 0
    BY <1>2 DEF SpoolBacked, RowsOf
  <2>3. \A r \in Pings : LedgerView'[r] = IF r \in S THEN "spooled" ELSE LedgerView[r]
    BY <1>2, <2>1, <2>2 DEF LedgerView
  <2>4. LedgerView' = [r \in Pings |-> IF r \in S THEN "spooled" ELSE LedgerView[r]]
    BY <2>3 DEF LedgerView
  <2>5. Ledger!Persist(S)
    BY <2>4 DEF Ledger!Persist
  <2> QED BY <2>5 DEF Ledger!LedgerNext
<1>3. ASSUME NEW s \in Slots, parts' = parts \cup {BatchOf(s)}, spool' = spool
      PROVE  Ledger!LedgerNext
  <2> DEFINE S == RowsOf(BatchOf(s)) \ Archived
  <2>1. Archived' = Archived \cup S
    BY <1>3 DEF Archived, RowsOf
  <2>2. \A r \in S : SlotOf(r) = s /\ LedgerView[r] # "archived"
    BY DEF RowsOf, BatchOf, LedgerView
  <2>3. LedgerView' = [r \in Pings |-> IF r \in S THEN "archived" ELSE LedgerView[r]]
    BY <1>3, <2>1 DEF LedgerView
  <2>4. S \in SUBSET Pings
    BY DEF RowsOf
  <2>5. Ledger!Archive(s, S)
    BY <2>2, <2>3 DEF Ledger!Archive
  <2> QED BY <2>4, <2>5 DEF Ledger!LedgerNext
<1>4. CASE UNCHANGED vars
  BY <1>1, <1>4 DEF vars, durable
<1> QED BY <1>1, <1>2, <1>3, <1>4, DurableStep

(* The poller implements the ledger: no failure, kill or restart moves a ping *)
(* back from the spool or the archive, and no object mixes partitions.        *)
THEOREM LedgerImplemented == Spec => LedgerRefined
<1>1. Init => Ledger!LedgerInit
  BY DEF Init, Ledger!LedgerInit, LedgerView, Archived, NoRows, RowsOf
<1>2. Init => TypeOK /\ SpoolBacked
  BY TypeInit DEF Init, SpoolBacked, Running
<1>3. TypeOK /\ SpoolBacked /\ [Next]_vars => [Ledger!LedgerNext]_LedgerView
  BY LedgerStep
<1> QED BY <1>1, <1>2, <1>3, TypeStep, SpoolBackedStep, PTL
        DEF Spec, LedgerRefined, Ledger!LedgerSpec

-----------------------------------------------------------------------------
(* A process ends by an exception or a kill, or by the orderly exit, whose    *)
(* last act is a snapshot of memory.                                          *)
LEMMA DeathStep ==
  ASSUME Next, Running, ~Running'
  PROVE  spool' = buffers \/ exit' \in {"raised", "killed"}
<1>1. CASE SaveSpoolAndExit \/ Crash
  BY <1>1 DEF SaveSpoolAndExit, ExitStatus, Crash, Die
<1>2. CASE SaveSpoolTooBig \/ SaveSpoolRaises
  BY <1>2 DEF SaveSpoolTooBig, SaveSpoolRaises, Raise, RaiseFromLoop, Die
<1>3. CASE Flush
  BY <1>3 DEF Flush, SkipHour, UploadHour, UploadHourFails, UploadHourRaises, FlushEnds,
              Raise, RaiseFromLoop, Die, Running
<1>4. CASE Start \/ StartRaises \/ LoopTop \/ Poll \/ Record \/ HealthRaises
  BY <1>4 DEF Start, LoadedSpool, StartRaises, LoopTop, LeaveLoop, Poll, PollFails, PollSucceeds, Record,
              NextVehicleType, HealthRaises, RaiseFromLoop, Running
<1>5. CASE SaveSpool \/ FlushDecision \/ Heartbeat \/ WakeUp
  BY <1>5 DEF SaveSpool, AfterSave, NextVehicleType, FlushDecision, Heartbeat, WakeUp, Running
<1>6. CASE FlushHealthShutdown \/ FlushHealthShutdownRaises \/ Signal \/ Tick
  BY <1>6 DEF FlushHealthShutdown, FlushHealthShutdownRaises, ShutdownFlushBegins, Signal,
              Tick, Running
<1> QED BY <1>1, <1>2, <1>3, <1>4, <1>5, <1>6 DEF Next

(* No process means no memory.                                                *)
DownIsEmpty == ~Running => buffers = NoRows

(* A process that is not running holds no rows.                                 *)
LEMMA DownIsEmptyStep == DownIsEmpty /\ [Next]_vars => DownIsEmpty'
<1> SUFFICES ASSUME DownIsEmpty, [Next]_vars, ~Running' PROVE buffers' = NoRows
  BY DEF DownIsEmpty, NoRows, Running
<1>1. CASE UNCHANGED vars
  BY <1>1 DEF vars, DownIsEmpty, Running
<1>2. CASE SaveSpoolAndExit \/ Crash
  BY <1>2 DEF SaveSpoolAndExit, ExitStatus, Crash, Die
<1>3. CASE SaveSpoolTooBig \/ SaveSpoolRaises
  BY <1>3 DEF SaveSpoolTooBig, SaveSpoolRaises, Raise, RaiseFromLoop, LeaveLoop, Die, Running
<1>4. CASE Flush
  BY <1>4 DEF Flush, SkipHour, UploadHour, UploadHourFails, UploadHourRaises, FlushEnds,
              Raise, RaiseFromLoop, LeaveLoop, Die, Running
<1>5. CASE Start \/ StartRaises \/ LoopTop \/ Poll \/ Record \/ HealthRaises
  BY <1>5 DEF Start, LoadedSpool, StartRaises, LoopTop, LeaveLoop, Poll, PollFails, PollSucceeds, Record,
              NextVehicleType, HealthRaises, RaiseFromLoop, Running
<1>6. CASE SaveSpool \/ FlushDecision \/ Heartbeat \/ WakeUp
  BY <1>6 DEF SaveSpool, AfterSave, NextVehicleType, FlushDecision, Heartbeat, WakeUp, Running
<1>7. CASE FlushHealthShutdown \/ FlushHealthShutdownRaises \/ Signal
  BY <1>7 DEF FlushHealthShutdown, FlushHealthShutdownRaises, ShutdownFlushBegins, Signal, Running
<1>8. CASE Tick
  BY <1>8 DEF Tick, DownIsEmpty, Running
<1> QED BY <1>1, <1>2, <1>3, <1>4, <1>5, <1>6, <1>7, <1>8 DEF Next

(* A ping that leaves memory is archived, or spooled by an orderly exit, or   *)
(* the process died.                                                          *)
THEOREM MemoryLeavesForArchive == Spec => LeavesMemoryArchived
<1> DEFINE Leaves ==
      \A r \in RowsOf(buffers) \ RowsOf(buffers') :
         \/ r \in Archived'
         \/ ~Running' /\ (spool'[r] > 0 \/ exit' \in {"raised", "killed"})
<1>1. Init => TypeOK /\ DownIsEmpty
  BY TypeInit DEF Init, DownIsEmpty
<1>2. ASSUME TypeOK, DownIsEmpty, Next PROVE Leaves
  <2>1. CASE ~Running
    BY <1>2, <2>1 DEF DownIsEmpty, NoRows, RowsOf
  <2>2. CASE Running /\ Running'
    BY <1>2, <2>2, MemoryStep
  <2>3. CASE Running /\ ~Running'
    BY <1>2, <2>3, DeathStep DEF RowsOf
  <2> QED BY <2>1, <2>2, <2>3
<1>3. TypeOK /\ DownIsEmpty /\ [Next]_vars => [Leaves]_vars
  BY <1>2
<1> QED BY <1>1, <1>3, TypeStep, DownIsEmptyStep, PTL DEF Spec, LeavesMemoryArchived

-----------------------------------------------------------------------------
(* What is still to be visited by a shutdown flush that has met no failure.   *)
LEMMA DrainStep == TypeOK /\ DrainCovers /\ [Next]_vars => DrainCovers'
<1> SUFFICES ASSUME TypeOK, DrainCovers, [Next]_vars PROVE DrainCovers'
  OBVIOUS
<1>1. CASE UNCHANGED vars \/ Tick \/ Signal
  BY <1>1 DEF vars, memory, Tick, Signal, DrainCovers, RowsOf
<1>2. CASE FlushHealthShutdown \/ FlushHealthShutdownRaises
  BY <1>2 DEF FlushHealthShutdown, FlushHealthShutdownRaises, ShutdownFlushBegins,
              BufferedSlots, DrainCovers, RowsOf
<1>3. CASE SkipHour
  <2>1. PICK s \in todo : Visit(s) /\ BatchOf(s) = NoRows
    BY <1>3 DEF SkipHour
  <2>2. ASSUME pc = "stopFlush", NEW r \in RowsOf(buffers) PROVE SlotOf(r) # s
    BY <2>1, <2>2 DEF BatchOf, NoRows, Due, RowsOf
  <2> QED BY <1>3, <2>1, <2>2 DEF SkipHour, Visit, DrainCovers, RowsOf
<1>4. CASE \E s \in todo : UploadHour(s)
  <2>1. PICK s \in todo : UploadHour(s)
    BY <1>4
  <2>2. ASSUME pc = "stopFlush", NEW r \in RowsOf(buffers')
        PROVE  SlotOf(r) # s /\ r \in RowsOf(buffers)
    <3>1. r \in Pings /\ buffers'[r] > 0 /\ buffers'[r] = buffers[r] - BatchOf(s)[r]
      BY <2>1, <2>2 DEF UploadHour, Remaining, RowsOf
    <3>2. BatchOf(s)[r] = IF SlotOf(r) = s THEN buffers[r] ELSE 0
      BY <2>2, <3>1 DEF BatchOf, Due
    <3>3. buffers[r] \in Nat
      BY <3>1 DEF TypeOK, Bag
    <3> QED BY <3>1, <3>2, <3>3 DEF RowsOf
  <2> QED BY <2>1, <2>2 DEF UploadHour, Visit, DrainCovers
<1>5. CASE FlushEnds
  BY <1>5 DEF FlushEnds, DrainCovers, memory, RowsOf
<1>6. CASE \E applied \in BOOLEAN : UploadHourFails(applied)
  BY <1>6 DEF UploadHourFails, DrainCovers
<1>7. CASE \E applied \in BOOLEAN : UploadHourRaises(applied)
  BY <1>7 DEF UploadHourRaises, Raise, RaiseFromLoop, LeaveLoop, Die, DrainCovers
<1>8. CASE Start \/ StartRaises \/ LoopTop \/ Poll \/ Record \/ HealthRaises
  BY <1>8 DEF Start, LoadedSpool, StartRaises, LoopTop, LeaveLoop, Poll, PollFails, PollSucceeds, Record,
              NextVehicleType, HealthRaises, RaiseFromLoop, DrainCovers
<1>9. CASE SaveSpool \/ SaveSpoolAndExit \/ SaveSpoolTooBig \/ SaveSpoolRaises
  BY <1>9 DEF SaveSpool, AfterSave, NextVehicleType, SaveSpoolAndExit, SaveSpoolTooBig,
              SaveSpoolRaises, Raise, RaiseFromLoop, LeaveLoop, Die, DrainCovers
<1>10. CASE FlushDecision \/ Heartbeat \/ WakeUp \/ Crash
  BY <1>10 DEF FlushDecision, Heartbeat, WakeUp, Crash, Die, DrainCovers
<1> QED BY <1>1, <1>2, <1>3, <1>4, <1>5, <1>6, <1>7, <1>8, <1>9, <1>10 DEF Next, Flush

(* Every step keeps CleanExitDrains, given that the drain covers all buffered slots. *)
LEMMA CleanExitStep ==
  TypeOK /\ DrainCovers /\ CleanExitDrains /\ [Next]_vars => CleanExitDrains'
<1> SUFFICES ASSUME TypeOK, DrainCovers, CleanExitDrains, [Next]_vars, pc' = "down", exit' = "ok"
             PROVE  spool' = NoRows
  BY DEF CleanExitDrains, NoRows
<1>1. CASE UNCHANGED vars \/ Tick
  BY <1>1 DEF vars, memory, durable, Tick, CleanExitDrains
<1>2. CASE SaveSpoolAndExit
  <2>1. RowsOf(buffers) = {}
    BY <1>2 DEF SaveSpoolAndExit, ExitStatus, Die, DrainCovers
  <2>2. buffers = NoRows
    BY <2>1 DEF RowsOf, NoRows, TypeOK, Bag
  <2> QED BY <1>2, <2>2 DEF SaveSpoolAndExit
<1>3. CASE SaveSpoolTooBig \/ SaveSpoolRaises
  BY <1>3 DEF SaveSpoolTooBig, SaveSpoolRaises, Raise, RaiseFromLoop, LeaveLoop, Die
<1>4. CASE Flush
  BY <1>4 DEF Flush, SkipHour, UploadHour, UploadHourFails, UploadHourRaises, FlushEnds,
              Raise, RaiseFromLoop, LeaveLoop, Die
<1>5. CASE Start \/ StartRaises \/ LoopTop \/ Poll \/ Record \/ HealthRaises
  BY <1>5 DEF Start, LoadedSpool, StartRaises, LoopTop, LeaveLoop, Poll, PollFails, PollSucceeds, Record,
              NextVehicleType, HealthRaises, RaiseFromLoop
<1>6. CASE SaveSpool \/ FlushDecision \/ Heartbeat \/ WakeUp
  BY <1>6 DEF SaveSpool, AfterSave, NextVehicleType, FlushDecision, Heartbeat, WakeUp
<1>7. CASE FlushHealthShutdown \/ FlushHealthShutdownRaises \/ Signal \/ Crash
  BY <1>7 DEF FlushHealthShutdown, FlushHealthShutdownRaises, ShutdownFlushBegins, Signal,
              Running, Crash, Die
<1> QED BY <1>1, <1>2, <1>3, <1>4, <1>5, <1>6, <1>7 DEF Next

(* Exit status 0 means that nothing is left to upload.                        *)
THEOREM CleanExit == Spec => []CleanExitDrains
<1>1. Init => TypeOK /\ DrainCovers /\ CleanExitDrains
  BY TypeInit DEF Init, DrainCovers, CleanExitDrains
<1> QED BY <1>1, TypeStep, DrainStep, CleanExitStep, PTL DEF Spec

-----------------------------------------------------------------------------
(* No row is stored before it was accepted, and the cutoff of a flush under   *)
(* way was taken at an instant that has passed.                               *)
LEMMA CutoffStep == TypeOK /\ CutoffTaken /\ [Next]_vars => CutoffTaken'
<1> SUFFICES ASSUME TypeOK, CutoffTaken, [Next]_vars PROVE CutoffTaken'
  OBVIOUS
<1>0. /\ clock \in Nat /\ MaxClock \in Nat /\ clock <= MaxClock /\ FutureTolerance \in Nat
      /\ \A r \in Pings : TimeOf[r] \in Nat
      /\ \A r \in RowsOf(buffers) \cup RowsOf(spool) : r \in Pings /\ Accepted(r, clock)
  BY ConstantTypes, PollerAssumption DEF TypeOK, CutoffTaken, PollerAssumption, RowsOf
<1>1. ASSUME clock' = clock, spool' \in {spool, buffers},
             RowsOf(buffers') \subseteq RowsOf(buffers) \cup RowsOf(spool),
             pc' = "flush" => pc = "flush" /\ cutoff' = cutoff /\ RowsOf(buffers') \subseteq RowsOf(buffers)
      PROVE  CutoffTaken'
  <2>1. \A r \in RowsOf(spool') \cup RowsOf(buffers') : Accepted(r, clock')
    BY <1>0, <1>1
  <2>2. ASSUME pc' = "flush"
        PROVE  \E then \in 0 .. clock' :
                 /\ cutoff' = Warsaw(then) - FlushLag
                 /\ \A r \in RowsOf(buffers') : Accepted(r, then)
    BY <1>1, <2>2 DEF CutoffTaken
  <2> QED BY <1>0, <1>1, <2>1, <2>2 DEF CutoffTaken, RowsOf, Accepted
<1>2. ASSUME clock' \in clock .. MaxClock, UNCHANGED <<spool, buffers, cutoff>>,
             pc' = "flush" => pc = "flush"
      PROVE  CutoffTaken'
  <2>1. \A r \in RowsOf(spool') \cup RowsOf(buffers') : Accepted(r, clock')
    BY <1>0, <1>2 DEF Accepted
  <2>2. ASSUME pc' = "flush"
        PROVE  \E then \in 0 .. clock' :
                 /\ cutoff' = Warsaw(then) - FlushLag
                 /\ \A r \in RowsOf(buffers') : Accepted(r, then)
    <3>1. PICK then \in 0 .. clock : cutoff = Warsaw(then) - FlushLag /\ \A r \in RowsOf(buffers) : Accepted(r, then)
      BY <1>2, <2>2 DEF CutoffTaken
    <3>2. then \in 0 .. clock'
      BY <1>0, <1>2
    <3> QED BY <1>2, <3>1, <3>2
  <2>3. clock' <= MaxClock
    BY <1>0, <1>2
  <2> QED BY <2>1, <2>2, <2>3 DEF CutoffTaken, RowsOf, Accepted
<1>3. RowsOf(NoRows) = {}
  BY DEF RowsOf, NoRows
<1>4. CASE UNCHANGED vars
  BY <1>1, <1>4 DEF vars, memory, durable
<1>5. CASE Tick
  BY <1>0, <1>2, <1>5 DEF Tick, memory, durable
<1>6. CASE WakeUp
  BY <1>0, <1>2, <1>6 DEF WakeUp, Capped, durable
<1>7. CASE FlushDecision
  <2>1. UNCHANGED <<clock, spool, buffers>>
    BY <1>7 DEF FlushDecision, durable
  <2>2. CASE pc' = "flush"
    <3>1. cutoff' = Warsaw(clock) - FlushLag
      BY <1>7, <2>2 DEF FlushDecision
    <3>2. clock \in 0 .. clock' /\ \A r \in RowsOf(buffers') : Accepted(r, clock)
      BY <1>0, <2>1
    <3>3. \E then \in 0 .. clock' :
            /\ cutoff' = Warsaw(then) - FlushLag
            /\ \A r \in RowsOf(buffers') : Accepted(r, then)
      BY <3>1, <3>2
    <3> QED BY <1>0, <2>1, <3>3 DEF CutoffTaken, RowsOf, Accepted
  <2> QED BY <1>1, <1>7, <2>1, <2>2
<1>8. CASE Start \/ StartRaises \/ LoopTop \/ HealthRaises
  BY <1>1, <1>8 DEF Start, StartRaises, LoadedSpool, LoopTop, HealthRaises, RaiseFromLoop, LeaveLoop, durable
<1>9. CASE PollFails \/ Record
  BY <1>1, <1>9 DEF PollFails, Record, NextVehicleType, durable
<1>10. ASSUME NEW answer \in SUBSET Pings, PollSucceeds(answer) PROVE CutoffTaken'
  <2>1. UNCHANGED <<clock, spool>> /\ pc' = "record"
    BY <1>10 DEF PollSucceeds, durable
  <2>2. ASSUME NEW r \in RowsOf(buffers') PROVE Accepted(r, clock)
    <3>1. CASE buffers'[r] = buffers[r]
      BY <1>0, <2>2, <3>1 DEF RowsOf
    <3>2. CASE Fresh(r)
      BY <1>0, <2>2, <3>2, ConstantTypes DEF Fresh, FreshAt, Accepted, RowsOf
    <3> QED BY <1>10, <2>2, <3>1, <3>2 DEF PollSucceeds, RowsOf
  <2> QED BY <1>0, <2>1, <2>2 DEF CutoffTaken, RowsOf, Accepted
<1>11. CASE SaveSpool
  BY <1>1, <1>11 DEF SaveSpool, AfterSave, NextVehicleType
<1>12. CASE SaveSpoolAndExit \/ Crash
  BY <1>1, <1>3, <1>12 DEF SaveSpoolAndExit, Crash, Die, durable
<1>13. ASSUME Raise, spool' = spool, clock' = clock PROVE CutoffTaken'
  BY <1>1, <1>3, <1>13 DEF Raise, RaiseFromLoop, LeaveLoop, Die
<1>14. CASE SaveSpoolTooBig \/ SaveSpoolRaises
  BY <1>13, <1>14 DEF SaveSpoolTooBig, SaveSpoolRaises, durable
<1>15. CASE Flush
  <2>1. CASE SkipHour \/ FlushEnds \/ \E applied \in BOOLEAN : UploadHourFails(applied)
    BY <1>1, <2>1 DEF SkipHour, FlushEnds, UploadHourFails, memory, durable
  <2>2. ASSUME NEW s \in todo, UploadHour(s) PROVE CutoffTaken'
    <3>1. \A r \in Pings : buffers'[r] > 0 => buffers[r] > 0
      <4>1. \A r \in Pings : buffers[r] \in Nat /\ BatchOf(s)[r] \in {0, buffers[r]}
        BY DEF TypeOK, Bag, BatchOf
      <4> QED BY <2>2, <4>1 DEF UploadHour, Remaining
    <3> QED BY <1>1, <2>2, <3>1 DEF UploadHour, RowsOf
  <2>3. CASE \E applied \in BOOLEAN : UploadHourRaises(applied)
    BY <1>13, <2>3 DEF UploadHourRaises
  <2> QED BY <1>15, <2>1, <2>2, <2>3 DEF Flush
<1>16. CASE Heartbeat \/ FlushHealthShutdown \/ FlushHealthShutdownRaises \/ Signal
  BY <1>1, <1>16 DEF Heartbeat, FlushHealthShutdown, FlushHealthShutdownRaises,
                     ShutdownFlushBegins, Signal, memory, durable
<1> QED BY <1>4, <1>5, <1>6, <1>7, <1>8, <1>9, <1>10, <1>11, <1>12, <1>14, <1>15, <1>16 DEF Next, Poll

(* A ping that Warsaw's clocks put at or before a cutoff is older than the     *)
(* maximum age at every later instant, unless the clocks were changed between. *)
LEMMA PastTheAge ==
  ASSUME NEW r \in Pings, clock \in Nat, NEW then \in 0 .. clock, FlushLag >= MaxAge,
         Warsaw(TimeOf[r]) <= Warsaw(then) - FlushLag, Accepted(r, then), ~AcrossChange(r)
  PROVE  TimeOf[r] + MaxAge <= clock
<1>0. /\ TimeOf[r] \in Nat /\ FlushLag \in Nat /\ MaxAge \in Nat /\ FutureTolerance \in Nat
      /\ ShiftAt \in Int /\ ShiftBy \in Int
  BY PollerAssumption DEF PollerAssumption
<1>1. CASE (TimeOf[r] < ShiftAt) = (then < ShiftAt)
  BY <1>0, <1>1 DEF Warsaw
<1>2. CASE TimeOf[r] < ShiftAt /\ ShiftAt <= then
  <2>1. ShiftBy <= 0
    BY <1>0, <1>2 DEF AcrossChange
  <2> QED BY <1>0, <1>2, <2>1 DEF Warsaw
<1>3. CASE then < ShiftAt /\ ShiftAt <= TimeOf[r]
  <2>1. ShiftBy >= 0
    BY <1>0, <1>3 DEF AcrossChange, Accepted
  <2> QED BY <1>0, <1>3, <2>1 DEF Warsaw
<1> QED BY <1>0, <1>1, <1>2, <1>3

(* Only an upload takes rows out of memory while a flush goes on, and only     *)
(* rows that are due.                                                          *)
LEMMA FlushTakesDue ==
  ASSUME TypeOK, Next, pc = "flush", pc' = "flush",
         NEW r \in Pings, buffers'[r] < buffers[r]
  PROVE  r \in RowsOf(buffers) /\ Warsaw(TimeOf[r]) <= cutoff
<1>0. buffers[r] \in Nat
  BY DEF TypeOK, Bag
<1>1. CASE buffers' = buffers
  BY <1>0, <1>1
<1>2. ASSUME NEW s \in todo, UploadHour(s)
      PROVE  r \in RowsOf(buffers) /\ Warsaw(TimeOf[r]) <= cutoff
  <2>1. buffers'[r] = buffers[r] - BatchOf(s)[r]
    BY <1>2 DEF UploadHour, Remaining
  <2>2. BatchOf(s)[r] = IF SlotOf(r) = s /\ Due(r) THEN buffers[r] ELSE 0
    BY DEF BatchOf
  <2>3. Due(r) /\ buffers[r] > 0
    BY <1>0, <2>1, <2>2
  <2> QED BY <2>3 DEF Due, RowsOf
<1>3. CASE Flush
  <2>1. CASE \E applied \in BOOLEAN : UploadHourRaises(applied)
    BY <2>1 DEF UploadHourRaises, Raise, RaiseFromLoop, LeaveLoop
  <2> QED BY <1>1, <1>2, <1>3, <2>1 DEF Flush, SkipHour, FlushEnds, UploadHourFails
<1>4. CASE Start \/ StartRaises \/ LoopTop \/ Poll \/ Record \/ HealthRaises
  BY <1>4 DEF Start, StartRaises, LoopTop, Poll, PollFails, PollSucceeds, Record, HealthRaises
<1>5. CASE SaveSpool \/ SaveSpoolAndExit \/ SaveSpoolTooBig \/ SaveSpoolRaises \/ FlushDecision
  BY <1>5 DEF SaveSpool, SaveSpoolAndExit, SaveSpoolTooBig, SaveSpoolRaises, FlushDecision
<1>6. CASE Heartbeat \/ WakeUp \/ FlushHealthShutdown \/ FlushHealthShutdownRaises \/ Crash
  BY <1>6 DEF Heartbeat, WakeUp, FlushHealthShutdown, FlushHealthShutdownRaises, Crash, Die
<1>7. CASE Signal \/ Tick
  BY <1>1, <1>7 DEF Signal, Tick
<1> QED BY <1>2, <1>3, <1>4, <1>5, <1>6, <1>7 DEF Next

(* When the lag is at least the maximum age, a ping that a periodic flush     *)
(* takes out of memory is never accepted again, unless Warsaw's clocks were   *)
(* changed between the ping and the flush.                                    *)
THEOREM CutoffFinal == Spec => CutoffIsFinal
<1> DEFINE Final ==
      FlushLag >= MaxAge /\ pc = "flush" /\ pc' = "flush" =>
        \A r \in Pings : buffers'[r] < buffers[r] =>
          AcrossChange(r) \/ \A later \in clock + 1 .. MaxClock : ~FreshAt(r, later)
<1>1. Init => TypeOK /\ CutoffTaken
  <2>1. Init => RowsOf(spool) = {} /\ RowsOf(buffers) = {}
    BY DEF Init, NoRows, RowsOf
  <2> QED BY <2>1, TypeInit, ConstantTypes DEF Init, CutoffTaken
<1>2. ASSUME TypeOK, CutoffTaken, Next PROVE Final
  <2> SUFFICES ASSUME FlushLag >= MaxAge, pc = "flush", pc' = "flush",
                      NEW r \in Pings, buffers'[r] < buffers[r], ~AcrossChange(r),
                      NEW later \in clock + 1 .. MaxClock, FreshAt(r, later)
               PROVE  FALSE
    BY DEF Final
  <2>1. r \in RowsOf(buffers) /\ Warsaw(TimeOf[r]) <= cutoff
    BY <1>2, FlushTakesDue
  <2>2. PICK then \in 0 .. clock : cutoff = Warsaw(then) - FlushLag /\ Accepted(r, then)
    BY <1>2, <2>1 DEF CutoffTaken
  <2>3. clock \in Nat
    BY <1>2 DEF TypeOK
  <2>4. TimeOf[r] + MaxAge <= clock
    BY <2>1, <2>2, <2>3, PastTheAge
  <2>5. TimeOf[r] \in Nat /\ MaxAge \in Nat /\ MaxClock \in Nat /\ FutureTolerance \in Nat
    BY PollerAssumption DEF PollerAssumption
  <2> QED BY <2>3, <2>4, <2>5 DEF FreshAt
<1>3. TypeOK /\ CutoffTaken /\ [Next]_vars => [Final]_vars
  BY <1>2
<1> QED BY <1>1, <1>3, TypeStep, CutoffStep, PTL DEF Spec, CutoffIsFinal

-----------------------------------------------------------------------------
(* Sizes of bags.  Size adds up the copies over the pings with a recursive    *)
(* function over the sets of pings; what follows says that there is such a    *)
(* function, and compares the sums of two bags.                               *)

LEMMA LessThan == OpToRel(<, Nat) = {ss \in Nat \X Nat : ss[1] < ss[2]}
BY Zenon DEF OpToRel

(* A set of numbers with 0 in it, and with each number the next, has all.      *)
LEMMA NatInd ==
  ASSUME NEW S, 0 \in S, \A n \in Nat : n \in S => n + 1 \in S
  PROVE  Nat \subseteq S
<1> SUFFICES ASSUME Nat \ S # {} PROVE FALSE
  OBVIOUS
<1> DEFINE R == {ss \in Nat \X Nat : ss[1] < ss[2]}
<1>1. IsWellFoundedOn(R, Nat)
  BY NatLessThanWellFounded, LessThan
<1> HIDE DEF R
<1>2. PICK x \in Nat \ S : \A y \in Nat \ S : ~(<<y, x>> \in R)
  BY <1>1, WFMin
<1>3. x # 0 /\ x - 1 \in Nat /\ x - 1 < x
  BY <1>2
<1>4. <<x - 1, x>> \in R
  BY <1>2, <1>3 DEF R
<1>5. x - 1 \in S
  BY <1>2, <1>3, <1>4
<1> QED BY <1>2, <1>3, <1>5

Some(S) == CHOOSE x \in S : TRUE

(* A family with the empty set in it, and each set that is in it less the one *)
(* ping that is taken first, has every set of pings.                           *)
LEMMA PingsInd ==
  ASSUME NEW T, {} \in T,
         \A S \in SUBSET Pings : S # {} /\ S \ {Some(S)} \in T => S \in T
  PROVE  SUBSET Pings \subseteq T
<1> DEFINE N == {n \in Nat : \A S \in SUBSET Pings : Cardinality(S) = n => S \in T}
<1>1. \A S \in SUBSET Pings : IsFiniteSet(S) /\ Cardinality(S) \in Nat
  BY PollerAssumption, FS_Subset, FS_CardinalityType DEF PollerAssumption
<1>2. 0 \in N
  BY <1>1, FS_EmptySet
<1>3. ASSUME NEW n \in Nat, n \in N PROVE n + 1 \in N
  <2> SUFFICES ASSUME NEW S \in SUBSET Pings, Cardinality(S) = n + 1 PROVE S \in T
    OBVIOUS
  <2>1. S # {}
    BY FS_EmptySet
  <2>2. Some(S) \in S
    BY <2>1 DEF Some
  <2>3. Cardinality(S \ {Some(S)}) = Cardinality(S) - 1
    BY <1>1, <2>2, FS_RemoveElement
  <2>4. Cardinality(S \ {Some(S)}) = n
    BY <2>3
  <2>5. S \ {Some(S)} \in T
    BY <1>3, <2>4
  <2> QED BY <2>1, <2>5
<1> HIDE DEF N
<1>4. Nat \subseteq N
  BY <1>2, <1>3, NatInd
<1> QED BY <1>1, <1>4 DEF N

(* f sums bag over the sets of D.                                              *)
Term(bag, f, S) == IF S = {} THEN 0 ELSE bag[Some(S)] + f[S \ {Some(S)}]
Sums(f, bag, D) == f \in [D -> Nat] /\ \A S \in D : f[S] = Term(bag, f, S)

(* Such a function exists.                                                     *)
LEMMA SumsExist ==
  ASSUME NEW bag \in Bag
  PROVE  \E f : Sums(f, bag, SUBSET Pings)
<1> DEFINE D(n) == {S \in SUBSET Pings : Cardinality(S) <= n}
           N == {n \in Nat : \E f : Sums(f, bag, D(n))}
<1>1. \A S \in SUBSET Pings : IsFiniteSet(S) /\ Cardinality(S) \in Nat /\ Cardinality(S) <= Cardinality(Pings)
  BY PollerAssumption, FS_Subset, FS_CardinalityType DEF PollerAssumption
<1>2. \A S \in SUBSET Pings : S # {} => Some(S) \in S /\ Some(S) \in Pings /\ bag[Some(S)] \in Nat
  BY DEF Some, Bag
<1>3. ASSUME NEW n \in Nat, NEW S \in D(n + 1), S # {} PROVE S \ {Some(S)} \in D(n)
  <2>1. Cardinality(S \ {Some(S)}) = Cardinality(S) - 1
    BY <1>1, <1>2, <1>3, FS_RemoveElement
  <2> QED BY <1>1, <1>3, <2>1
<1>4. 0 \in N
  <2>1. D(0) = {{}}
    BY <1>1, FS_EmptySet
  <2> DEFINE f == [S \in D(0) |-> 0]
  <2>2. Sums(f, bag, D(0))
    BY <2>1 DEF Sums, Term
  <2> QED BY <2>2
<1>5. ASSUME NEW n \in Nat, n \in N PROVE n + 1 \in N
  <2>1. PICK f : Sums(f, bag, D(n))
    BY <1>5
  <2> DEFINE E == D(n + 1)
             g == [S \in E |-> Term(bag, f, S)]
  <2>2. ASSUME NEW S \in E PROVE Term(bag, f, S) \in Nat
    <3>1. CASE S = {}
      BY <3>1 DEF Term
    <3>2. CASE S # {}
      <4>1. S \ {Some(S)} \in D(n)
        BY <1>3, <3>2
      <4>2. f[S \ {Some(S)}] \in Nat
        BY <2>1, <4>1 DEF Sums
      <4>3. bag[Some(S)] \in Nat
        BY <1>2, <3>2
      <4> QED BY <3>2, <4>2, <4>3 DEF Term
    <3> QED BY <3>1, <3>2
  <2>3. ASSUME NEW S \in E PROVE Term(bag, g, S) = Term(bag, f, S)
    <3>1. CASE S = {}
      BY <3>1 DEF Term
    <3>2. CASE S # {}
      <4>1. S \ {Some(S)} \in D(n) /\ S \ {Some(S)} \in E
        BY <1>1, <1>3, <3>2
      <4>2. g[S \ {Some(S)}] = Term(bag, f, S \ {Some(S)})
        BY <4>1
      <4>3. f[S \ {Some(S)}] = Term(bag, f, S \ {Some(S)})
        BY <2>1, <4>1 DEF Sums
      <4> HIDE DEF g, E
      <4>4. g[S \ {Some(S)}] = f[S \ {Some(S)}]
        BY <4>2, <4>3
      <4> QED BY <3>2, <4>4 DEF Term
    <3> QED BY <3>1, <3>2
  <2>4. g \in [E -> Nat] /\ \A S \in E : g[S] = Term(bag, f, S)
    BY <2>2
  <2>5. Sums(g, bag, D(n + 1))
    <3> HIDE DEF g
    <3> QED BY <2>3, <2>4 DEF Sums
  <2> HIDE DEF g
  <2>6. \E h : Sums(h, bag, D(n + 1))
    BY <2>5
  <2> QED BY <2>6
<1> HIDE DEF N
<1>6. Cardinality(Pings) \in N
  BY <1>1, <1>4, <1>5, NatInd
<1>7. D(Cardinality(Pings)) = SUBSET Pings
  BY <1>1
<1> QED BY <1>6, <1>7 DEF N

(* The size of a bag is the sum over all pings.                                *)
LEMMA SizeIs ==
  ASSUME NEW bag \in Bag
  PROVE  \E f : Sums(f, bag, SUBSET Pings) /\ Size(bag) = f[Pings]
<1> DEFINE P == SUBSET Pings
           g == CHOOSE f : f = [S \in P |-> IF S = {} THEN 0 ELSE bag[Some(S)] + f[S \ {Some(S)}]]
<1>1. Size(bag) = g[Pings]
  BY DEF Size, MapThenSumSet, MapThenFoldSet, Some
<1>2. PICK f : Sums(f, bag, P)
  BY SumsExist
<1>3. f = [S \in P |-> IF S = {} THEN 0 ELSE bag[Some(S)] + f[S \ {Some(S)}]]
  BY <1>2 DEF Sums, Term
<1>4. g = [S \in P |-> IF S = {} THEN 0 ELSE bag[Some(S)] + g[S \ {Some(S)}]]
  BY <1>3
<1> HIDE DEF g
<1>5. \A S \in P : g[S] = Term(bag, g, S)
  BY <1>4 DEF Term
<1> DEFINE T == {S \in P : g[S] \in Nat}
<1>6. {} \in T
  <2>1. g[{}] = Term(bag, g, {})
    BY <1>5
  <2> QED BY <2>1 DEF Term
<1>7. ASSUME NEW S \in P, S # {}, S \ {Some(S)} \in T PROVE S \in T
  <2>1. Some(S) \in Pings /\ bag[Some(S)] \in Nat
    BY <1>7 DEF Some, Bag
  <2>2. g[S \ {Some(S)}] \in Nat
    BY <1>7
  <2>3. g[S] = bag[Some(S)] + g[S \ {Some(S)}]
    BY <1>5, <1>7 DEF Term
  <2>4. g[S] \in Nat
    BY <2>1, <2>2, <2>3
  <2> QED BY <2>4
<1> HIDE DEF T
<1>8. P \subseteq T
  BY <1>6, <1>7, PingsInd
<1>9. g \in [P -> Nat]
  BY <1>4, <1>8 DEF T
<1> QED BY <1>1, <1>5, <1>9 DEF Sums

(* Where a bag has at most one copy more than another of some pings, and no   *)
(* more of the others, its size is at most greater by their number.            *)
LEMMA SumsCompare ==
  ASSUME NEW a \in Bag, NEW b \in Bag, NEW f, NEW g,
         Sums(f, a, SUBSET Pings), Sums(g, b, SUBSET Pings), NEW more \in SUBSET Pings,
         \A r \in Pings : b[r] <= a[r] + (IF r \in more THEN 1 ELSE 0)
  PROVE  g[Pings] <= f[Pings] + Cardinality(more)
<1> DEFINE T == {S \in SUBSET Pings : g[S] <= f[S] + Cardinality(S \cap more)}
<1>1. \A S \in SUBSET Pings : IsFiniteSet(S) /\ Cardinality(S) \in Nat
  BY PollerAssumption, FS_Subset, FS_CardinalityType DEF PollerAssumption
<1>2. {} \in T
  <2>1. g[{}] = 0 /\ f[{}] = 0
    BY DEF Sums, Term
  <2>2. {} \cap more = {}
    OBVIOUS
  <2> QED BY <2>1, <2>2, FS_EmptySet
<1>3. ASSUME NEW S \in SUBSET Pings, S # {}, S \ {Some(S)} \in T PROVE S \in T
  <2> DEFINE x == Some(S)
             V == S \ {x}
  <2>1. x \in S /\ x \in Pings
    BY <1>3 DEF Some
  <2>2. g[S] = b[x] + g[V] /\ f[S] = a[x] + f[V]
    BY <1>3 DEF Sums, Term
  <2>3. g[V] <= f[V] + Cardinality(V \cap more)
    BY <1>3
  <2>4. a[x] \in Nat /\ b[x] \in Nat /\ g[V] \in Nat /\ f[V] \in Nat
    BY <2>1 DEF Bag, Sums
  <2>5. Cardinality(S \cap more) = Cardinality(V \cap more) + (IF x \in more THEN 1 ELSE 0)
    <3>1. V \cap more = (S \cap more) \ {x}
      OBVIOUS
    <3>2. IsFiniteSet(S \cap more) /\ Cardinality(S \cap more) \in Nat
      BY <1>1
    <3>3. Cardinality(V \cap more) = IF x \in S \cap more THEN Cardinality(S \cap more) - 1 ELSE Cardinality(S \cap more)
      BY <3>1, <3>2, FS_RemoveElement
    <3> QED BY <2>1, <3>2, <3>3
  <2>6. b[x] <= a[x] + (IF x \in more THEN 1 ELSE 0)
    BY <2>1
  <2>7. Cardinality(V \cap more) \in Nat
    BY <1>1
  <2> HIDE DEF x, V
  <2>8. g[S] <= f[S] + Cardinality(S \cap more)
    BY <2>2, <2>3, <2>4, <2>5, <2>6, <2>7
  <2> QED BY <2>8
<1> HIDE DEF T
<1>4. SUBSET Pings \subseteq T
  BY <1>2, <1>3, PingsInd
<1>5. Pings \cap more = more
  OBVIOUS
<1> QED BY <1>4, <1>5 DEF T

LEMMA SizeCompare ==
  ASSUME NEW a \in Bag, NEW b \in Bag, NEW more \in SUBSET Pings,
         \A r \in Pings : b[r] <= a[r] + (IF r \in more THEN 1 ELSE 0)
  PROVE  Size(b) <= Size(a) + Cardinality(more)
<1>1. PICK f : Sums(f, a, SUBSET Pings) /\ Size(a) = f[Pings]
  BY SizeIs
<1>2. PICK g : Sums(g, b, SUBSET Pings) /\ Size(b) = g[Pings]
  BY SizeIs
<1> QED BY <1>1, <1>2, SumsCompare

LEMMA SizeType == ASSUME NEW bag \in Bag PROVE Size(bag) \in Nat
BY SizeIs DEF Sums

(* A bag that is part of another is no larger.                                 *)
LEMMA SizeOfPart ==
  ASSUME NEW a \in Bag, NEW b \in Bag, \A r \in Pings : b[r] <= a[r]
  PROVE  Size(b) <= Size(a)
<1>1. \A r \in Pings : b[r] <= a[r] + (IF r \in {} THEN 1 ELSE 0)
  BY DEF Bag
<1>2. Size(b) <= Size(a) + Cardinality({})
  BY <1>1, SizeCompare
<1> QED BY <1>2, SizeType, FS_EmptySet

LEMMA SizeOfNone == Size(NoRows) = 0
<1> DEFINE z == [S \in SUBSET Pings |-> 0]
<1>1. Sums(z, NoRows, SUBSET Pings)
  <2>1. ASSUME NEW S \in SUBSET Pings PROVE Term(NoRows, z, S) = 0
    BY DEF Term, Some, NoRows
  <2> QED BY <2>1 DEF Sums
<1>2. PICK g : Sums(g, NoRows, SUBSET Pings) /\ Size(NoRows) = g[Pings]
  BY NoRowsType, SizeIs
<1>3. \A r \in Pings : NoRows[r] <= NoRows[r] + (IF r \in {} THEN 1 ELSE 0)
  BY DEF NoRows
<1>4. g[Pings] <= z[Pings] + Cardinality({})
  <2> HIDE DEF z
  <2> QED BY <1>1, <1>2, <1>3, NoRowsType, SumsCompare
<1>5. g[Pings] \in Nat
  BY <1>2 DEF Sums
<1> QED BY <1>2, <1>4, <1>5, FS_EmptySet

(* What makes BoundedBacklog inductive: only an answer just taken in, or one  *)
(* the loop is being left with, may exceed the cap.                            *)
WithinCap ==
  /\ BoundedBacklog
  /\ (pc \in {"top", "poll", "uploads", "flush", "flushSave", "beat", "sleep"} \/ (pc = "record" /\ ~accepted)) =>
        Size(buffers) <= SpoolCap

LEMMA WithinCapStep == TypeOK /\ WithinCap /\ DownIsEmpty /\ [Next]_vars => WithinCap'
<1> SUFFICES ASSUME TypeOK, WithinCap, DownIsEmpty, [Next]_vars PROVE WithinCap'
  OBVIOUS
<1> DEFINE Filled == Size(buffers)
           Calm == pc \in {"top", "poll", "uploads", "flush", "flushSave", "beat", "sleep"} \/ (pc = "record" /\ ~accepted)
<1>0. /\ SpoolCap \in Nat /\ MaxBatch \in Nat /\ Size(buffers) \in Nat /\ Size(spool) \in Nat
      /\ Size(buffers') \in Nat /\ Size(NoRows) = 0
      /\ Size(spool) <= SpoolCap /\ Size(buffers) <= SpoolCap + MaxBatch
  BY PollerAssumption, TypeStep, SizeType, SizeOfNone DEF PollerAssumption, TypeOK, WithinCap, BoundedBacklog
<1>1. ASSUME spool' = spool, Size(buffers') <= Size(buffers), Calm' => Calm PROVE WithinCap'
  BY <1>0, <1>1 DEF WithinCap, BoundedBacklog
<1>2. ASSUME spool' = spool, Size(buffers') <= SpoolCap PROVE WithinCap'
  BY <1>0, <1>2 DEF WithinCap, BoundedBacklog
<1>3. CASE UNCHANGED vars
  BY <1>0, <1>1, <1>3 DEF vars, memory, durable
<1>4. CASE Start \/ StartRaises
  BY <1>0, <1>2, <1>4 DEF Start, StartRaises, LoadedSpool, durable
<1>5. CASE LoopTop \/ Record \/ HealthRaises \/ PollFails
  BY <1>0, <1>1, <1>5 DEF LoopTop, Record, NextVehicleType, HealthRaises, RaiseFromLoop, LeaveLoop, PollFails, durable
<1>6. ASSUME NEW answer \in SUBSET Pings, PollSucceeds(answer) PROVE WithinCap'
  <2> DEFINE fresh == {r \in answer : Fresh(r)}
  <2>1. Size(buffers) <= SpoolCap
    BY <1>6 DEF PollSucceeds, WithinCap
  <2>2. buffers' = [r \in Pings |-> IF r \in fresh THEN buffers[r] + 1 ELSE buffers[r]] /\ Cardinality(fresh) <= MaxBatch
        /\ accepted' = (fresh # {}) /\ pc' = "record" /\ spool' = spool
    BY <1>6 DEF PollSucceeds, durable
  <2>3. fresh \in SUBSET Pings /\ Cardinality(fresh) \in Nat
    BY PollerAssumption, FS_Subset, FS_CardinalityType DEF PollerAssumption
  <2> HIDE DEF fresh
  <2>4. \A r \in Pings : buffers[r] \in Nat
    BY DEF TypeOK, Bag
  <2>5. \A r \in Pings : buffers'[r] <= buffers[r] + (IF r \in fresh THEN 1 ELSE 0)
    BY <2>2, <2>4
  <2>6. buffers \in Bag /\ buffers' \in Bag
    BY TypeStep DEF TypeOK
  <2>7. Size(buffers') <= Size(buffers) + Cardinality(fresh)
    BY <2>3, <2>5, <2>6, SizeCompare
  <2>8. Size(buffers') <= SpoolCap + MaxBatch
    BY <1>0, <2>1, <2>2, <2>3, <2>7
  <2>9. fresh = {} => Size(buffers') <= SpoolCap
    BY <1>0, <2>1, <2>7, FS_EmptySet
  <2> QED BY <1>0, <2>2, <2>8, <2>9 DEF WithinCap, BoundedBacklog
<1>7. CASE SaveSpool
  BY <1>0, <1>7 DEF SaveSpool, WithinCap, BoundedBacklog
<1>8. CASE SaveSpoolAndExit
  BY <1>0, <1>8 DEF SaveSpoolAndExit, Die, WithinCap, BoundedBacklog
<1>9. ASSUME Raise, spool' = spool PROVE WithinCap'
  <2>1. CASE pc \in {"stopFlush", "stopSave"}
    BY <1>0, <1>2, <1>9, <2>1 DEF Raise, Die
  <2>2. CASE pc \notin {"stopFlush", "stopSave"}
    BY <1>0, <1>1, <1>9, <2>2 DEF Raise, RaiseFromLoop, LeaveLoop
  <2> QED BY <2>1, <2>2
<1>10. CASE SaveSpoolTooBig \/ SaveSpoolRaises
  BY <1>9, <1>10 DEF SaveSpoolTooBig, SaveSpoolRaises, durable
<1>11. CASE Flush
  <2>1. CASE SkipHour \/ FlushEnds \/ \E applied \in BOOLEAN : UploadHourFails(applied)
    BY <1>0, <1>1, <2>1 DEF SkipHour, FlushEnds, UploadHourFails, memory, durable
  <2>2. ASSUME NEW s \in todo, UploadHour(s) PROVE WithinCap'
    <3>1. \A r \in Pings : buffers'[r] <= buffers[r]
      <4>1. \A r \in Pings : buffers[r] \in Nat /\ BatchOf(s)[r] \in {0, buffers[r]}
        BY DEF TypeOK, Bag, BatchOf
      <4> QED BY <2>2, <4>1 DEF UploadHour, Remaining
    <3>2. buffers \in Bag /\ buffers' \in Bag
      BY TypeStep DEF TypeOK
    <3>3. Size(buffers') <= Size(buffers)
      BY <3>1, <3>2, SizeOfPart
    <3> QED BY <1>1, <2>2, <3>3 DEF UploadHour
  <2>3. CASE \E applied \in BOOLEAN : UploadHourRaises(applied)
    BY <1>9, <2>3 DEF UploadHourRaises
  <2> QED BY <1>11, <2>1, <2>2, <2>3 DEF Flush
<1>12. CASE FlushDecision \/ Heartbeat \/ WakeUp \/ FlushHealthShutdown \/ FlushHealthShutdownRaises \/ Signal \/ Tick
  BY <1>0, <1>1, <1>12 DEF FlushDecision, Heartbeat, WakeUp, FlushHealthShutdown, FlushHealthShutdownRaises,
     ShutdownFlushBegins, Signal, Tick, memory, durable
<1>13. CASE Crash
  BY <1>0, <1>2, <1>13 DEF Crash, Die, durable
<1> QED BY <1>3, <1>4, <1>5, <1>6, <1>7, <1>8, <1>10, <1>11, <1>12, <1>13 DEF Next, Poll

(* The spool file stays within its cap and memory within one answer of it: a  *)
(* poller that cannot snapshot what it has leaves the loop before it polls    *)
(* again, and neither a restart nor a failed upload adds to the backlog.       *)
THEOREM BacklogBounded == Spec => []BoundedBacklog
<1>1. Init => TypeOK /\ DownIsEmpty /\ WithinCap
  <2>1. Size(NoRows) = 0 /\ SpoolCap \in Nat /\ MaxBatch \in Nat
    BY SizeOfNone, PollerAssumption DEF PollerAssumption
  <2> QED BY <2>1, TypeInit DEF Init, DownIsEmpty, WithinCap, BoundedBacklog
<1>2. WithinCap => BoundedBacklog
  BY DEF WithinCap
<1> QED BY <1>1, <1>2, TypeStep, DownIsEmptyStep, WithinCapStep, PTL DEF Spec

=============================================================================
