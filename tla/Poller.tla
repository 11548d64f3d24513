------------------------------- MODULE Poller -------------------------------
(* The GPS poller: poller/poller.py.  One process polls the vehicle API,       *)
(* keeps fresh pings in memory per vehicle type and Warsaw hour, snapshots the *)
(* memory to a spool file, uploads batches as create-only Parquet objects, and *)
(* drains on shutdown.  Every step between two durable effects is an action of *)
(* its own, so a crash can come between any two of them.                       *)
(*                                                                             *)
(* Two clocks: instants, by which a ping's age is judged, and what Warsaw's    *)
(* clocks show, by which rows are put into hours and held against the cutoff   *)
(* of a flush.  The two drift apart when the clocks are changed.               *)
(*                                                                             *)
(* Abstractions: a row is a ping with a vehicle type and an instant; file      *)
(* sizes are row counts; the health recorder (module HealthCounters) is only the     *)
(* exceptions it may raise here; heartbeat and live-vehicle writes, which      *)
(* swallow their errors and touch none of this state, are left out.            *)
EXTENDS Integers, FiniteSetsExt

CONSTANTS
  Pings,          \* rows the API can return
  ModeCount,      \* vehicle types, numbered in polling order
  ModeOf,         \* [Pings -> vehicle type]
  TimeOf,         \* [Pings -> instant of the row]
  HourLength,     \* clock units in an hour
  ShiftAt,        \* the instant at which Warsaw's clocks are changed
  ShiftBy,        \* by how much: forward in spring, back (negative) in autumn
  MaxAge,         \* max_ping_age_seconds
  FutureTolerance,\* future_ping_tolerance_seconds
  FlushLag,       \* flush_lag_seconds
  FlushInterval,  \* partial_flush_interval_seconds
  SpoolCap,       \* spool_max_bytes, in rows
  MaxBatch,       \* bound: fresh rows in one API answer
  MaxCopies,      \* bound: copies of one ping in memory
  MaxClock,       \* bound: the clock saturates here
  MaxDeaths,      \* bound: crashes and unexpected exceptions
  UploadsFail     \* whether an upload may raise an error

ASSUME PollerAssumption ==
  /\ HourLength \in Nat \ {0}
  /\ ModeCount \in Nat \ {0}
  /\ ModeOf \in [Pings -> 1 .. ModeCount]
  /\ TimeOf \in [Pings -> Nat]
  /\ ShiftAt \in Int /\ ShiftBy \in Int
  /\ {MaxAge, FutureTolerance, FlushLag, FlushInterval} \subseteq Nat
  /\ {SpoolCap, MaxBatch, MaxCopies, MaxClock, MaxDeaths} \subseteq Nat
  /\ UploadsFail \in BOOLEAN
  /\ IsFiniteSet(Pings)
  \* when the clock saturates, no ping is fresh any more
  /\ \A r \in Pings : TimeOf[r] + MaxAge < MaxClock

VARIABLES
  pc,          \* where the process is; "down" when there is none
  stopping,    \* the signal handler's flag
  mode,        \* position in config.vehicle_types of the poll under way
  accepted,    \* the poll under way accepted rows
  clock,       \* the present instant
  sinceFlush,  \* loop_started - last_partial_flush, saturating
  cutoff,      \* flush_before of the last flush, a time in Warsaw
  todo,        \* partitions the flush under way has still to visit
  flushOk,     \* flush_succeeded
  exit,        \* how this process is ending; when down, how the last one did
  buffers,     \* memory: copies of each ping
  spool,       \* buffers.json
  parts,       \* objects of raw/gps, each the multiset of its rows
  deaths       \* bookkeeping of the bound MaxDeaths

memory  == <<stopping, mode, accepted, sinceFlush, cutoff, todo, flushOk>>
durable == <<spool, parts>>
vars == <<pc, memory, clock, exit, buffers, durable, deaths>>

Bag == [Pings -> Nat]
NoRows == [r \in Pings |-> 0]
RowsOf(bag) == {r \in Pings : bag[r] > 0}
Size(bag) == MapThenSumSet(LAMBDA r : bag[r], Pings)

Capped(n, cap) == IF n < cap THEN n ELSE cap

Modes == 1 .. ModeCount

(* What the clocks of Warsaw show at an instant: WARSAW_TZ.  Comparing two such *)
(* times, and taking a time from one, Python looks at nothing else.            *)
Warsaw(t) == IF t < ShiftAt THEN t ELSE t + ShiftBy

(* _hour_key; the hour that the autumn repeats is one hour.                    *)
HourOf(r) == Warsaw(TimeOf[r]) \div HourLength
SlotOf(r) == <<ModeOf[r], HourOf(r)>>
Slots == {SlotOf(r) : r \in Pings}

(* Partitions are visited by vehicle type, then by hour.                       *)
Before(s, t) == s[1] < t[1] \/ (s[1] = t[1] /\ s[2] < t[2])
IsFirst(s) == s \in todo /\ \A t \in todo \ {s} : Before(s, t)

Archived == UNION {RowsOf(p) : p \in parts}
Running == pc # "down"

-----------------------------------------------------------------------------
(* The poll loop's own variables, once it is left, hold nothing.             *)
ForgetLoop ==
  /\ mode' = 1
  /\ accepted' = FALSE
  /\ sinceFlush' = 0
  /\ cutoff' = -1
  /\ todo' = {}
  /\ flushOk' = TRUE

(* Leaving the process: memory is gone, the exit status remains.             *)
Die(how) ==
  /\ pc' = "down"
  /\ exit' = how
  /\ buffers' = NoRows
  /\ stopping' = FALSE
  /\ ForgetLoop

LeaveLoop == pc' = "stopHealth" /\ ForgetLoop

(* An exception leaves the poll loop: main still drains, then re-raises.     *)
RaiseFromLoop ==
  /\ LeaveLoop
  /\ exit' = "raised"
  /\ UNCHANGED <<stopping, buffers>>

(* An exception leaves the step under way, wherever it is.                   *)
Raise == IF pc \in {"stopFlush", "stopSave"} THEN Die("raised") ELSE RaiseFromLoop

Misfortune == deaths < MaxDeaths /\ deaths' = deaths + 1

Init ==
  /\ pc = "down"
  /\ stopping = FALSE
  /\ mode = 1
  /\ accepted = FALSE
  /\ clock = 0
  /\ sinceFlush = 0
  /\ cutoff = -1
  /\ todo = {}
  /\ flushOk = TRUE
  /\ exit = "ok"
  /\ buffers = NoRows
  /\ spool = NoRows
  /\ parts = {}
  /\ deaths = 0

-----------------------------------------------------------------------------
(* _load_spool: the rows of the file.                                         *)
LoadedSpool_Forgotten == NoRows   \* mutant: every start begins with empty memory
LoadedSpool == spool

(* main: load the spool; last_partial_flush is 0 against the machine's        *)
(* uptime, so the first flush may be due at once or only later.               *)
Start ==
  /\ pc = "down"
  /\ pc' = "top"
  /\ exit' = "ok"
  /\ buffers' = LoadedSpool
  /\ sinceFlush' \in 0 .. FlushInterval
  /\ UNCHANGED <<stopping, mode, accepted, clock, cutoff, todo, flushOk, durable, deaths>>

(* The startup upload of health counters raises (their checkpoint cannot be   *)
(* rewritten): no poll happens, main drains and re-raises.                    *)
StartRaises ==
  /\ pc = "down"
  /\ Misfortune
  /\ LeaveLoop
  /\ exit' = "raised"
  /\ buffers' = LoadedSpool
  /\ UNCHANGED <<stopping, clock, durable>>

(* The while test of _run_poll_loop.                                          *)
LoopTop ==
  /\ pc = "top"
  /\ IF stopping
     THEN LeaveLoop
     ELSE /\ pc' = "poll"
          /\ UNCHANGED <<mode, accepted, sinceFlush, cutoff, todo, flushOk>>
  /\ UNCHANGED <<stopping, clock, exit, buffers, durable, deaths>>

(* _filter_fresh_rows, at a given instant.                                    *)
FreshAt_OneUnitOlder(r, now) ==   \* mutant: accepts rows older than the maximum age
  TimeOf[r] \in now - MaxAge - 1 .. now + FutureTolerance
FreshAt(r, now) == TimeOf[r] \in now - MaxAge .. now + FutureTolerance
Fresh(r) == FreshAt(r, clock)

(* _poll_vehicle_type: append the fresh rows of the answer.                   *)
PollSucceeds(answer) ==
  LET fresh == {r \in answer : Fresh(r)} IN
  /\ pc = "poll"
  /\ \A r \in answer : ModeOf[r] = mode
  /\ Cardinality(fresh) <= MaxBatch
  /\ \A r \in fresh : buffers[r] < MaxCopies
  /\ buffers' = [r \in Pings |-> IF r \in fresh THEN buffers[r] + 1 ELSE buffers[r]]
  /\ accepted' = (fresh # {})
  /\ pc' = "record"
  /\ UNCHANGED <<stopping, mode, clock, sinceFlush, cutoff, todo, flushOk, exit, durable, deaths>>

PollFails ==
  /\ pc = "poll"
  /\ accepted' = FALSE
  /\ pc' = "record"
  /\ UNCHANGED <<stopping, mode, clock, sinceFlush, cutoff, todo, flushOk, exit,
                 buffers, durable, deaths>>

(* The next vehicle type of _poll_vehicle_types, or the uploads.              *)
NextVehicleType ==
  IF mode = ModeCount
  THEN pc' = "uploads" /\ mode' = 1
  ELSE pc' = "poll" /\ mode' = mode + 1

(* health.record returned: the snapshot is taken only if rows were accepted.  *)
Record ==
  /\ pc = "record"
  /\ IF accepted THEN pc' = "save" /\ mode' = mode ELSE NextVehicleType
  /\ accepted' = FALSE
  /\ UNCHANGED <<stopping, clock, sinceFlush, cutoff, todo, flushOk,
                 exit, buffers, durable, deaths>>

(* health.check_capacity, health.record or health.upload raises.              *)
HealthRaises ==
  /\ pc \in {"poll", "record", "beat"}
  /\ Misfortune
  /\ RaiseFromLoop
  /\ UNCHANGED <<clock, durable>>

-----------------------------------------------------------------------------
(* _save_spool replaces the file by a snapshot of memory, or removes it when  *)
(* memory is empty; both are one atomic step for a process that may be killed.*)
AfterSave ==
  \/ pc = "save" /\ NextVehicleType /\ UNCHANGED <<sinceFlush, flushOk>>
  \/ /\ pc = "flushSave"
     /\ pc' = "beat"
     /\ mode' = mode
     /\ sinceFlush' = IF flushOk THEN 0 ELSE sinceFlush
     /\ flushOk' = TRUE

SaveSpool ==
  /\ pc \in {"save", "flushSave"}
  /\ Size(buffers) <= SpoolCap
  /\ spool' = buffers
  /\ AfterSave
  /\ UNCHANGED <<stopping, accepted, clock, cutoff, todo, exit, buffers, parts, deaths>>

(* The return value of main.                                                  *)
ExitStatus_IgnoresFlush == exit   \* mutant: only health uploads decide the status
ExitStatus == IF exit = "ok" /\ ~flushOk THEN "failed" ELSE exit

(* The last snapshot of _flush_shutdown.                                      *)
SaveSpoolAndExit ==
  /\ pc = "stopSave"
  /\ Size(buffers) <= SpoolCap
  /\ spool' = buffers
  /\ Die(ExitStatus)
  /\ UNCHANGED <<clock, parts, deaths>>

SaveSpoolTooBig_GoesOn ==         \* mutant: the full spool is logged and polling goes on
  /\ pc \in {"save", "flushSave"}
  /\ Size(buffers) > SpoolCap
  /\ AfterSave
  /\ UNCHANGED <<stopping, accepted, clock, cutoff, todo, exit, buffers, durable, deaths>>

SaveSpoolTooBig ==
  /\ pc \in {"save", "flushSave", "stopSave"}
  /\ Size(buffers) > SpoolCap
  /\ Raise
  /\ UNCHANGED <<clock, durable, deaths>>

SaveSpoolRaises ==
  /\ pc \in {"save", "flushSave", "stopSave"}
  /\ Misfortune
  /\ Raise
  /\ UNCHANGED <<clock, durable>>

-----------------------------------------------------------------------------
(* _handle_uploads: a flush when its interval has passed.                     *)
BufferedSlots_LastLeftOut ==      \* mutant: the newest partition is never visited
  LET all == {SlotOf(r) : r \in RowsOf(buffers)} IN {s \in all : \E t \in all : Before(s, t)}
BufferedSlots == {SlotOf(r) : r \in RowsOf(buffers)}

FlushDecision ==
  /\ pc = "uploads"
  /\ IF sinceFlush >= FlushInterval
     THEN /\ pc' = "flush"
          /\ cutoff' = Warsaw(clock) - FlushLag
          /\ todo' = BufferedSlots
          /\ flushOk' = TRUE
     ELSE /\ pc' = "beat"
          /\ UNCHANGED <<cutoff, todo, flushOk>>
  /\ UNCHANGED <<stopping, mode, accepted, clock, sinceFlush, exit, buffers, durable, deaths>>

(* rows_to_upload of a partition: all of it at shutdown, else up to the cutoff. *)
Due(r) == pc = "stopFlush" \/ Warsaw(TimeOf[r]) <= cutoff
BatchOf(s) == [r \in Pings |-> IF SlotOf(r) = s /\ Due(r) THEN buffers[r] ELSE 0]
Remaining_Swapped(batch) ==       \* mutant: the difference taken the wrong way round
  [r \in Pings |-> batch[r] - buffers[r]]
Remaining_WholeHour(batch) ==     \* mutant: rows after the cutoff go with their hour
  [r \in Pings |-> IF \E u \in RowsOf(batch) : SlotOf(u) = SlotOf(r) THEN 0 ELSE buffers[r]]
Remaining(batch) == [r \in Pings |-> buffers[r] - batch[r]]

Visit(s) == IsFirst(s) /\ todo' = todo \ {s}

SkipHour ==
  /\ pc \in {"flush", "stopFlush"}
  /\ \E s \in todo : Visit(s) /\ BatchOf(s) = NoRows
  /\ UNCHANGED <<pc, stopping, mode, accepted, clock, sinceFlush, cutoff, flushOk,
                 exit, buffers, durable, deaths>>

(* _upload_hour: the object's name is the digest of its rows and creation is   *)
(* conditional, so an object that already exists counts as uploaded.           *)
UploadHour(s) ==
  /\ pc \in {"flush", "stopFlush"}
  /\ Visit(s)
  /\ BatchOf(s) # NoRows
  /\ parts' = parts \cup {BatchOf(s)}
  /\ buffers' = Remaining(BatchOf(s))
  /\ UNCHANGED <<pc, stopping, mode, accepted, clock, sinceFlush, cutoff, flushOk,
                 exit, spool, deaths>>

(* A caught error: the rows stay buffered.  The request may have been lost, or *)
(* applied and only its answer lost.                                           *)
UploadHourFails_Popped(applied) ==  \* mutant: the hour is popped whether or not it was uploaded
  /\ UploadsFail
  /\ pc \in {"flush", "stopFlush"}
  /\ \E s \in todo :
       /\ Visit(s)
       /\ BatchOf(s) # NoRows
       /\ parts' = IF applied THEN parts \cup {BatchOf(s)} ELSE parts
       /\ buffers' = Remaining(BatchOf(s))
  /\ flushOk' = FALSE
  /\ UNCHANGED <<pc, stopping, mode, accepted, clock, sinceFlush, cutoff, exit, spool, deaths>>

UploadHourFails(applied) ==
  /\ UploadsFail
  /\ pc \in {"flush", "stopFlush"}
  /\ \E s \in todo :
       /\ Visit(s)
       /\ BatchOf(s) # NoRows
       /\ parts' = IF applied THEN parts \cup {BatchOf(s)} ELSE parts
  /\ flushOk' = FALSE
  /\ UNCHANGED <<pc, stopping, mode, accepted, clock, sinceFlush, cutoff, exit,
                 buffers, spool, deaths>>

(* An error that _flush_buffered_rows does not catch (an expired credential).  *)
UploadHourRaises(applied) ==
  /\ pc \in {"flush", "stopFlush"}
  /\ Misfortune
  /\ \E s \in todo :
       /\ IsFirst(s)
       /\ BatchOf(s) # NoRows
       /\ parts' = IF applied THEN parts \cup {BatchOf(s)} ELSE parts
  /\ Raise
  /\ UNCHANGED <<clock, spool>>

FlushEnds ==
  /\ pc \in {"flush", "stopFlush"}
  /\ todo = {}
  /\ pc' = IF pc = "flush" THEN "flushSave" ELSE "stopSave"
  /\ UNCHANGED <<memory, clock, exit, buffers, durable, deaths>>

(* The heartbeat tick, whose health upload returned.                           *)
Heartbeat ==
  /\ pc = "beat"
  /\ pc' = "sleep"
  /\ UNCHANGED <<memory, clock, exit, buffers, durable, deaths>>

(* _sleep_remaining: the next loop starts at least one unit later.             *)
WakeUp ==
  /\ pc = "sleep"
  /\ pc' = "top"
  /\ clock' = Capped(clock + 1, MaxClock)
  /\ sinceFlush' = Capped(sinceFlush + 1, FlushInterval)
  /\ UNCHANGED <<stopping, mode, accepted, cutoff, todo, flushOk, exit, buffers, durable, deaths>>

-----------------------------------------------------------------------------
(* _flush_health_shutdown returns, with or without pending uploads, or raises; *)
(* _flush_shutdown follows in every case.                                      *)
ShutdownFlushBegins(how) ==
  /\ pc' = "stopFlush"
  /\ exit' = IF exit = "raised" THEN exit ELSE how
  /\ todo' = BufferedSlots
  /\ flushOk' = TRUE
  /\ UNCHANGED <<stopping, mode, accepted, clock, sinceFlush, cutoff, buffers, durable>>

FlushHealthShutdown ==
  /\ pc = "stopHealth"
  /\ \E how \in {"ok", "failed"} : ShutdownFlushBegins(how)
  /\ UNCHANGED deaths

FlushHealthShutdownRaises ==
  /\ pc = "stopHealth"
  /\ Misfortune
  /\ ShutdownFlushBegins("raised")

(* SIGINT or SIGTERM.  --once has the effect of a signal in the first loop.    *)
Signal ==
  /\ Running /\ ~stopping
  /\ stopping' = TRUE
  /\ UNCHANGED <<pc, mode, accepted, clock, sinceFlush, cutoff, todo, flushOk,
                 exit, buffers, durable, deaths>>

(* The process is killed.                                                      *)
Crash ==
  /\ Running
  /\ Misfortune
  /\ Die("killed")
  /\ UNCHANGED <<clock, durable>>

(* Time passes while the process works, or while there is none.                *)
Tick ==
  /\ pc # "sleep"
  /\ clock < MaxClock
  /\ clock' = clock + 1
  /\ UNCHANGED <<pc, memory, exit, buffers, durable, deaths>>

Poll == PollFails \/ \E answer \in SUBSET Pings : PollSucceeds(answer)

Flush ==
  \/ SkipHour \/ FlushEnds
  \/ \E s \in todo : UploadHour(s)
  \/ \E applied \in BOOLEAN : UploadHourFails(applied) \/ UploadHourRaises(applied)

Next ==
  \/ Start \/ StartRaises \/ LoopTop \/ Poll \/ Record \/ HealthRaises
  \/ SaveSpool \/ SaveSpoolAndExit \/ SaveSpoolTooBig \/ SaveSpoolRaises
  \/ FlushDecision \/ Flush \/ Heartbeat \/ WakeUp
  \/ FlushHealthShutdown \/ FlushHealthShutdownRaises
  \/ Signal \/ Crash \/ Tick

Spec == Init /\ [][Next]_vars

(* Fairness.  The process is scheduled and the container is restarted when it  *)
(* ends (WF on every step the program itself takes); an upload that is tried   *)
(* again and again for a partition succeeds again and again (SF).  Nothing is  *)
(* assumed of the API, of signals or of failures other than their bound.       *)
ProgramStep ==
  \/ Start \/ LoopTop \/ Poll \/ Record \/ SaveSpool \/ SaveSpoolAndExit
  \/ SaveSpoolTooBig \/ FlushDecision \/ Flush \/ Heartbeat \/ WakeUp
  \/ FlushHealthShutdown

FairSpec ==
  /\ Spec
  /\ WF_vars(ProgramStep)
  /\ \A s \in Slots : SF_vars(s \in todo /\ UploadHour(s))

-----------------------------------------------------------------------------
PCs == {"down", "top", "poll", "record", "save", "uploads", "flush", "flushSave",
        "beat", "sleep", "stopHealth", "stopFlush", "stopSave"}

(* Types of every variable.                                                    *)
TypeOK ==
  /\ pc \in PCs
  /\ stopping \in BOOLEAN
  /\ mode \in Modes
  /\ accepted \in BOOLEAN
  /\ clock \in Nat
  /\ sinceFlush \in 0 .. FlushInterval
  /\ cutoff \in Int
  /\ todo \subseteq Slots
  /\ flushOk \in BOOLEAN
  /\ exit \in {"ok", "failed", "raised", "killed"}
  /\ buffers \in Bag
  /\ spool \in Bag
  /\ parts \subseteq Bag
  /\ deaths \in 0 .. MaxDeaths

(* While the process runs, every ping in the spool file is in memory or in an  *)
(* archived object, so that replacing the file by a snapshot of memory         *)
(* (_save_spool) can never lose the only copy, whatever failed before.         *)
SpoolBacked == Running => RowsOf(spool) \subseteq RowsOf(buffers) \cup Archived

(* Durable storage as the ledger of RowLedger.                                 *)
LedgerView ==
  [r \in Pings |-> IF r \in Archived THEN "archived"
                   ELSE IF spool[r] > 0 THEN "spooled" ELSE "absent"]

Ledger == INSTANCE RowLedger WITH ledger <- LedgerView

(* The poller implements the ledger: a ping whose snapshot was written stays   *)
(* in the spool until an object holds it, across failed uploads, exceptions,   *)
(* kills and restarts, and an upload archives pings of one partition only.     *)
LedgerRefined == Ledger!LedgerSpec

(* A ping leaves the process's memory only for the archive, or because the     *)
(* process died by an exception or a kill; an orderly exit, even one that      *)
(* reports failed uploads, leaves every accepted ping in the spool.            *)
LeavesMemoryArchived ==
  [][\A r \in RowsOf(buffers) \ RowsOf(buffers') :
        \/ r \in Archived'
        \/ ~Running' /\ (spool'[r] > 0 \/ exit' \in {"raised", "killed"})]_vars

(* Exit status 0 is given only when nothing is left to upload.                 *)
CleanExitDrains == pc = "down" /\ exit = "ok" => spool = NoRows

(* The cap bounds the disk, and memory to one API answer beyond it: at the cap *)
(* the loop stops polling instead of collecting what it cannot snapshot.       *)
BoundedBacklog == Size(spool) <= SpoolCap /\ Size(buffers) <= SpoolCap + MaxBatch

(* The flush and the ping are on different sides of a change of the clocks:    *)
(* in spring the hour that was skipped makes a ping from before look old; in   *)
(* autumn one stamped ahead of its time, in the repeated hour, does.           *)
AcrossChange(r) ==
  \/ ShiftBy > 0 /\ TimeOf[r] < ShiftAt /\ ShiftAt <= clock
  \/ ShiftBy < 0 /\ ShiftAt <= TimeOf[r] /\ TimeOf[r] < ShiftAt + FutureTolerance

(* With a lag of at least the maximum age, a ping that a periodic flush takes  *)
(* out of memory is not accepted again by a later poll, so that all its copies *)
(* are in that flush's one object; only a change of the clocks breaks this.    *)
CutoffIsFinal ==
  [][FlushLag >= MaxAge /\ pc = "flush" /\ pc' = "flush" =>
       \A r \in Pings : buffers'[r] < buffers[r] =>
         AcrossChange(r) \/ \A later \in clock + 1 .. MaxClock : ~FreshAt(r, later)]_vars

(* The facts that make CleanExitDrains inductive and CutoffIsFinal a           *)
(* consequence: while the shutdown flush has met no failure, what is still in  *)
(* memory is still to be visited; the cutoff of a flush was taken from a clock *)
(* that has only gone on since, and what is stored was never far in its future.*)
DrainCovers ==
  /\ pc = "stopFlush" /\ flushOk => \A r \in RowsOf(buffers) : SlotOf(r) \in todo
  /\ pc = "stopSave" /\ flushOk => RowsOf(buffers) = {}

Accepted(r, now) == TimeOf[r] <= now + FutureTolerance
CutoffTaken ==
  /\ clock <= MaxClock
  /\ \A r \in RowsOf(spool) : Accepted(r, clock)
  /\ \A r \in RowsOf(buffers) : Accepted(r, clock)
  /\ pc = "flush" =>
       \E then \in 0 .. clock :
         /\ cutoff = Warsaw(then) - FlushLag
         /\ \A r \in RowsOf(buffers) : Accepted(r, then)

(* Every ping whose snapshot was written is archived in the end.               *)
EventuallyArchived == \A r \in Pings : spool[r] > 0 ~> r \in Archived

=============================================================================
