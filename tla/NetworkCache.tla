------------------------------ MODULE NetworkCache -------------------------------
(* journey.py and planner_warmup.py of the frontend: request threads and the     *)
(* warmup thread load day networks of the planner artifact into one cache, while *)
(* new artifacts are renamed over its path. Everything a request reads comes     *)
(* from its own connection (db.py), which may be of an earlier artifact.         *)
EXTENDS Integers, FiniteSets, SequencesExt

CONSTANTS
  Threads,       \* request threads
  Covers,        \* days of each artifact that is published, in turn
  WarmDays, CachedDays,
  MaxToday, MaxRequests   \* days that pass, requests: bounds of the model

NetworkAssumption ==
  /\ Covers \in Seq(SUBSET Nat) \ {<<>>} /\ {WarmDays, CachedDays} \subseteq Nat /\ WarmDays < CachedDays
  /\ MaxToday \in Nat /\ "warmer" \notin Threads

VARIABLES
  file,        \* the artifact at the path, 0 if there is none
  today,
  cache,       \* networks [key, build]: the least recently used first
  pinned,      \* keys protected from eviction
  builder,     \* the actor that holds the build lock
  job,         \* what each thread is doing: connection's build, day, network found
  warm,        \* the pass under way: the identity it began with, days to do
  done,        \* _completed
  requests

vars == <<file, today, cache, pinned, builder, job, warm, done, requests>>

Warmer == "warmer"
Actors == Threads \union {Warmer}
None == <<>>
Idle == [step |-> "idle", build |-> 0, day |-> 0, got |-> None]
First(S) == CHOOSE x \in S : \A y \in S : x <= y
Keys == {cache[k].key : k \in DOMAIN cache}
Horizon(b, t) == {d \in t .. t + WarmDays - 1 : d \in Covers[b]}

\* DuckDB: connections of one process to one path share an instance while any is open.
Shared == {job[r].build : r \in {q \in Threads : job[q].step # "idle"}}
Opened == IF Shared = {} THEN file ELSE CHOOSE b \in Shared : TRUE

Step(a, step) == job' = [job EXCEPT ![a].step = step]

--------------------------------------------------------------------------------
(* journey.network *)

\* mutant: the key is made from the file's metadata
Key_File(a) == <<file, job[a].day>>

Key(a) == <<job[a].build, job[a].day>>

Entry(a) == cache[CHOOSE k \in DOMAIN cache : cache[k].key = Key(a)]
Used(a) == Append(RemoveAt(cache, CHOOSE k \in DOMAIN cache : cache[k].key = Key(a)), Entry(a))

\* mutant: the oldest entry goes, pinned or not
Evictable_All(entries, pins) == DOMAIN entries

Evictable(entries, pins) == {k \in DOMAIN entries : entries[k].key \notin pins}

\* _trim_cache
Trimmed(entries, pins) ==
  IF Len(entries) > CachedDays /\ Evictable(entries, pins) # {}
  THEN RemoveAt(entries, First(Evictable(entries, pins)))
  ELSE entries

\* What the actor does with the network.
Got(a, n) == job' = [job EXCEPT ![a].step = "got", ![a].got = <<n>>]

Lookup(a) ==
  /\ job[a].step = "lookup"
  /\ \/ Key(a) \in Keys /\ Got(a, Entry(a)) /\ cache' = Used(a)
     \/ Key(a) \notin Keys /\ Step(a, "lock") /\ UNCHANGED cache
  /\ UNCHANGED <<file, today, pinned, builder, warm, done, requests>>

Rebuilt(a) == Key(a) \notin Keys

BuildLock(a) ==
  /\ job[a].step = "lock" /\ builder = None
  /\ \/ ~Rebuilt(a) /\ Got(a, Entry(a)) /\ cache' = Used(a) /\ UNCHANGED builder
     \/ Rebuilt(a) /\ Step(a, "build") /\ builder' = <<a>> /\ UNCHANGED cache
  /\ UNCHANGED <<file, today, pinned, warm, done, requests>>

\* Network(connection, day), and the insertion.
Build(a) ==
  /\ job[a].step = "build"
  /\ LET built == [key |-> Key(a), build |-> job[a].build]
     IN  Got(a, built) /\ cache' = Trimmed(Append(cache, built), pinned)
  /\ builder' = None
  /\ UNCHANGED <<file, today, pinned, warm, done, requests>>

\* Something raises: the lock is released, a pass stays undone.
Fail(a) ==
  /\ job[a].step \in {"open", "lookup", "lock", "build"}
  /\ job' = [job EXCEPT ![a] = Idle]
  /\ builder' = IF builder = <<a>> THEN None ELSE builder
  /\ warm' = IF a = Warmer THEN None ELSE warm
  /\ UNCHANGED <<file, today, cache, pinned, done, requests>>

--------------------------------------------------------------------------------
(* requests *)

\* The first query of a request opens its connection, which is also read for the days.
Request(r) ==
  /\ job[r].step = "idle" /\ requests < MaxRequests /\ requests' = requests + 1
  /\ file # 0
  /\ \E d \in Covers[Opened] : job' = [job EXCEPT ![r] = [step |-> "lookup", build |-> Opened, day |-> d, got |-> None]]
  /\ UNCHANGED <<file, today, cache, pinned, builder, warm, done>>

Answer(r) ==
  /\ job[r].step = "got" /\ job' = [job EXCEPT ![r] = Idle]
  /\ UNCHANGED <<file, today, cache, pinned, builder, warm, done, requests>>

--------------------------------------------------------------------------------
(* Warmer.check *)

Identity == <<file, today>>

Check ==
  /\ job[Warmer] = Idle
  /\ IF file = 0 THEN done' = None /\ UNCHANGED <<warm, job>>
     ELSE /\ Identity # done /\ warm' = [identity |-> Identity, days |-> {}]
          /\ Step(Warmer, "open") /\ UNCHANGED done
  /\ UNCHANGED <<file, today, cache, pinned, builder, requests>>

NextDay(build, days) ==
  IF days = {} THEN job' = [job EXCEPT ![Warmer] = [Idle EXCEPT !.step = "warmed", !.build = build]]
  ELSE job' = [job EXCEPT ![Warmer] = [step |-> "lookup", build |-> build, day |-> First(days), got |-> None]]

\* A private instance of the artifact that is at the path now; pin_days.
Open ==
  /\ job[Warmer].step = "open"
  /\ LET days == Horizon(file, warm.identity[2])
     IN  /\ pinned' = {file} \X days
         /\ cache' = Trimmed(cache, {file} \X days)
         /\ warm' = [warm EXCEPT !.days = days]
         /\ NextDay(file, days)
  /\ UNCHANGED <<file, today, builder, done, requests>>

WarmDay ==
  /\ job[Warmer].step = "got"
  /\ LET rest == warm.days \ {job[Warmer].day}
     IN  warm' = [warm EXCEPT !.days = rest] /\ NextDay(job[Warmer].build, rest)
  /\ UNCHANGED <<file, today, cache, pinned, builder, done, requests>>

\* mutant: the identity is taken again at the end
Warmed_Now == Identity

Warmed == warm.identity

Finish ==
  /\ job[Warmer].step = "warmed"
  /\ done' = Warmed /\ warm' = None /\ job' = [job EXCEPT ![Warmer] = Idle]
  /\ UNCHANGED <<file, today, cache, pinned, builder, requests>>

--------------------------------------------------------------------------------
(* around them *)

\* The planner pipeline renames a new artifact over the path.
Publish ==
  /\ file < Len(Covers) /\ file' = file + 1
  /\ UNCHANGED <<today, cache, pinned, builder, job, warm, done, requests>>

Midnight ==
  /\ today < MaxToday /\ today' = today + 1
  /\ UNCHANGED <<file, cache, pinned, builder, job, warm, done, requests>>

Init ==
  /\ file \in {0, 1} /\ today = 1 /\ cache = <<>> /\ pinned = {} /\ builder = None
  /\ job = [a \in Actors |-> Idle] /\ warm = None /\ done = None /\ requests = 0

Stopped ==
  /\ file = Len(Covers) /\ today = MaxToday /\ requests = MaxRequests /\ done = Identity
  /\ \A a \in Actors : job[a] = Idle

Next ==
  \/ \E a \in Actors : Lookup(a) \/ BuildLock(a) \/ Build(a) \/ Fail(a)
  \/ \E r \in Threads : Request(r) \/ Answer(r)
  \/ Check \/ Open \/ WarmDay \/ Finish \/ Publish \/ Midnight
  \/ Stopped /\ UNCHANGED vars

Spec == Init /\ [][Next]_vars

--------------------------------------------------------------------------------
TypeOK ==
  /\ file \in 0 .. Len(Covers) /\ today \in 1 .. MaxToday /\ requests \in 0 .. MaxRequests
  /\ Cardinality(pinned) <= WarmDays
  /\ builder # None => builder[1] \in Actors
  /\ \A a \in Actors : job[a].step \in {"idle", "open", "lookup", "lock", "build", "got", "warmed"}

\* A request is answered with the network of the artifact its connection reads, whatever
\* has been renamed over the path meanwhile: its page and its journeys are of one build.
OneSnapshot == \A r \in Threads : job[r].got # None => job[r].got[1].build = job[r].build

\* When the warmer has nothing to do, the networks of today and the next days of the
\* artifact at the path are in the cache, and protected.
IdleMeansWarm ==
  file # 0 /\ done = Identity => {file} \X Horizon(file, today) \subseteq Keys \intersect pinned

\* No network is in the cache twice, and the cache keeps to its size: over it there is
\* always an entry that is not pinned, though pins come before their networks.
CacheKept ==
  /\ \A i, j \in DOMAIN cache : cache[i].key = cache[j].key => i = j
  /\ Len(cache) <= CachedDays

\* A network stays as long as it is pinned.
PinsHold == Keys \intersect pinned \intersect pinned' \subseteq Keys'

--------------------------------------------------------------------------------
(* What makes the safety properties inductive *)

Entries == [key : Nat \X Nat, build : Nat]
Steps == {"idle", "open", "lookup", "lock", "build", "got", "warmed"}
Shapes ==
  /\ file \in 0 .. Len(Covers) /\ today \in Nat
  /\ cache \in Seq(Entries) /\ pinned \in SUBSET (Nat \X Nat)
  /\ builder \in Seq(Actors)
  /\ job \in [Actors -> [step : Steps, build : Nat, day : Nat, got : Seq(Entries)]]
  /\ \A r \in Threads : job[r].step \notin {"open", "warmed"} /\ (job[r].step # "idle" => job[r].build \in 1 .. file)

\* Entries are of the build in their key; a pass pins fewer than the cache can hold.
EntriesInv == CacheKept /\ \A i \in DOMAIN cache : cache[i].build = cache[i].key[1]
PinsInv == IsFiniteSet(pinned) /\ Cardinality(pinned) <= WarmDays
GotInv == \A a \in Actors : job[a].got # None => job[a].got[1].build = job[a].build

\* Whoever builds holds the lock, and nobody else can add the network meanwhile.
BuilderInv == \A a \in Actors : job[a].step = "build" => builder = <<a>> /\ Key(a) \notin Keys

\* A pass is begun for the artifact at the path, or what replaced it since.
Passing == job[Warmer].step # "idle"
PassInv ==
  Passing =>
    /\ warm \in [identity : Nat \X Nat, days : SUBSET Nat]
    /\ warm.identity[1] <= file /\ warm.identity[2] <= today /\ file # 0 /\ done # Identity

\* From Open on, it has pinned the days of its build and warmed all but warm.days; its
\* build is no older than the artifact it was begun for.
DaysInv ==
  Passing /\ job[Warmer].step # "open" =>
    LET build == job[Warmer].build
        days == Horizon(build, warm.identity[2])
    IN  /\ build \in 1 .. file /\ warm.identity[1] <= build
        /\ pinned = {build} \X days /\ warm.days \subseteq days
        /\ {build} \X (days \ warm.days) \subseteq Keys
DayInv ==
  /\ job[Warmer].step \in {"lookup", "lock", "build", "got"} => job[Warmer].day \in warm.days
  /\ job[Warmer].step = "got" => Key(Warmer) \in Keys
  /\ job[Warmer].step = "warmed" => warm.days = {}

DoneInv == done # None => done \in Nat \X Nat /\ done[1] <= file /\ done[2] <= today

NetworkInv ==
  /\ Shapes /\ EntriesInv /\ PinsInv /\ GotInv /\ BuilderInv
  /\ PassInv /\ DaysInv /\ DayInv /\ DoneInv /\ IdleMeansWarm
==================================================================================
