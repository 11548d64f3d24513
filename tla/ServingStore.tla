----------------------------- MODULE ServingStore -----------------------------
(* The partitioned serving store of airflow/dags/dag_serving_export.py: an     *)
(* export run extracts the changed partitions of a warehouse table to a cache  *)
(* in GCS, downloads them into generation directories next to the catalog, and *)
(* replaces the catalog that readers open.                                     *)
(*                                                                             *)
(* Abstractions: one sharded table (each goes through the same steps); a       *)
(* generation is one file, present or not; the content of a partition is a     *)
(* version number, its row count Rows[version]; the order of dates within a    *)
(* loop is left open; a partition that BigQuery dropped after it was listed     *)
(* fails its extract.  BigQuery, GCS and the readers are external.             *)
EXTENDS Naturals, FiniteSets, FiniteSetsExt

CONSTANTS
  Partitions,     \* the dates of the table
  Ids,            \* export ids; a run may be given one that was used before
  None,
  Rows,           \* rows of a partition, by version
  Retention,      \* staging_retention_days
  MaxHold,        \* how long a reader keeps a catalog open
  MaxClock,       \* bound: the clock stops here
  MaxVersion,     \* bound: versions of a partition
  MaxWrites,      \* bound: changes of the warehouse
  MaxCrashes,     \* bound: kills, and exceptions no except block answers
  MaxRaises,      \* bound: exceptions that an except block rolls back
  UnlinkMayFail   \* whether removing the .pending marker may raise

ASSUME ServingAssumption ==
  /\ None \notin Ids /\ None \notin Nat
  /\ Partitions # {} /\ IsFiniteSet(Partitions) /\ IsFiniteSet(Ids)
  /\ {Retention, MaxHold, MaxClock, MaxVersion, MaxWrites, MaxCrashes, MaxRaises} \subseteq Nat
  /\ Rows \in [0 .. MaxVersion -> Nat]
  /\ UnlinkMayFail \in BOOLEAN
  /\ MaxHold <= Retention

Generations == Partitions \X Ids
Versions == 0 .. MaxVersion
Clock == 0 .. MaxClock

VARIABLES
  warehouse, present,    \* BigQuery: version of each partition; those it lists
  jobs,                  \* BigQuery: export ids whose first job it has accepted
  blobs, cacheManifest,  \* GCS: version per generation; _MANIFEST.json's generation
  dirs,                  \* generation directories on the serving disk
  files,                 \* version of the Parquet in each; None unless complete
  pending, marked,       \* .pending markers; mtime of .inactive markers
  manifest,              \* local _MANIFEST.json: the active generation
  catalog, sidecar,      \* ztm.duckdb: its id and the generations it reads; meta.json's id
  held, heldSince,       \* a reader: the generations of the catalog it opened, and when
  pc, run, todo, cur,    \* the export run: where it is, its locals, its loop
  now, writes, crashes, raises

disk == <<dirs, files, pending, marked, manifest>>
cache == <<blobs, cacheManifest>>
source == <<warehouse, present, writes>>
reader == <<held, heldSince>>
published == <<catalog, sidecar>>
faults == <<crashes, raises>>
vars == <<source, jobs, cache, disk, published, reader, pc, run, todo, cur, now, faults>>

NoUses == [p \in Partitions |-> None]
NoRun == [id |-> None, dates |-> {}, at |-> 0, source |-> [p \in Partitions |-> 0], live |-> {},
          doomed |-> {}, uses |-> NoUses, prior |-> None]

Init ==
  /\ warehouse = [p \in Partitions |-> 0] /\ present = {} /\ writes = 0
  /\ jobs = {}
  /\ blobs = [g \in Generations |-> None] /\ cacheManifest = NoUses
  /\ dirs = {} /\ files = [g \in Generations |-> None]
  /\ pending = {} /\ marked = [g \in Generations |-> None]
  /\ manifest = NoUses
  /\ catalog = [id |-> None, uses |-> NoUses] /\ sidecar = None
  /\ held = NoUses /\ heldSince = 0
  /\ pc = "idle" /\ run = NoRun /\ todo = {} /\ cur = None
  /\ now = 0 /\ crashes = 0 /\ raises = 0

-----------------------------------------------------------------------------
(* What a run may find on disk and in GCS.                                    *)

Names(uses) == {g \in Generations : uses[g[1]] = g[2]}
\* A manifest that names a missing file makes the code raise.
Readable(p) == manifest[p] # None => files[<<p, manifest[p]>>] # None
CacheReadable(p) == cacheManifest[p] # None => blobs[<<p, cacheManifest[p]>>] # None

Refreshed(p) == run.dates = {} \/ p \in run.dates

RowTotal(versions, live) == MapThenSumSet(LAMBDA p : Rows[versions[p]], live)
Shown(uses) == [p \in Partitions |-> IF uses[p] = None THEN 0 ELSE files[<<p, uses[p]>>]]

\* rmtree
Removed(G) ==
  /\ dirs' = dirs \ G
  /\ pending' = pending \ G
  /\ files' = [g \in Generations |-> IF g \in G THEN None ELSE files[g]]
  /\ marked' = [g \in Generations |-> IF g \in G THEN None ELSE marked[g]]

(* The process ends, in whatever way; a later run starts from the disk.       *)
Stop ==
  /\ pc' = "idle"
  /\ run' = NoRun
  /\ todo' = {}
  /\ cur' = None

-----------------------------------------------------------------------------
Start(i, dates) ==
  /\ pc = "idle"
  /\ pc' = "sweep"
  /\ run' = [NoRun EXCEPT !.id = i, !.dates = dates, !.at = now,
                          !.source = warehouse, !.live = present]
  /\ todo' = Partitions
  /\ UNCHANGED <<source, jobs, cache, disk, published, reader, cur, now, faults>>

(* Leftovers of interrupted downloads go; an active generation only loses its *)
(* marker.                                                                    *)
Incomplete_IgnoringManifest(p) ==   \* mutant: does not ask which generation is active
  {g \in pending : g[1] = p}
Incomplete_Inactive(p) ==   \* mutant: takes what is not active for a leftover
  {g \in dirs : g[1] = p /\ g[2] # manifest[p]}

Incomplete(p) == {g \in pending : g[1] = p /\ g[2] # manifest[p]}

Sweep(p) ==
  /\ pc = "sweep" /\ p \in todo
  /\ Readable(p)
  /\ dirs' = dirs \ Incomplete(p)
  /\ pending' = {g \in pending : g[1] # p}
  /\ files' = [g \in Generations |-> IF g \in Incomplete(p) THEN None ELSE files[g]]
  /\ marked' = [g \in Generations |-> IF g \in Incomplete(p) THEN None ELSE marked[g]]
  /\ todo' = todo \ {p}
  /\ pc' = IF todo = {p} THEN "globals" ELSE "sweep"
  /\ UNCHANGED <<source, jobs, cache, manifest, published, reader, run, cur, now, faults>>

(* The global tables; their first job is refused if the id has been used.     *)
ExtractGlobals ==
  /\ pc = "globals"
  /\ run.id \notin jobs
  /\ jobs' = jobs \union {run.id}
  /\ pc' = "list"
  /\ UNCHANGED <<source, cache, disk, published, reader, run, todo, cur, now, faults>>

Cached == {p \in Partitions : cacheManifest[p] # None}
ToExtract == (IF run.dates = {} THEN present ELSE run.dates \intersect present)
               \union (present \ Cached)

ListCache ==
  /\ pc = "list"
  /\ \A p \in Partitions : CacheReadable(p)
  /\ run' = [run EXCEPT !.doomed = Cached \ present]
  /\ todo' = ToExtract
  /\ pc' = IF run'.doomed = {} THEN "extract" ELSE "delete"
  /\ UNCHANGED <<source, jobs, cache, disk, published, reader, cur, now, faults>>

(* Blobs are deleted in listing order, in which the manifest comes first.     *)
DeleteCacheManifest(p) ==
  /\ pc = "delete" /\ p \in run.doomed /\ cacheManifest[p] # None
  /\ cacheManifest' = [cacheManifest EXCEPT ![p] = None]
  /\ UNCHANGED <<source, jobs, blobs, disk, published, reader, pc, run, todo, cur, now, faults>>

DeleteCacheBlobs(p) ==
  /\ pc = "delete" /\ p \in run.doomed /\ cacheManifest[p] = None
  /\ blobs' = [g \in Generations |-> IF g[1] = p THEN None ELSE blobs[g]]
  /\ run' = [run EXCEPT !.doomed = @ \ {p}]
  /\ pc' = IF run.doomed = {p} THEN "extract" ELSE "delete"
  /\ UNCHANGED <<source, jobs, cacheManifest, disk, published, reader, todo, cur, now, faults>>

(* _replace_partition_cache: copy, then the manifest, then the old blobs.     *)
Extract_OverOld(p) ==   \* mutant: the old blobs go before the manifest names the new
  /\ pc = "extract" /\ p \in todo /\ p \in present
  /\ blobs' = [g \in Generations |-> IF g[1] # p THEN blobs[g]
                                     ELSE IF g[2] = run.id THEN warehouse[p] ELSE None]
  /\ cur' = p
  /\ pc' = "flip"
  /\ UNCHANGED <<source, jobs, cacheManifest, disk, published, reader, run, todo, now, faults>>

Extract(p) ==
  /\ pc = "extract" /\ p \in todo /\ p \in present
  /\ blobs' = [blobs EXCEPT ![<<p, run.id>>] = warehouse[p]]
  /\ cur' = p
  /\ pc' = "flip"
  /\ UNCHANGED <<source, jobs, cacheManifest, disk, published, reader, run, todo, now, faults>>

FlipCache ==
  /\ pc = "flip"
  /\ cacheManifest' = [cacheManifest EXCEPT ![cur] = run.id]
  /\ pc' = "trim"
  /\ UNCHANGED <<source, jobs, blobs, disk, published, reader, run, todo, cur, now, faults>>

TrimCache ==
  /\ pc = "trim"
  /\ blobs' = [g \in Generations |-> IF g[1] = cur /\ g[2] # run.id THEN None ELSE blobs[g]]
  /\ todo' = todo \ {cur}
  /\ cur' = None
  /\ pc' = "extract"
  /\ UNCHANGED <<source, jobs, cacheManifest, disk, published, reader, run, now, faults>>

-----------------------------------------------------------------------------
(* The warehouse's partitions are listed anew for the local directories; the  *)
(* manifests of those it no longer has are removed.                           *)
Deactivate ==
  /\ pc = "extract" /\ todo = {}
  /\ todo' = present
  /\ manifest' = [p \in Partitions |-> IF p \in present THEN manifest[p] ELSE None]
  /\ pc' = "local"
  /\ UNCHANGED <<source, jobs, cache, dirs, files, pending, marked, published, reader,
                 run, cur, now, faults>>

Reuse_EvenChanged(p) ==   \* mutant: an active generation is reused though its date changed
  /\ pc = "local" /\ p \in todo
  /\ manifest[p] # None /\ Readable(p)
  /\ run' = [run EXCEPT !.uses[p] = manifest[p]]
  /\ todo' = todo \ {p}
  /\ UNCHANGED <<source, jobs, cache, disk, published, reader, pc, cur, now, faults>>

Reuse(p) ==
  /\ pc = "local" /\ p \in todo
  /\ manifest[p] # None /\ Readable(p) /\ ~Refreshed(p)
  /\ run' = [run EXCEPT !.uses[p] = manifest[p]]
  /\ todo' = todo \ {p}
  /\ UNCHANGED <<source, jobs, cache, disk, published, reader, pc, cur, now, faults>>

(* _replace_local_partition_cache, up to generation_dir.mkdir: it too starts  *)
(* with the leftovers of the partition.                                       *)
CanReplace(p) ==
  /\ Readable(p) /\ (Refreshed(p) \/ manifest[p] = None)
  /\ cacheManifest[p] # None /\ CacheReadable(p)
  /\ <<p, run.id>> \notin dirs \ Incomplete(p)

MakeDirectory(p) ==
  /\ pc = "local" /\ p \in todo
  /\ CanReplace(p)
  /\ dirs' = (dirs \ Incomplete(p)) \union {<<p, run.id>>}
  /\ pending' = {g \in pending : g[1] # p}
  /\ files' = [g \in Generations |-> IF g \in Incomplete(p) THEN None ELSE files[g]]
  /\ marked' = [g \in Generations |-> IF g \in Incomplete(p) THEN None ELSE marked[g]]
  /\ cur' = p
  /\ pc' = "touch"
  /\ UNCHANGED <<source, jobs, cache, manifest, published, reader, run, todo, now, faults>>

TouchPending_ElsewhereDir ==   \* mutant: the marker is put beside the directory of another id
  /\ pc = "touch"
  /\ pending' = pending \union {<<cur, i>> : i \in Ids}
  /\ pc' = "download"
  /\ UNCHANGED <<source, jobs, cache, dirs, files, marked, manifest, published, reader,
                 run, todo, cur, now, faults>>

TouchPending ==
  /\ pc = "touch"
  /\ pending' = pending \union {<<cur, run.id>>}
  /\ pc' = "download"
  /\ UNCHANGED <<source, jobs, cache, dirs, files, marked, manifest, published, reader,
                 run, todo, cur, now, faults>>

Download ==
  /\ pc = "download"
  /\ files' = [files EXCEPT ![<<cur, run.id>>] = blobs[<<cur, cacheManifest[cur]>>]]
  /\ pc' = "activate"
  /\ UNCHANGED <<source, jobs, cache, dirs, pending, marked, manifest, published, reader,
                 run, todo, cur, now, faults>>

Activate ==
  /\ pc = "activate"
  /\ manifest' = [manifest EXCEPT ![cur] = run.id]
  /\ pc' = "unpend"
  /\ UNCHANGED <<source, jobs, cache, dirs, files, pending, marked, published, reader,
                 run, todo, cur, now, faults>>

UnlinkPending ==
  /\ pc = "unpend"
  /\ pending' = pending \ {<<cur, run.id>>}
  /\ run' = [run EXCEPT !.uses[cur] = run.id]
  /\ todo' = todo \ {cur}
  /\ cur' = None
  /\ pc' = "local"
  /\ UNCHANGED <<source, jobs, cache, dirs, files, marked, manifest, published, reader,
                 now, faults>>

-----------------------------------------------------------------------------
(* The candidate is built and its rows are counted against the warehouse's    *)
(* totals at the start of the run.                                            *)
RowsAgree == RowTotal(Shown(run.uses), {p \in Partitions : run.uses[p] # None})
               = RowTotal(run.source, run.live)

Validate ==
  /\ pc = "local" /\ todo = {}
  /\ run.uses # NoUses
  /\ RowsAgree
  /\ pc' = "sidecar"
  /\ UNCHANGED <<source, jobs, cache, disk, published, reader, run, todo, cur, now, faults>>

WriteSidecar ==
  /\ pc = "sidecar"
  /\ run' = [run EXCEPT !.prior = sidecar]
  /\ sidecar' = run.id
  /\ pc' = "swap"
  /\ UNCHANGED <<source, jobs, cache, disk, catalog, reader, todo, cur, now, faults>>

Swap ==
  /\ pc = "swap"
  /\ catalog' = [id |-> run.id, uses |-> run.uses]
  /\ todo' = Partitions
  /\ pc' = "clean"
  /\ UNCHANGED <<source, jobs, cache, disk, sidecar, reader, run, cur, now, faults>>

(* After publication, best effort: an inactive generation is marked, and goes *)
(* once its mark is older than the retention, counted from the run's start.   *)
Expired_Unmarked(p) ==   \* mutant: the mark is not waited for
  {g \in dirs : g[1] = p /\ g[2] # manifest[p]}
Expired_AtCutoff(p) ==   \* mutant: a mark exactly as old as the retention counts as older
  {g \in dirs : /\ g[1] = p /\ g[2] # manifest[p]
                /\ marked[g] # None /\ marked[g] + Retention <= run.at}

Expired(p) ==
  {g \in dirs : /\ g[1] = p /\ g[2] # manifest[p]
                /\ marked[g] # None /\ marked[g] + Retention < run.at}

Marks(p) ==
  [g \in Generations |->
    IF g \notin dirs \/ g[1] # p THEN marked[g]
    ELSE IF g \in Expired(p) \/ g[2] = manifest[p] THEN None
    ELSE IF marked[g] = None THEN now ELSE marked[g]]

Clean(p) ==
  /\ pc = "clean" /\ p \in todo
  /\ Readable(p)
  /\ dirs' = dirs \ Expired(p)
  /\ pending' = pending \ Expired(p)
  /\ files' = [g \in Generations |-> IF g \in Expired(p) THEN None ELSE files[g]]
  /\ marked' = Marks(p)
  /\ IF todo = {p} THEN Stop ELSE todo' = todo \ {p} /\ UNCHANGED <<pc, run, cur>>
  /\ UNCHANGED <<source, jobs, cache, manifest, published, reader, now, faults>>

-----------------------------------------------------------------------------
(* What the code refuses by raising; nothing is rolled back on these paths,   *)
(* and Airflow does not retry the task.                                       *)
Refuses ==
  \/ pc = "sweep" /\ \E p \in todo : ~Readable(p)
  \/ pc = "globals" /\ run.id \in jobs
  \/ pc = "list" /\ \E p \in Partitions : ~CacheReadable(p)
  \/ pc = "extract" /\ \E p \in todo : p \notin present
  \/ pc = "local" /\ \E p \in todo :
       /\ ~CanReplace(p)
       /\ manifest[p] = None \/ ~Readable(p) \/ Refreshed(p)
  \/ pc = "local" /\ todo = {} /\ (run.uses = NoUses \/ ~RowsAgree)
  \/ pc = "clean" /\ \E p \in todo : ~Readable(p)

Refuse ==
  /\ Refuses
  /\ Stop
  /\ UNCHANGED <<source, jobs, cache, disk, published, reader, now, faults>>

Raised == raises < MaxRaises /\ raises' = raises + 1 /\ UNCHANGED crashes
Killed == crashes < MaxCrashes /\ crashes' = crashes + 1 /\ UNCHANGED raises

(* An Exception of the environment: a failed download or write, a semantic    *)
(* validation that fails.  The two except blocks roll back.                   *)
Rollback ==
  \/ pc \in {"download", "activate"}
  \/ pc = "unpend" /\ UnlinkMayFail

RaiseInDownload ==
  /\ Rollback
  /\ Raised
  /\ Removed({<<cur, run.id>>})
  /\ Stop
  /\ UNCHANGED <<source, jobs, cache, manifest, published, reader, now>>

RaiseInSwap_KeepsSidecar ==   \* mutant: the previous sidecar is not restored
  /\ pc = "swap"
  /\ Raised
  /\ Stop
  /\ UNCHANGED <<source, jobs, cache, disk, published, reader, now>>

RaiseInSwap ==
  /\ pc = "swap"
  /\ Raised
  /\ sidecar' = run.prior
  /\ Stop
  /\ UNCHANGED <<source, jobs, cache, disk, catalog, reader, now>>

(* A kill, or an exception where no except block rolls back.                  *)
Crash ==
  /\ pc # "idle"
  /\ Killed
  /\ Stop
  /\ UNCHANGED <<source, jobs, cache, disk, published, reader, now>>

(* A kill inside rmtree: the directory stays without its files, and perhaps   *)
(* without its markers.                                                       *)
CrashInRemoval ==
  /\ \E p \in todo : \E g \in (IF pc = "sweep" THEN Incomplete(p)
                              ELSE IF pc = "clean" THEN Expired(p) ELSE {}) :
       /\ Readable(p)
       /\ files' = [files EXCEPT ![g] = None]
       /\ pending' \in {pending, pending \ {g}}
       /\ marked' \in {marked, [marked EXCEPT ![g] = None]}
  /\ Killed
  /\ Stop
  /\ UNCHANGED <<source, jobs, cache, dirs, manifest, published, reader, now>>

-----------------------------------------------------------------------------
(* The environment: rebuilds and corrections of the warehouse, readers, time. *)
Rebuild(p) ==
  /\ writes < MaxWrites /\ warehouse[p] < MaxVersion
  /\ warehouse' = [warehouse EXCEPT ![p] = @ + 1]
  /\ present' = present \union {p}
  /\ writes' = writes + 1
  /\ UNCHANGED <<jobs, cache, disk, published, reader, pc, run, todo, cur, now, faults>>

Expire(p) ==
  /\ writes < MaxWrites /\ p \in present
  /\ present' = present \ {p}
  /\ writes' = writes + 1
  /\ UNCHANGED <<warehouse, jobs, cache, disk, published, reader, pc, run, todo, cur, now, faults>>

Open ==
  /\ held = NoUses /\ catalog.id # None
  /\ held' = catalog.uses
  /\ heldSince' = now
  /\ UNCHANGED <<source, jobs, cache, disk, published, pc, run, todo, cur, now, faults>>

Close ==
  /\ held # NoUses
  /\ held' = NoUses
  /\ heldSince' = 0
  /\ UNCHANGED <<source, jobs, cache, disk, published, pc, run, todo, cur, now, faults>>

Tick ==
  /\ now < MaxClock
  /\ held # NoUses => now < heldSince + MaxHold
  /\ now' = now + 1
  /\ UNCHANGED <<source, jobs, cache, disk, published, reader, pc, run, todo, cur, faults>>

Export ==
  \/ \E p \in Partitions : \/ Sweep(p) \/ DeleteCacheManifest(p) \/ DeleteCacheBlobs(p)
                           \/ Extract(p) \/ Reuse(p) \/ MakeDirectory(p) \/ Clean(p)
  \/ ExtractGlobals \/ ListCache \/ FlipCache \/ TrimCache \/ Deactivate
  \/ TouchPending \/ Download \/ Activate \/ UnlinkPending
  \/ Validate \/ WriteSidecar \/ Swap
  \/ Refuse

Next ==
  \/ \E i \in Ids, dates \in SUBSET Partitions : Start(i, dates)
  \/ Export
  \/ RaiseInDownload \/ RaiseInSwap \/ Crash \/ CrashInRemoval
  \/ \E p \in Partitions : Rebuild(p) \/ Expire(p)
  \/ Open \/ Close \/ Tick

Spec == Init /\ [][Next]_vars

(* A run that was started goes on; nothing is assumed of the rest.            *)
FairSpec == Spec /\ WF_vars(Export)

-----------------------------------------------------------------------------
Run == [id : Ids \union {None}, dates : SUBSET Partitions, at : Clock,
        source : [Partitions -> Versions], live : SUBSET Partitions, doomed : SUBSET Partitions,
        uses : [Partitions -> Ids \union {None}], prior : Ids \union {None}]

(* Type invariant.                                                            *)
TypeOK ==
  /\ warehouse \in [Partitions -> Versions] /\ present \subseteq Partitions
  /\ writes \in 0 .. MaxWrites /\ crashes \in 0 .. MaxCrashes /\ raises \in 0 .. MaxRaises /\ now \in Clock
  /\ jobs \subseteq Ids
  /\ blobs \in [Generations -> Versions \union {None}]
  /\ cacheManifest \in [Partitions -> Ids \union {None}]
  /\ dirs \subseteq Generations /\ pending \subseteq dirs
  /\ files \in [Generations -> Versions \union {None}]
  /\ marked \in [Generations -> Clock \union {None}]
  /\ manifest \in [Partitions -> Ids \union {None}]
  /\ catalog \in [id : Ids \union {None}, uses : [Partitions -> Ids \union {None}]]
  /\ sidecar \in Ids \union {None}
  /\ held \in [Partitions -> Ids \union {None}] /\ heldSince \in Clock
  /\ pc \in {"idle", "sweep", "globals", "list", "delete", "extract", "flip", "trim", "local",
             "touch", "download", "activate", "unpend", "sidecar", "swap", "clean"}
  /\ run \in Run /\ todo \subseteq Partitions /\ cur \in Partitions \union {None}

Complete == {g \in dirs : files[g] # None}

(* Every generation the published catalog names is complete on disk, through  *)
(* failed and killed exports, partitions that come and go, and cleanups: the  *)
(* catalog is the publication point (docs/operations.md, Serving publication).*)
CatalogComplete == Names(catalog.uses) \subseteq Complete

(* A reader that keeps a catalog open no longer than the retention finds all  *)
(* of its generations, however many exports replace it meanwhile.             *)
ReaderServed == Names(held) \subseteq Complete

(* No manifest, local or in GCS, ever names a missing file: otherwise every   *)
(* later export would raise before it publishes.                              *)
ManifestsReadable == \A p \in Partitions : Readable(p) /\ CacheReadable(p)

(* A run publishes, for each date it was told has changed, a version at least *)
(* as new as the warehouse held when the run started.                         *)
ChangedDatesPublished ==
  [][catalog' # catalog =>
       \A p \in Partitions : Refreshed(p) /\ catalog'.uses[p] # None =>
         files[<<p, catalog'.uses[p]>>] >= run.source[p]]_vars

(* No step takes the active generation of a partition away: "failure          *)
(* preserves active generation" (test_dag_serving_export.py:1112).            *)
ActiveSurvives ==
  [][\A p \in Partitions : manifest'[p] = manifest[p] /\ manifest[p] # None
       /\ files[<<p, manifest[p]>>] # None => files'[<<p, manifest[p]>>] # None]_vars

(* Only a kill between the two replacements lets the ids of the sidecar and   *)
(* of the catalog differ; an export that fails, there or anywhere, does not.  *)
SidecarMatches == crashes = 0 /\ pc # "swap" => sidecar = catalog.id

(* The catalog, its generations and its reader behave as GenerationStore says.*)
Promise == INSTANCE GenerationStore WITH
  stored <- Complete, catalog <- Names(catalog.uses), held <- Names(held)
StoreRefined == Promise!StoreSpec

(* Whatever earlier runs left behind, a full export of a warehouse that has    *)
(* come to rest gets through and publishes under an unused id, unless it is    *)
(* itself killed or raises.                                                    *)
FullExportBegins(i) ==
  /\ pc = "sweep" /\ todo = Partitions
  /\ run.id = i /\ i \notin jobs /\ run.dates = {}
  /\ writes = MaxWrites /\ run.live = present /\ run.source = warehouse /\ present # {}

LaterExportPublishes ==
  \A i \in Ids, n \in 0 .. MaxCrashes + MaxRaises :
    FullExportBegins(i) /\ crashes + raises = n ~> catalog.id = i \/ crashes + raises > n
================================================================================
