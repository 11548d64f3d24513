-------------------------------- MODULE RouteMap ---------------------------------
(* dag_monthly_route_map and its readers. A run waits until a month's facts are    *)
(* there, extracts them, reconciles the extract with its coverage, and swaps the   *)
(* month's directory in two renames; the frontend renders pages from a month's     *)
(* segments.json. Airflow runs one build at a time and repeats a failed one; what  *)
(* a dead build leaves behind is removed by the next. The nights that make the     *)
(* facts are DailyWarehouse's, of which one may never run.                         *)
EXTENDS Lists

CONSTANTS
  Length,     \* service dates of the month the warehouse should hold: 1 .. Length
  Pages,      \* requests of the frontend
  MaxBuilds   \* builds and pages rendered, a bound of the model

VARIABLES
  night,      \* the next nightly run
  lost,       \* nightly runs that never succeeded
  facts,      \* each date: 0 no partition, 1 its own night's, 2 completed by the night after
  build,      \* the build: its step, the extract, and the files written in staging
  month,      \* the month's directory: files, data and modification time
  retired,    \* the directory a swap moved away
  clock,      \* modification times given so far
  cache,      \* _read_map_segments: <<modification time, publication>>; a publication is named by its time
  page,       \* each request: its step, the time it saw, the publication it rendered
  builds, troubles

vars == <<night, lost, facts, build, month, retired, clock, cache, page, builds, troubles>>

Days == 1 .. Length
PublishedFiles == <<"routes.geojson", "segments.json", "mini-bus.svg", "mini-tram.svg", "report.json">>
Gone == [files |-> {}, data |-> <<>>, mtime |-> 0]
NoBuild == [step |-> "idle", data |-> <<>>, staging |-> {}]

\* dag_daily_gps for the dates of the month and the two after it.
Night ==
  /\ night <= Length + 2 /\ night' = night + 1
  /\ \/ /\ facts' = [d \in Days |-> IF d = night THEN 1 ELSE IF d = night - 1 THEN 2 ELSE facts[d]]
        /\ UNCHANGED lost
     \/ lost = {} /\ lost' = {night} /\ UNCHANGED facts
  /\ UNCHANGED <<build, month, retired, clock, cache, page, builds, troubles>>

\* mart_pipeline_status for the first of the next month: its own night writes it, and
\* the night after writes it again for its prior date.
Status == \E n \in {Length + 1, Length + 2} : n < night /\ n \notin lost
\* mutant: only the facts' partitions are looked for.
MonthPublished_Facts == \A d \in Days : facts[d] > 0
MonthPublished == Status /\ \A d \in Days : facts[d] > 0

\* check_month_final, then the first query: the statistics are of one moment. A date
\* without a complete trip has facts and no coverage.
Extract ==
  /\ build.step = "idle" /\ builds < MaxBuilds /\ MonthPublished
  /\ \E covered \in {Days, Days \ {1}} :
       build' = [build EXCEPT !.step = "validate", !.data = [d \in covered |-> facts[d]]]
  /\ builds' = builds + 1
  /\ UNCHANGED <<night, lost, facts, month, retired, clock, cache, page, troubles>>

\* validate_extract and check_mapped_share.
Reconciled(data) == DOMAIN data = Days
Validate ==
  /\ build.step = "validate"
  /\ build' = IF Reconciled(build.data) THEN [build EXCEPT !.step = "clear"] ELSE [NoBuild EXCEPT !.staging = build.staging]
  /\ UNCHANGED <<night, lost, facts, month, retired, clock, cache, page, builds, troubles>>

\* publish: the leftovers of a dead build go first.
Clear ==
  /\ build.step = "clear"
  /\ build' = [build EXCEPT !.step = "write", !.staging = {}] /\ retired' = Gone
  /\ UNCHANGED <<night, lost, facts, month, clock, cache, page, builds, troubles>>

Staged == Len(PublishedFiles) = Cardinality(build.staging)
Write ==
  /\ build.step = "write"
  /\ build' = IF Staged THEN [build EXCEPT !.step = IF month = Gone THEN "promote" ELSE "retire"]
              ELSE [build EXCEPT !.staging = @ \union {PublishedFiles[Cardinality(@) + 1]}]
  /\ UNCHANGED <<night, lost, facts, month, retired, clock, cache, page, builds, troubles>>

\* target.rename(retired).
Moved == month
Retire ==
  /\ build.step = "retire"
  /\ retired' = Moved /\ month' = Gone /\ build' = [build EXCEPT !.step = "promote"]
  /\ UNCHANGED <<night, lost, facts, clock, cache, page, builds, troubles>>

\* staging.rename(target), then rmtree of the retired directory.
Promote ==
  /\ build.step = "promote"
  /\ clock' = clock + 1
  /\ month' = [files |-> build.staging, data |-> build.data, mtime |-> clock']
  /\ build' = [build EXCEPT !.step = "drop", !.staging = {}]
  /\ UNCHANGED <<night, lost, facts, retired, cache, page, builds, troubles>>

Drop ==
  /\ build.step = "drop" /\ retired' = Gone /\ build' = NoBuild
  /\ UNCHANGED <<night, lost, facts, month, clock, cache, page, builds, troubles>>

\* An error removes the staging directory, a kill does not; neither puts the retired
\* directory back.
Trouble ==
  /\ build.step \in {"write", "retire", "promote", "drop"} /\ troubles < 2 /\ troubles' = troubles + 1
  /\ \E left \in {{}, build.staging} : build' = [NoBuild EXCEPT !.staging = left]
  /\ UNCHANGED <<night, lost, facts, month, retired, clock, cache, page, builds>>

\* _map_months lists the month, and _map_month_data takes its time; a month that is
\* away is not found.
Stat(p) ==
  /\ page[p].step = "start"
  /\ page' = [page EXCEPT ![p] =
       IF "segments.json" \notin month.files THEN [@ EXCEPT !.step = "missing"]
       ELSE [@ EXCEPT !.step = "read", !.mtime = month.mtime]]
  /\ UNCHANGED <<night, lost, facts, build, month, retired, clock, cache, builds, troubles>>

\* _read_map_segments, whose cache is keyed by the time seen before.
Key(p) == page[p].mtime
Read(p) ==
  /\ page[p].step = "read"
  /\ LET hit == {e \in cache : e[1] = Key(p)}
         entry == IF hit = {} THEN <<Key(p), month.mtime>> ELSE CHOOSE e \in hit : TRUE
     IN  IF hit = {} /\ month = Gone
         THEN page' = [page EXCEPT ![p].step = "error"] /\ UNCHANGED cache
         ELSE cache' = cache \union {entry} /\ page' = [page EXCEPT ![p].step = "done", ![p].data = entry[2]]
  /\ UNCHANGED <<night, lost, facts, build, month, retired, clock, builds, troubles>>

Init ==
  /\ night = 1 /\ lost = {} /\ facts = [d \in Days |-> 0] /\ build = NoBuild
  /\ month = Gone /\ retired = Gone /\ clock = 0 /\ cache = {}
  /\ page = [p \in Pages |-> [step |-> "start", mtime |-> 0, data |-> 0]]
  /\ builds = 0 /\ troubles = 0

Next ==
  \/ Night \/ Extract \/ Validate \/ Clear \/ Write \/ Retire \/ Promote \/ Drop \/ Trouble
  \/ \E p \in Pages : Stat(p) \/ Read(p)
  \/ night > Length + 2 /\ (builds = MaxBuilds \/ ~MonthPublished) /\ build.step = "idle" /\ UNCHANGED vars

Spec == Init /\ [][Next]_vars

TypeOK ==
  /\ night \in 1 .. Length + 3 /\ lost \subseteq 1 .. Length + 2 /\ \A d \in Days : facts[d] \in 0 .. 2
  /\ build.step \in {"idle", "validate", "clear", "write", "retire", "promote", "drop"}
  /\ month.mtime <= clock /\ builds <= MaxBuilds

\* "readers never see a partial month": a directory that can be listed holds every
\* file, and its data covers every date the warehouse should hold.
MonthWhole ==
  month # Gone => Cardinality(month.files) = Len(PublishedFiles) /\ DOMAIN month.data = Days

\* The status partition of the next month's first marks the month as final: a date's
\* overnight trips are in its map, unless the night that completes them never ran.
MonthFinal == month # Gone => \A d \in Days : month.data[d] = 2 \/ d + 1 \in lost

\* Once published, a month is there, or the retired copy is, or a build holds another:
\* one dead build does not lose it.
MonthKept ==
  clock > 0 /\ month = Gone => retired # Gone \/ build.step \in {"write", "promote"} \/ troubles > 1

\* A page never shows a publication older than the version it names: a month published
\* again is picked up by the next request, although the file is read after its time.
FreshPage == \A p \in Pages : page[p].step = "done" => page[p].data >= page[p].mtime

--------------------------------------------------------------------------------
(* What makes the safety properties inductive *)

MapAssumption == Length \in Nat \ {0}

Swapping == {"write", "retire", "promote", "drop"}
Shapes ==
  /\ night \in Nat /\ facts \in [Days -> 0 .. 2] /\ clock \in Nat /\ troubles \in Nat
  /\ DOMAIN build = {"step", "data", "staging"} /\ build.step \in {"idle", "validate", "clear"} \union Swapping
  /\ page \in [Pages -> [step : {"start", "missing", "read", "error", "done"}, mtime : Nat, data : Nat]]

\* A date's facts are complete once the night after it has run.
FactsInv == \A d \in Days : d + 1 < night => facts[d] = 2 \/ d + 1 \in lost

\* An extract is final, covers the month once it is validated, and is all in staging
\* before it is moved.
Final(data) == DOMAIN data \subseteq Days /\ \A d \in DOMAIN data : data[d] = 2 \/ d + 1 \in lost
ExtractInv ==
  /\ build.step # "idle" => Final(build.data)
  /\ build.step \in {"clear"} \union Swapping => DOMAIN build.data = Days
  /\ build.step \in {"retire", "promote"} => Cardinality(build.staging) = Len(PublishedFiles)

\* Only a build that died leaves the month away, and it takes two to lose it.
SwapInv ==
  /\ month # Gone => month.mtime = clock /\ clock > 0
  /\ build.step \in {"retire", "drop"} => month # Gone
  /\ month = Gone /\ clock > 0 /\ (retired = Gone \/ build.step \in {"idle", "validate", "clear"}) => troubles > 0

\* What is cached for a time was read at that time or later.
ReadersInv ==
  /\ \A e \in cache : e \in Nat \X Nat /\ e[1] <= e[2]
  /\ \A p \in Pages : page[p].mtime <= clock

MapInv ==
  /\ Shapes /\ FactsInv /\ ExtractInv /\ SwapInv /\ ReadersInv
  /\ MonthWhole /\ MonthFinal /\ MonthKept /\ FreshPage
==================================================================================
