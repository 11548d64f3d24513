-------------------------------- MODULE MCAirflow --------------------------------
(* One run checks two components that share no state and both need fairness: the *)
(* poller's health counters, and the polling and loading of GTFS. HostInit picks *)
(* one of them, its steps are the run's, and the variables of the other stand    *)
(* still.                                                                        *)
EXTENDS HealthCounters, Sequences

CONSTANTS Hashes, Tables, MaxHour, HoursPerDay, RetentionDays, Attempts, MaxKills, MaxTroubles

VARIABLE which

VARIABLES hour, poll, snapshots, zips, events, emitted, load, jobs, rows, days, held, zombie, refreshed,
          kills, errors, manual
G == INSTANCE GtfsIngest

gtfsVars == <<hour, poll, snapshots, zips, events, emitted, load, jobs, rows, days, held, zombie, refreshed,
              kills, errors, manual>>

ASSUME GtfsHolds == G!GtfsAssumption

TwoTables == <<"trips", "calendar_dates">>

HostInit ==
  /\ which \in {"health", "gtfs"} /\ Init /\ G!Init
  /\ which = "gtfs" => ~diskFails
HostNext ==
  \/ which = "health" /\ Next /\ UNCHANGED <<which, gtfsVars>>
  \/ which = "gtfs" /\ G!Next /\ UNCHANGED <<which, vars>>
HostFairness ==
  /\ WF_vars(which = "health" /\ ProgramStep) /\ SF_vars(which = "health" /\ Tick)
  /\ \A h \in Hours : SF_vars(which = "health" /\ UploadHour(h))
  /\ WF_gtfsVars(which = "gtfs" /\ G!PollStep)
  /\ WF_gtfsVars(which = "gtfs" /\ G!LoadStep)
HostSpec == HostInit /\ [][HostNext]_<<which, gtfsVars, vars>> /\ HostFairness

\* Every snapshot the load DAG is asked for has its ZIP, a snapshot's rows are in a table
\* at most once and in every table when a refresh has returned for it, no stored
\* date goes back to an older plan, and no more recorded snapshots lack their event than
\* workers were lost.
GtfsSound == G!TypeOK /\ G!LoadedOnce /\ G!RefreshedLoaded /\ G!NoStalePlan /\ G!LostOnlyByKills

\* An emitted snapshot gets into every table unless a job of its batch ended in error.
EventuallyLoaded == G!EventuallyLoaded
==================================================================================
