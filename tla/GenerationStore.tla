---------------------------- MODULE GenerationStore ----------------------------
(* What the partitioned serving store promises to whoever opens the catalog:  *)
(* every generation the catalog names can be read, and goes on being readable *)
(* for as long as somebody who opened the catalog is still reading.           *)
CONSTANT Generations

VARIABLES stored,    \* the generations that can be read in full
          catalog,   \* those the published catalog names
          held       \* those a reader took from the catalog it opened

storeVars == <<stored, catalog, held>>

StoreInit == stored = {} /\ catalog = {} /\ held = {}

Store(g) == /\ stored' = stored \union {g}
            /\ UNCHANGED <<catalog, held>>

Publish(C) == /\ C \subseteq stored
              /\ catalog' = C
              /\ UNCHANGED <<stored, held>>

Open == held' = catalog /\ UNCHANGED <<stored, catalog>>

Close == held' = {} /\ UNCHANGED <<stored, catalog>>

\* Only what neither the catalog nor a reader names may go.
Discard(G) == /\ G \intersect (catalog \union held) = {}
              /\ stored' = stored \ G
              /\ UNCHANGED <<catalog, held>>

StoreNext == \/ \E g \in Generations : Store(g)
             \/ \E C \in SUBSET Generations : Publish(C)
             \/ Open
             \/ Close
             \/ \E G \in SUBSET Generations : Discard(G)

StoreSpec == StoreInit /\ [][StoreNext]_storeVars
================================================================================
