----------------------------- MODULE ServingProofs -----------------------------
(* Proofs about ServingStore, for any partitions, ids, faults and bounds.      *)
(*                                                                             *)
(* The argument: a generation that a catalog or a reader names was active, and *)
(* complete, and without a .pending marker, when the catalog was published, so *)
(* no sweep and no rollback touches it; a cleanup runs only behind a           *)
(* publication, when what the catalog names is what the manifests name; and a  *)
(* generation is marked inactive no earlier than it left the catalog.          *)
EXTENDS ServingStore, TLAPS

Replacing == {"touch", "download", "activate", "unpend"}
\* From the first job to the swap: the run's id is its own.
Own == {"list", "delete", "extract", "flip", "trim", "local", "sidecar", "swap"} \union Replacing
Using == {"local", "sidecar", "swap", "clean"} \union Replacing

RunOK ==
  /\ pc # "idle" => run.id \in Ids /\ run.at <= now
  /\ pc \in Own => run.id \in jobs
  /\ pc \in {"flip", "trim"} => cur \in Partitions
  /\ pc \in Replacing => cur \in todo

DirsOK ==
  /\ \A p \in Partitions, i \in Ids :
       <<p, i>> \notin dirs => files[<<p, i>>] = None /\ marked[<<p, i>>] = None
  /\ \A p \in Partitions, i \in Ids : <<p, i>> \in dirs => i \in jobs
  /\ \A p \in Partitions : manifest[p] # None => marked[<<p, manifest[p]>>] = None
  /\ pc \in Own => \A p \in Partitions : marked[<<p, run.id>>] = None

ReplaceOK ==
  /\ pc \in Replacing => <<cur, run.id>> \in dirs
  /\ pc \in {"touch", "download"} =>
       cacheManifest[cur] # None /\ blobs[<<cur, cacheManifest[cur]>>] # None
  /\ pc \in {"activate", "unpend"} => files[<<cur, run.id>>] # None
  /\ pc = "unpend" => manifest[cur] = run.id

PendingOK ==
  \A p \in Partitions, i \in Ids : <<p, i>> \in pending =>
    \/ pc = "idle"
    \/ pc = "sweep" /\ p \in todo
    \/ pc \in Replacing \ {"touch"} /\ p = cur /\ i = run.id

UsesOK ==
  \A p \in Partitions : run.uses[p] # None =>
    /\ run.uses[p] = manifest[p]
    /\ files[<<p, run.uses[p]>>] # None
    /\ pc \in Using
    /\ pc \in {"local"} \union Replacing => p \notin todo

\* What is named by a catalog, published or held by a reader.
Safe(uses) ==
  \A p \in Partitions : uses[p] # None =>
    /\ files[<<p, uses[p]>>] # None
    /\ <<p, uses[p]>> \notin pending
    /\ pc \in Own => uses[p] # run.id

PublishedOK ==
  /\ Safe(catalog.uses)
  /\ \A p \in Partitions : catalog.uses[p] # None => marked[<<p, catalog.uses[p]>>] = None
  /\ pc = "clean" => catalog.uses = run.uses

HeldOK ==
  /\ Safe(held)
  /\ \A p \in Partitions : held[p] # None =>
       (marked[<<p, held[p]>>] # None => marked[<<p, held[p]>>] >= heldSince)
  /\ held # NoUses => heldSince <= now /\ now <= heldSince + MaxHold

IInv == TypeOK /\ RunOK /\ DirsOK /\ ReplaceOK /\ PendingOK /\ UsesOK /\ PublishedOK /\ HeldOK

LEMMA Constants ==
  /\ None \notin Ids /\ None \notin Nat /\ Partitions # {}
  /\ Retention \in Nat /\ MaxHold \in Nat /\ MaxClock \in Nat /\ MaxVersion \in Nat
  /\ MaxWrites \in Nat /\ MaxCrashes \in Nat /\ MaxRaises \in Nat
  /\ MaxHold <= Retention
BY ServingAssumption

LEMMA NoRunTyped == NoRun \in Run /\ NoRun.uses = NoUses
BY Constants DEF NoRun, Run, NoUses, Clock, Versions

LEMMA InitInv == Init => IInv
<1> SUFFICES ASSUME Init PROVE IInv
  OBVIOUS
<1>1. TypeOK
  BY Constants, NoRunTyped DEF Init, TypeOK, NoUses, Generations, Versions, Clock
<1>2. RunOK /\ DirsOK /\ ReplaceOK /\ PendingOK
  BY DEF Init, RunOK, DirsOK, ReplaceOK, PendingOK, Own, Replacing, NoUses, Generations
<1>3. UsesOK /\ PublishedOK /\ HeldOK
  BY NoRunTyped DEF Init, UsesOK, PublishedOK, HeldOK, Safe, NoUses, NoRun
<1> QED
  BY <1>1, <1>2, <1>3 DEF IInv

-----------------------------------------------------------------------------
(* The steps that disturb the invariant, one lemma each.                      *)

(* A run starts.                                                              *)
LEMMA StartStep ==
  ASSUME IInv, NEW i \in Ids, NEW dates \in SUBSET Partitions, Start(i, dates)
  PROVE  IInv'
<1> USE DEF Start, NoRun, NoUses, IInv, TypeOK, Own, Replacing, Using, Generations,
       Versions, Clock, Run, source, cache, disk, published, reader, faults
<1>1. TypeOK'
  BY Constants, NoRunTyped
<1>2. RunOK'
  BY Constants, NoRunTyped DEF RunOK
<1>3. DirsOK'
  BY Constants, NoRunTyped DEF DirsOK
<1>4. ReplaceOK'
  BY Constants, NoRunTyped DEF ReplaceOK
<1>5. PendingOK'
  BY Constants, NoRunTyped DEF PendingOK
<1>6. UsesOK'
  BY Constants, NoRunTyped DEF UsesOK
<1>7. PublishedOK'
  BY Constants, NoRunTyped DEF PublishedOK, Safe
<1>8. HeldOK'
  BY Constants, NoRunTyped DEF HeldOK, Safe
<1> QED BY <1>1, <1>2, <1>3, <1>4, <1>5, <1>6, <1>7, <1>8

(* The first job makes the run's id its own.                                  *)
LEMMA ExtractGlobalsStep ==
  ASSUME IInv, ExtractGlobals
  PROVE  IInv'
<1> USE DEF ExtractGlobals, IInv, TypeOK, Own, Replacing, Using, Generations, Versions,
       Clock, Run, source, cache, disk, published, reader, faults
<1>1. TypeOK'
  BY Constants, NoRunTyped DEF RunOK
<1>2. RunOK'
  BY Constants, NoRunTyped DEF RunOK
<1>3. DirsOK'
  BY Constants, NoRunTyped DEF DirsOK, RunOK
<1>4. ReplaceOK'
  BY Constants, NoRunTyped DEF ReplaceOK
<1>5. PendingOK'
  BY Constants, NoRunTyped DEF PendingOK
<1>6. UsesOK'
  BY Constants, NoRunTyped DEF UsesOK
<1>7. PublishedOK'
  BY Constants, NoRunTyped DEF PublishedOK, Safe, RunOK, DirsOK
<1>8. HeldOK'
  BY Constants, NoRunTyped DEF HeldOK, Safe, RunOK, DirsOK
<1> QED BY <1>1, <1>2, <1>3, <1>4, <1>5, <1>6, <1>7, <1>8

LEMMA ListCacheStep ==
  ASSUME IInv, ListCache
  PROVE  IInv'
<1> USE DEF ListCache, Cached, ToExtract, IInv, TypeOK, Own, Replacing, Using, Generations,
       Versions, Clock, Run, source, cache, disk, published, reader, faults
<1>1. TypeOK'
  BY Constants, NoRunTyped
<1>2. RunOK'
  BY Constants, NoRunTyped DEF RunOK
<1>3. DirsOK'
  BY Constants, NoRunTyped DEF DirsOK
<1>4. ReplaceOK'
  BY Constants, NoRunTyped DEF ReplaceOK
<1>5. PendingOK'
  BY Constants, NoRunTyped DEF PendingOK
<1>6. UsesOK'
  BY Constants, NoRunTyped DEF UsesOK
<1>7. PublishedOK'
  BY Constants, NoRunTyped DEF PublishedOK, Safe
<1>8. HeldOK'
  BY Constants, NoRunTyped DEF HeldOK, Safe
<1> QED BY <1>1, <1>2, <1>3, <1>4, <1>5, <1>6, <1>7, <1>8

(* A removed partition leaves the GCS cache.                                  *)
LEMMA DeleteCacheBlobsStep ==
  ASSUME IInv, NEW p \in Partitions, DeleteCacheBlobs(p)
  PROVE  IInv'
<1> USE DEF DeleteCacheBlobs, IInv, TypeOK, Own, Replacing, Using, Generations, Versions,
       Clock, Run, source, cache, disk, published, reader, faults
<1>1. TypeOK'
  BY Constants, NoRunTyped
<1>2. RunOK'
  BY Constants, NoRunTyped DEF RunOK
<1>3. DirsOK'
  BY Constants, NoRunTyped DEF DirsOK
<1>4. ReplaceOK'
  BY Constants, NoRunTyped DEF ReplaceOK
<1>5. PendingOK'
  BY Constants, NoRunTyped DEF PendingOK
<1>6. UsesOK'
  BY Constants, NoRunTyped DEF UsesOK
<1>7. PublishedOK'
  BY Constants, NoRunTyped DEF PublishedOK, Safe
<1>8. HeldOK'
  BY Constants, NoRunTyped DEF HeldOK, Safe
<1> QED BY <1>1, <1>2, <1>3, <1>4, <1>5, <1>6, <1>7, <1>8

(* An active generation is taken over.                                        *)
LEMMA ReuseStep ==
  ASSUME IInv, NEW p \in Partitions, Reuse(p)
  PROVE  IInv'
<1> USE DEF Reuse, Readable, Refreshed, IInv, TypeOK, Own, Replacing, Using, Generations,
       Versions, Clock, Run, source, cache, disk, published, reader, faults
<1>1. TypeOK'
  BY Constants, NoRunTyped
<1>2. RunOK'
  BY Constants, NoRunTyped DEF RunOK
<1>3. DirsOK'
  BY Constants, NoRunTyped DEF DirsOK
<1>4. ReplaceOK'
  BY Constants, NoRunTyped DEF ReplaceOK
<1>5. PendingOK'
  BY Constants, NoRunTyped DEF PendingOK
<1>6. UsesOK'
  BY Constants, NoRunTyped DEF UsesOK
<1>7. PublishedOK'
  BY Constants, NoRunTyped DEF PublishedOK, Safe
<1>8. HeldOK'
  BY Constants, NoRunTyped DEF HeldOK, Safe
<1> QED BY <1>1, <1>2, <1>3, <1>4, <1>5, <1>6, <1>7, <1>8

(* A new generation directory, which no catalog can name yet.                 *)
LEMMA MakeDirectoryStep ==
  ASSUME IInv, NEW p \in Partitions, MakeDirectory(p)
  PROVE  IInv'
<1> USE DEF MakeDirectory, Incomplete, Readable, CanReplace, CacheReadable, IInv, TypeOK,
       Own, Replacing, Using, Generations, Versions, Clock, Run, source, cache, disk,
       published, reader, faults
<1>1. TypeOK'
  BY Constants, NoRunTyped DEF RunOK, PendingOK
<1>2. RunOK'
  BY Constants, NoRunTyped DEF RunOK
<1>3. DirsOK'
  BY Constants, NoRunTyped DEF DirsOK, RunOK, PendingOK
<1>4. ReplaceOK'
  BY Constants, NoRunTyped DEF ReplaceOK
<1>5. PendingOK'
  BY Constants, NoRunTyped DEF PendingOK
<1>6. UsesOK'
  BY Constants, NoRunTyped DEF UsesOK
<1>7. PublishedOK'
  BY Constants, NoRunTyped DEF PublishedOK, Safe
<1>8. HeldOK'
  BY Constants, NoRunTyped DEF HeldOK, Safe
<1> QED BY <1>1, <1>2, <1>3, <1>4, <1>5, <1>6, <1>7, <1>8

LEMMA TouchPendingStep ==
  ASSUME IInv, TouchPending
  PROVE  IInv'
<1> USE DEF TouchPending, IInv, TypeOK, Own, Replacing, Using, Generations, Versions, Clock,
       Run, source, cache, disk, published, reader, faults
<1>1. TypeOK'
  BY Constants, NoRunTyped DEF ReplaceOK
<1>2. RunOK'
  BY Constants, NoRunTyped DEF RunOK
<1>3. DirsOK'
  BY Constants, NoRunTyped DEF DirsOK
<1>4. ReplaceOK'
  BY Constants, NoRunTyped DEF ReplaceOK
<1>5. PendingOK'
  BY Constants, NoRunTyped DEF PendingOK
<1>6. UsesOK'
  BY Constants, NoRunTyped DEF UsesOK
<1>7. PublishedOK'
  BY Constants, NoRunTyped DEF PublishedOK, Safe
<1>8. HeldOK'
  BY Constants, NoRunTyped DEF HeldOK, Safe
<1> QED BY <1>1, <1>2, <1>3, <1>4, <1>5, <1>6, <1>7, <1>8

LEMMA DownloadStep ==
  ASSUME IInv, Download
  PROVE  IInv'
<1> USE DEF Download, IInv, TypeOK, Own, Replacing, Using, Generations, Versions, Clock,
       Run, source, cache, disk, published, reader, faults
<1>1. TypeOK'
  BY Constants, NoRunTyped DEF ReplaceOK, RunOK
<1>2. RunOK'
  BY Constants, NoRunTyped DEF RunOK
<1>3. DirsOK'
  <2>1. \A q \in Partitions, i \in Ids :
          <<q, i>> # <<cur, run.id>> => files'[<<q, i>>] = files[<<q, i>>]
    BY Constants
  <2>2. <<cur, run.id>> \in dirs
    BY DEF ReplaceOK
  <2>3. \A q \in Partitions, i \in Ids : <<q, i>> \notin dirs => files'[<<q, i>>] = None
    <3> SUFFICES ASSUME NEW q \in Partitions, NEW i \in Ids, <<q, i>> \notin dirs
                 PROVE  files'[<<q, i>>] = None
      OBVIOUS
    <3>1. files[<<q, i>>] = None /\ DirsOK
      BY DEF DirsOK
    <3> HIDE DEF IInv, Download, TypeOK
    <3>2. <<q, i>> # <<cur, run.id>>
      BY <2>2
    <3> QED BY <3>1, <3>2, <2>1
  <2> HIDE DEF TypeOK
  <2>4. marked' = marked /\ dirs' = dirs /\ manifest' = manifest /\ jobs' = jobs /\ run' = run
        /\ pc \in Own
    OBVIOUS
  <2> HIDE DEF Download
  <2> QED BY <2>3, <2>4 DEF DirsOK
<1>4. ReplaceOK'
  BY Constants, NoRunTyped DEF ReplaceOK
<1>5. PendingOK'
  BY Constants, NoRunTyped DEF PendingOK
<1>6. UsesOK'
  BY Constants, NoRunTyped DEF UsesOK, ReplaceOK, RunOK
<1>7. PublishedOK'
  BY Constants, NoRunTyped DEF PublishedOK, Safe
<1>8. HeldOK'
  BY Constants, NoRunTyped DEF HeldOK, Safe
<1> QED BY <1>1, <1>2, <1>3, <1>4, <1>5, <1>6, <1>7, <1>8

LEMMA ActivateStep ==
  ASSUME IInv, Activate
  PROVE  IInv'
<1> USE DEF Activate, IInv, TypeOK, Own, Replacing, Using, Generations, Versions, Clock,
       Run, source, cache, disk, published, reader, faults
<1>1. TypeOK'
  BY Constants, NoRunTyped
<1>2. RunOK'
  BY Constants, NoRunTyped DEF RunOK
<1>3. DirsOK'
  BY Constants, NoRunTyped DEF DirsOK
<1>4. ReplaceOK'
  BY Constants, NoRunTyped DEF ReplaceOK
<1>5. PendingOK'
  BY Constants, NoRunTyped DEF PendingOK
<1>6. UsesOK'
  BY Constants, NoRunTyped DEF UsesOK, RunOK, ReplaceOK
<1>7. PublishedOK'
  BY Constants, NoRunTyped DEF PublishedOK, Safe
<1>8. HeldOK'
  BY Constants, NoRunTyped DEF HeldOK, Safe
<1> QED BY <1>1, <1>2, <1>3, <1>4, <1>5, <1>6, <1>7, <1>8

(* A complete, active generation without marker joins the candidate.          *)
LEMMA UnlinkPendingStep ==
  ASSUME IInv, UnlinkPending
  PROVE  IInv'
<1> USE DEF UnlinkPending, IInv, TypeOK, Own, Replacing, Using, Generations, Versions,
       Clock, Run, source, cache, disk, published, reader, faults
<1>1. TypeOK'
  BY Constants, NoRunTyped
<1>2. RunOK'
  BY Constants, NoRunTyped DEF RunOK
<1>3. DirsOK'
  BY Constants, NoRunTyped DEF DirsOK
<1>4. ReplaceOK'
  BY Constants, NoRunTyped DEF ReplaceOK
<1>5. PendingOK'
  BY Constants, NoRunTyped DEF PendingOK
<1>6. UsesOK'
  BY Constants, NoRunTyped DEF UsesOK, RunOK, ReplaceOK
<1>7. PublishedOK'
  BY Constants, NoRunTyped DEF PublishedOK, Safe
<1>8. HeldOK'
  BY Constants, NoRunTyped DEF HeldOK, Safe
<1> QED BY <1>1, <1>2, <1>3, <1>4, <1>5, <1>6, <1>7, <1>8

LEMMA WriteSidecarStep ==
  ASSUME IInv, WriteSidecar
  PROVE  IInv'
<1> USE DEF WriteSidecar, IInv, TypeOK, Own, Replacing, Using, Generations, Versions, Clock,
       Run, source, cache, disk, published, reader, faults
<1>1. TypeOK'
  BY Constants, NoRunTyped
<1>2. RunOK'
  BY Constants, NoRunTyped DEF RunOK
<1>3. DirsOK'
  BY Constants, NoRunTyped DEF DirsOK
<1>4. ReplaceOK'
  BY Constants, NoRunTyped DEF ReplaceOK
<1>5. PendingOK'
  BY Constants, NoRunTyped DEF PendingOK
<1>6. UsesOK'
  BY Constants, NoRunTyped DEF UsesOK
<1>7. PublishedOK'
  BY Constants, NoRunTyped DEF PublishedOK, Safe
<1>8. HeldOK'
  BY Constants, NoRunTyped DEF HeldOK, Safe
<1> QED BY <1>1, <1>2, <1>3, <1>4, <1>5, <1>6, <1>7, <1>8

(* What is published is active, complete and unmarked.                        *)
LEMMA SwapStep ==
  ASSUME IInv, Swap
  PROVE  IInv'
<1> USE DEF Swap, IInv, TypeOK, Own, Replacing, Using, Generations, Versions, Clock, Run,
       source, cache, disk, published, reader, faults
<1>1. TypeOK'
  BY Constants, NoRunTyped
<1>2. RunOK'
  BY Constants, NoRunTyped DEF RunOK
<1>3. DirsOK'
  BY Constants, NoRunTyped DEF DirsOK
<1>4. ReplaceOK'
  BY Constants, NoRunTyped DEF ReplaceOK
<1>5. PendingOK'
  BY Constants, NoRunTyped DEF PendingOK
<1>6. UsesOK'
  BY Constants, NoRunTyped DEF UsesOK
<1>7. PublishedOK'
  BY Constants, NoRunTyped DEF PublishedOK, Safe, UsesOK, DirsOK, PendingOK, RunOK
<1>8. HeldOK'
  BY Constants, NoRunTyped DEF HeldOK, Safe
<1> QED BY <1>1, <1>2, <1>3, <1>4, <1>5, <1>6, <1>7, <1>8

(* Behind a publication; a reader's generations were marked after it opened.  *)
LEMMA CleanStep ==
  ASSUME IInv, NEW p \in Partitions, Clean(p)
  PROVE  IInv'
<1> USE DEF Clean, Expired, Marks, Readable, Stop, NoRun, NoUses, IInv, TypeOK, Own,
       Replacing, Using, Generations, Versions, Clock, Run, source, cache, disk, published,
       reader, faults
<1>1. TypeOK'
  BY Constants, NoRunTyped
<1>2. RunOK'
  BY Constants, NoRunTyped DEF RunOK
<1>3. DirsOK'
  BY Constants, NoRunTyped DEF DirsOK
<1>4. ReplaceOK'
  BY Constants, NoRunTyped DEF ReplaceOK
<1>5. PendingOK'
  BY Constants, NoRunTyped DEF PendingOK
<1>6. UsesOK'
  BY Constants, NoRunTyped DEF UsesOK
<1>7. PublishedOK'
  BY Constants, NoRunTyped DEF PublishedOK, Safe, UsesOK, DirsOK, RunOK
<1>8. HeldOK'
  BY Constants, NoRunTyped DEF HeldOK, Safe, DirsOK, RunOK
<1> QED BY <1>1, <1>2, <1>3, <1>4, <1>5, <1>6, <1>7, <1>8

LEMMA CrashInRemovalStep ==
  ASSUME IInv, CrashInRemoval
  PROVE  IInv'
<1> USE DEF CrashInRemoval, Stop, NoRun, NoUses, Killed, Incomplete, Expired, Readable,
       IInv, TypeOK, Own, Replacing, Using, Generations, Versions, Clock, Run, source,
       cache, disk, published, reader, faults
<1>1. TypeOK'
  BY Constants, NoRunTyped
<1>2. RunOK'
  BY Constants, NoRunTyped DEF RunOK
<1>3. DirsOK'
  BY Constants, NoRunTyped DEF DirsOK
<1>4. ReplaceOK'
  BY Constants, NoRunTyped DEF ReplaceOK
<1>5. PendingOK'
  BY Constants, NoRunTyped DEF PendingOK
<1>6. UsesOK'
  BY Constants, NoRunTyped DEF UsesOK
<1>7. PublishedOK'
  BY Constants, NoRunTyped DEF PublishedOK, Safe
<1>8. HeldOK'
  BY Constants, NoRunTyped DEF HeldOK, Safe, RunOK, DirsOK
<1> QED BY <1>1, <1>2, <1>3, <1>4, <1>5, <1>6, <1>7, <1>8

(* A reader takes what is published.                                          *)
LEMMA OpenStep ==
  ASSUME IInv, Open
  PROVE  IInv'
<1> USE DEF Open, NoUses, IInv, TypeOK, Own, Replacing, Using, Generations, Versions, Clock,
       Run, source, cache, disk, published, reader, faults
<1>1. TypeOK'
  BY Constants, NoRunTyped
<1>2. RunOK'
  BY Constants, NoRunTyped DEF RunOK
<1>3. DirsOK'
  BY Constants, NoRunTyped DEF DirsOK
<1>4. ReplaceOK'
  BY Constants, NoRunTyped DEF ReplaceOK
<1>5. PendingOK'
  BY Constants, NoRunTyped DEF PendingOK
<1>6. UsesOK'
  BY Constants, NoRunTyped DEF UsesOK
<1>7. PublishedOK'
  BY Constants, NoRunTyped DEF PublishedOK, Safe
<1>8. HeldOK'
  BY Constants, NoRunTyped DEF HeldOK, Safe, PublishedOK
<1> QED BY <1>1, <1>2, <1>3, <1>4, <1>5, <1>6, <1>7, <1>8

(* The others keep it at once.                                                *)
LEMMA IInvStep == IInv /\ [Next]_vars => IInv'
<1> SUFFICES ASSUME IInv, [Next]_vars PROVE IInv'
  OBVIOUS
<1> USE DEF IInv, TypeOK, Own, Replacing, Using, Generations, Versions, Clock, Run, source,
       cache, disk, published, reader, faults, RunOK, DirsOK, ReplaceOK, PendingOK, UsesOK,
       PublishedOK, HeldOK, Safe
<1>1. CASE UNCHANGED vars
  BY <1>1, Constants DEF vars
<1>2. ASSUME NEW i \in Ids, NEW dates \in SUBSET Partitions, Start(i, dates) PROVE IInv'
  BY <1>2, StartStep
<1>3. ASSUME NEW p \in Partitions, Sweep(p) PROVE IInv'
  BY <1>3, Constants, NoRunTyped, SMTT(30) DEF Sweep, Incomplete, Readable
<1>4. CASE ExtractGlobals
  BY <1>4, ExtractGlobalsStep, SMTT(30)
<1>5. CASE ListCache
  BY <1>5, ListCacheStep
<1>6. ASSUME NEW p \in Partitions, DeleteCacheManifest(p) PROVE IInv'
  BY <1>6, Constants, NoRunTyped, SMTT(30) DEF DeleteCacheManifest
<1>7. ASSUME NEW p \in Partitions, DeleteCacheBlobs(p) PROVE IInv'
  BY <1>7, DeleteCacheBlobsStep
<1>8. ASSUME NEW p \in Partitions, Extract(p) PROVE IInv'
  BY <1>8, Constants, NoRunTyped, SMTT(30) DEF Extract
<1>9. CASE FlipCache
  BY <1>9, Constants, NoRunTyped, SMTT(30) DEF FlipCache
<1>10. CASE TrimCache
  BY <1>10, Constants, NoRunTyped, SMTT(30) DEF TrimCache
<1>11. CASE Deactivate
  BY <1>11, Constants, NoRunTyped, SMTT(30) DEF Deactivate
<1>12. ASSUME NEW p \in Partitions, Reuse(p) PROVE IInv'
  BY <1>12, ReuseStep
<1>13. ASSUME NEW p \in Partitions, MakeDirectory(p) PROVE IInv'
  BY <1>13, MakeDirectoryStep
<1>14. CASE TouchPending
  BY <1>14, TouchPendingStep
<1>15. CASE Download
  BY <1>15, DownloadStep
<1>16. CASE Activate
  BY <1>16, ActivateStep
<1>17. CASE UnlinkPending
  BY <1>17, UnlinkPendingStep
<1>18. CASE Validate
  BY <1>18, Constants, NoRunTyped, SMTT(30) DEF Validate
<1>19. CASE WriteSidecar
  BY <1>19, WriteSidecarStep
<1>20. CASE Swap
  BY <1>20, SwapStep
<1>21. ASSUME NEW p \in Partitions, Clean(p) PROVE IInv'
  BY <1>21, CleanStep
<1>22. CASE Refuse
  BY <1>22, Constants, NoRunTyped, SMTT(30) DEF Refuse, Stop, NoRun, NoUses
<1>23. CASE RaiseInDownload
  BY <1>23, Constants, NoRunTyped, SMTT(30) DEF RaiseInDownload, Stop, NoRun, NoUses,
         Removed, Rollback, Raised
<1>24. CASE RaiseInSwap
  BY <1>24, Constants, NoRunTyped, SMTT(30) DEF RaiseInSwap, Stop, NoRun, NoUses, Raised
<1>25. CASE Crash
  BY <1>25, Constants, NoRunTyped, SMTT(30) DEF Crash, Stop, NoRun, NoUses, Killed
<1>26. CASE CrashInRemoval
  BY <1>26, CrashInRemovalStep
<1>27. ASSUME NEW p \in Partitions, Rebuild(p) PROVE IInv'
  BY <1>27, Constants, NoRunTyped, SMTT(30) DEF Rebuild
<1>28. ASSUME NEW p \in Partitions, Expire(p) PROVE IInv'
  BY <1>28, Constants, NoRunTyped, SMTT(30) DEF Expire
<1>29. CASE Open
  BY <1>29, OpenStep
<1>30. CASE Close
  BY <1>30, Constants, NoRunTyped, SMTT(30) DEF Close, NoUses
<1>31. CASE Tick
  BY <1>31, Constants, NoRunTyped, SMTT(30) DEF Tick
<1> QED BY <1>1, <1>2, <1>3, <1>4, <1>5, <1>6, <1>7, <1>8, <1>9, <1>10, <1>11, <1>12, <1>13,
       <1>14, <1>15, <1>16, <1>17, <1>18, <1>19, <1>20, <1>21, <1>22, <1>23, <1>24, <1>25,
       <1>26, <1>27, <1>28, <1>29, <1>30, <1>31 DEF Next, Export

(* The inductive invariant of the serving store: every step of an export, every *)
(* failure and every change of the warehouse preserves it.                      *)
THEOREM Invariance == Spec => []IInv
<1>1. Init => IInv
  BY InitInv
<1>2. IInv /\ [Next]_vars => IInv'
  BY IInvStep
<1> QED BY <1>1, <1>2, PTL DEF Spec

-----------------------------------------------------------------------------
(* Every reachable state is well typed.                                       *)
THEOREM TypeCorrect == Spec => []TypeOK
<1>1. IInv => TypeOK
  BY DEF IInv
<1> QED BY <1>1, Invariance, PTL

LEMMA NamesComplete ==
  ASSUME IInv, NEW uses \in [Partitions -> Ids \union {None}], Safe(uses)
  PROVE  Names(uses) \subseteq Complete /\ Names(uses) \intersect pending = {}
<1> SUFFICES ASSUME NEW g \in Names(uses) PROVE g \in Complete /\ g \notin pending
  OBVIOUS
<1>1. PICK p \in Partitions, i \in Ids : g = <<p, i>> /\ uses[p] = i
  BY DEF Names, Generations
<1>2. i # None /\ files[g] # None /\ g \notin pending
  BY <1>1, Constants DEF Safe
<1>3. g \in dirs
  BY <1>1, <1>2 DEF IInv, DirsOK
<1> QED BY <1>2, <1>3 DEF Complete

(* Every generation the published catalog names is complete on disk, whatever *)
(* fails and whenever a run is killed (_publish_duckdb and the cleanups).     *)
THEOREM CatalogAlwaysComplete == Spec => []CatalogComplete
<1>1. ASSUME IInv PROVE CatalogComplete
  <2>1. catalog.uses \in [Partitions -> Ids \union {None}] /\ Safe(catalog.uses)
    BY <1>1 DEF IInv, TypeOK, PublishedOK
  <2> QED BY <1>1, <2>1, NamesComplete DEF CatalogComplete
<1> QED BY <1>1, Invariance, PTL

(* A reader that closes its catalog within the retention finds all of its     *)
(* generations (_cleanup_stale_local_generations).                            *)
THEOREM ReadersServed == Spec => []ReaderServed
<1>1. ASSUME IInv PROVE ReaderServed
  <2>1. held \in [Partitions -> Ids \union {None}] /\ Safe(held)
    BY <1>1 DEF IInv, TypeOK, HeldOK
  <2> QED BY <1>1, <2>1, NamesComplete DEF ReaderServed
<1> QED BY <1>1, Invariance, PTL

-----------------------------------------------------------------------------
(* Refinement: sweeps, rollbacks and cleanups take only what nobody names.    *)

LEMMA SafeNames ==
  ASSUME IInv
  PROVE  /\ Names(catalog.uses) \union Names(held) \subseteq Complete
         /\ (Names(catalog.uses) \union Names(held)) \intersect pending = {}
<1>1. catalog.uses \in [Partitions -> Ids \union {None}] /\ Safe(catalog.uses)
  BY DEF IInv, TypeOK, PublishedOK
<1>2. held \in [Partitions -> Ids \union {None}] /\ Safe(held)
  BY DEF IInv, TypeOK, HeldOK
<1> QED BY <1>1, <1>2, NamesComplete

LEMMA ExpiredUnnamed ==
  ASSUME IInv, NEW p \in Partitions, pc = "clean"
  PROVE  Expired(p) \intersect (Names(catalog.uses) \union Names(held)) = {}
<1> SUFFICES ASSUME NEW g \in Expired(p) PROVE g \notin Names(catalog.uses) /\ g \notin Names(held)
  OBVIOUS
<1>1. PICK i \in Ids : /\ g = <<p, i>> /\ g \in dirs /\ i # manifest[p]
                       /\ marked[g] # None /\ marked[g] + Retention < run.at
  BY DEF Expired, IInv, TypeOK, Generations
<1>2. g \notin Names(catalog.uses)
  BY <1>1, Constants DEF Names, IInv, UsesOK, PublishedOK
<1>3. CASE held[p] = i
  <2>1. marked[g] >= heldSince /\ now <= heldSince + MaxHold /\ run.at <= now
    BY <1>1, <1>3, Constants DEF IInv, HeldOK, RunOK, TypeOK, NoUses
  <2>2. marked[g] \in Nat /\ heldSince \in Nat /\ now \in Nat /\ run.at \in Nat
    BY <1>1, Constants DEF IInv, TypeOK, Generations, Clock, Run
  <2> QED BY <1>1, <2>1, <2>2, Constants
<1>4. CASE held[p] # i
  <2>1. g[1] = p /\ g[2] = i
    BY <1>1
  <2> QED BY <1>2, <1>4, <2>1 DEF Names
<1> QED BY <1>2, <1>3, <1>4

(* A removal: the directories of G go, or at least what is in them.           *)
LEMMA Removal ==
  ASSUME IInv, NEW G \in SUBSET Generations,
         dirs' = dirs \ G \/ dirs' = dirs,
         files' = [g \in Generations |-> IF g \in G THEN None ELSE files[g]],
         G \intersect (Names(catalog.uses) \union Names(held)) = {},
         UNCHANGED <<catalog, held>>
  PROVE  Promise!StoreNext
<1>1. Complete' = Complete \ G
  BY DEF Complete, IInv, TypeOK
<1>2. UNCHANGED <<Names(catalog.uses), Names(held)>>
  BY DEF Names
<1>3. Promise!Discard(G)
  BY <1>1, <1>2 DEF Promise!Discard
<1> QED BY <1>3 DEF Promise!StoreNext

LEMMA StoreStep == IInv /\ [Next]_vars => [Promise!StoreNext]_(Promise!storeVars)
<1> SUFFICES ASSUME IInv, [Next]_vars PROVE [Promise!StoreNext]_(Promise!storeVars)
  OBVIOUS
<1> USE DEF source, cache, disk, published, reader, faults
<1>1. CASE UNCHANGED <<dirs, files, catalog, held>>
  BY <1>1 DEF Promise!storeVars, Complete, Names
<1>2. ASSUME NEW p \in Partitions, Sweep(p) PROVE Promise!StoreNext
  <2>1. Incomplete(p) \subseteq pending /\ Incomplete(p) \in SUBSET Generations
    BY DEF Incomplete, IInv, TypeOK
  <2> QED BY <1>2, <2>1, SafeNames, Removal DEF Sweep
<1>3. ASSUME NEW p \in Partitions, MakeDirectory(p) PROVE UNCHANGED Promise!storeVars
  <2>1. pending = {} /\ Incomplete(p) = {} /\ run.id \in Ids
    BY <1>3 DEF MakeDirectory, Incomplete, IInv, PendingOK, RunOK, TypeOK, Generations, Replacing
  <2>2. dirs' = dirs \union {<<p, run.id>>} /\ <<p, run.id>> \notin dirs
    BY <1>3, <2>1 DEF MakeDirectory, CanReplace
  <2>3. files' = files /\ files[<<p, run.id>>] = None
    BY <1>3, <2>1, <2>2 DEF MakeDirectory, IInv, DirsOK, TypeOK
  <2> QED BY <1>3, <2>2, <2>3 DEF MakeDirectory, Complete, Names, Promise!storeVars
<1>4. CASE Download
  <2>1. run.id \in Ids /\ cur \in Partitions /\ <<cur, run.id>> \in dirs
    BY <1>4 DEF Download, IInv, RunOK, ReplaceOK, TypeOK, Replacing
  <2>2. blobs[<<cur, cacheManifest[cur]>>] # None
    BY <1>4 DEF Download, IInv, ReplaceOK
  <2>3. Complete' = Complete \union {<<cur, run.id>>}
    BY <1>4, <2>1, <2>2 DEF Download, Complete, IInv, TypeOK, Generations
  <2>4. Promise!Store(<<cur, run.id>>) /\ <<cur, run.id>> \in Generations
    BY <1>4, <2>1, <2>3 DEF Download, Names, Promise!Store, Generations
  <2> QED BY <2>4 DEF Promise!StoreNext
<1>5. CASE Swap
  <2>1. ASSUME NEW g \in Names(run.uses) PROVE g \in Complete
    <3>1. PICK p \in Partitions, i \in Ids : g = <<p, i>> /\ run.uses[p] = i
      BY DEF Names, Generations
    <3>2. files[g] # None
      BY <3>1, Constants DEF IInv, UsesOK
    <3> QED BY <3>1, <3>2 DEF Complete, IInv, DirsOK
  <2>2. Promise!Publish(Names(run.uses)) /\ Names(run.uses) \in SUBSET Generations
    BY <1>5, <2>1 DEF Swap, Promise!Publish, Complete, Names
  <2> QED BY <2>2 DEF Promise!StoreNext
<1>6. ASSUME NEW p \in Partitions, Clean(p) PROVE Promise!StoreNext
  <2>1. Expired(p) \in SUBSET Generations
    BY DEF Expired, IInv, TypeOK
  <2> QED BY <1>6, <2>1, ExpiredUnnamed, Removal DEF Clean
<1>7. CASE RaiseInDownload
  <2>1. pc \in Own /\ pc \in Replacing /\ run.id \in Ids /\ cur \in Partitions
    BY <1>7 DEF RaiseInDownload, Rollback, IInv, RunOK, TypeOK, Own, Replacing
  <2>2. <<cur, run.id>> \notin Names(catalog.uses) \union Names(held)
    <3>1. catalog.uses[cur] # run.id /\ held[cur] # run.id
      BY <2>1, Constants DEF IInv, PublishedOK, HeldOK, Safe
    <3>2. <<cur, run.id>>[1] = cur /\ <<cur, run.id>>[2] = run.id
      OBVIOUS
    <3> QED BY <3>1, <3>2 DEF Names
  <2> DEFINE G == {<<cur, run.id>>}
  <2>3. G \in SUBSET Generations /\ G \intersect (Names(catalog.uses) \union Names(held)) = {}
    BY <2>1, <2>2 DEF Generations
  <2>4. /\ dirs' = dirs \ G
        /\ files' = [g \in Generations |-> IF g \in G THEN None ELSE files[g]]
        /\ UNCHANGED <<catalog, held>>
    BY <1>7 DEF RaiseInDownload, Removed
  <2> HIDE DEF G
  <2> QED BY <2>3, <2>4, Removal
<1>8. CASE CrashInRemoval
  <2>1. PICK p \in todo : \E g \in (IF pc = "sweep" THEN Incomplete(p)
                                   ELSE IF pc = "clean" THEN Expired(p) ELSE {}) :
                            files' = [files EXCEPT ![g] = None]
    BY <1>8 DEF CrashInRemoval
  <2>2. PICK g \in (IF pc = "sweep" THEN Incomplete(p)
                    ELSE IF pc = "clean" THEN Expired(p) ELSE {}) :
          files' = [files EXCEPT ![g] = None]
    BY <2>1
  <2>3. p \in Partitions /\ g \in Generations
    BY <2>1, <2>2 DEF Incomplete, Expired, IInv, TypeOK
  <2>4. g \notin Names(catalog.uses) \union Names(held)
    BY <2>2, <2>3, SafeNames, ExpiredUnnamed DEF Incomplete
  <2>5. files' = [h \in Generations |-> IF h \in {g} THEN None ELSE files[h]]
    BY <2>2, <2>3 DEF IInv, TypeOK
  <2>6. dirs' = dirs /\ UNCHANGED <<catalog, held>>
    BY <1>8 DEF CrashInRemoval
  <2>7. {g} \in SUBSET Generations /\ {g} \intersect (Names(catalog.uses) \union Names(held)) = {}
    BY <2>3, <2>4
  <2> QED BY <2>5, <2>6, <2>7, Removal
<1>9. CASE Open
  BY <1>9 DEF Open, Complete, Names, Promise!Open, Promise!StoreNext
<1>10. CASE Close
  <2>1. Names(held') = {}
    BY <1>10, Constants DEF Close, Names, NoUses, Generations
  <2> QED BY <1>10, <2>1 DEF Close, Complete, Names, Promise!Close, Promise!StoreNext
<1>11. CASE UNCHANGED vars
  BY <1>1, <1>11 DEF vars
<1> QED
  BY <1>1, <1>2, <1>3, <1>4, <1>5, <1>6, <1>7, <1>8, <1>9, <1>10, <1>11
  DEF Next, Export, Start, ExtractGlobals, ListCache, DeleteCacheManifest, DeleteCacheBlobs, Extract,
      FlipCache, TrimCache, Deactivate, Reuse, TouchPending, Activate, UnlinkPending, Validate,
      WriteSidecar, Refuse, RaiseInSwap, Crash, Rebuild, Expire, Tick

(* The serving store implements GenerationStore.                              *)
THEOREM StoreImplemented == Spec => StoreRefined
<1>1. Init => Promise!StoreInit
  BY Constants DEF Init, Promise!StoreInit, Complete, Names, NoUses, Generations
<1> QED BY <1>1, StoreStep, Invariance, PTL DEF Spec, StoreRefined, Promise!StoreSpec

-----------------------------------------------------------------------------
(* Manifests: a run writes only manifests of generations of its own, complete *)
(* by then; what it takes away is never what a manifest names.  The rollback  *)
(* of UnlinkPending would, and is assumed away here.                          *)

Syncing == {"list", "delete", "extract", "flip", "trim"}

ActiveOK ==
  /\ \A p \in Partitions : manifest[p] # None => manifest[p] \in jobs
  /\ pc \in Syncing => \A p \in Partitions : manifest[p] # run.id
  /\ pc \in {"local"} \union Replacing =>
       \A p \in todo : manifest[p] # run.id \/ (pc = "unpend" /\ p = cur)
  /\ pc = "flip" => blobs[<<cur, run.id>>] # None
  /\ pc = "trim" => cacheManifest[cur] = run.id
  /\ ManifestsReadable

LEMMA InitActive == Init => ActiveOK
BY SMTT(30) DEF Init, ActiveOK, ManifestsReadable, Readable, CacheReadable, NoUses, Syncing, Replacing

LEMMA ActiveStep ==
  ASSUME ~UnlinkMayFail
  PROVE  IInv /\ ActiveOK /\ [Next]_vars => ActiveOK'
<1> SUFFICES ASSUME IInv, ActiveOK, [Next]_vars PROVE ActiveOK'
  OBVIOUS
<1> USE DEF IInv, TypeOK, ActiveOK, ManifestsReadable, Readable, CacheReadable, Syncing,
       Own, Replacing, Generations, Run, source, cache, disk, published, reader, faults
<1>1. CASE UNCHANGED vars
  BY <1>1 DEF vars
<1>2. ASSUME NEW i \in Ids, NEW dates \in SUBSET Partitions, Start(i, dates) PROVE ActiveOK'
  BY <1>2, Constants, NoRunTyped DEF Start, NoRun, NoUses
<1>3. ASSUME NEW p \in Partitions, Sweep(p) PROVE ActiveOK'
  BY <1>3, Constants, NoRunTyped DEF Sweep, Incomplete
<1>4. CASE ExtractGlobals
  BY <1>4, Constants, NoRunTyped DEF ExtractGlobals, RunOK
<1>5. CASE ListCache
  BY <1>5, Constants, NoRunTyped DEF ListCache, Cached, ToExtract
<1>6. ASSUME NEW p \in Partitions, DeleteCacheManifest(p) PROVE ActiveOK'
  BY <1>6, Constants, NoRunTyped DEF DeleteCacheManifest
<1>7. ASSUME NEW p \in Partitions, DeleteCacheBlobs(p) PROVE ActiveOK'
  BY <1>7, Constants, NoRunTyped DEF DeleteCacheBlobs
<1>8. ASSUME NEW p \in Partitions, Extract(p) PROVE ActiveOK'
  BY <1>8, Constants, NoRunTyped DEF Extract, RunOK, Versions
<1>9. CASE FlipCache
  BY <1>9, Constants, NoRunTyped DEF FlipCache, RunOK
<1>10. CASE TrimCache
  BY <1>10, Constants, NoRunTyped DEF TrimCache, RunOK
<1>11. CASE Deactivate
  <2>1. /\ pc = "extract" /\ pc' = "local"
        /\ UNCHANGED <<jobs, blobs, cacheManifest, files, run>>
        /\ \A p \in Partitions : manifest'[p] \in {None, manifest[p]}
        /\ todo' \subseteq Partitions
    BY <1>11 DEF Deactivate
  <2>2. run.id \in Ids
    BY <2>1 DEF RunOK
  <2>3. \A p \in Partitions : manifest'[p] # None => manifest'[p] = manifest[p]
    BY <2>1
  <2>4. ManifestsReadable'
    BY <2>1, <2>3
  <2>5. \A p \in todo' : manifest'[p] # run.id
    BY <2>1, <2>2, <2>3, Constants
  <2>6. \A p \in Partitions : manifest'[p] # None => manifest'[p] \in jobs'
    BY <2>1, <2>3
  <2> HIDE DEF TypeOK, IInv
  <2> QED BY <2>1, <2>4, <2>5, <2>6
<1>12. ASSUME NEW p \in Partitions, Reuse(p) PROVE ActiveOK'
  BY <1>12, Constants, NoRunTyped DEF Reuse, Refreshed
<1>13. ASSUME NEW p \in Partitions, MakeDirectory(p) PROVE ActiveOK'
  BY <1>13, Constants, NoRunTyped DEF MakeDirectory, Incomplete, CanReplace, RunOK,
         PendingOK, CanReplace
<1>14. CASE TouchPending
  BY <1>14, Constants, NoRunTyped DEF TouchPending
<1>15. CASE Download
  BY <1>15, Constants, NoRunTyped DEF Download, RunOK, ReplaceOK
<1>16. CASE Activate
  BY <1>16, Constants, NoRunTyped DEF Activate, RunOK, ReplaceOK
<1>17. CASE UnlinkPending
  BY <1>17, Constants, NoRunTyped DEF UnlinkPending, RunOK
<1>18. CASE Validate
  BY <1>18, Constants, NoRunTyped DEF Validate
<1>19. CASE WriteSidecar
  BY <1>19, Constants, NoRunTyped DEF WriteSidecar
<1>20. CASE Swap
  BY <1>20, Constants, NoRunTyped DEF Swap
<1>21. ASSUME NEW p \in Partitions, Clean(p) PROVE ActiveOK'
  BY <1>21, Constants, NoRunTyped DEF Clean, Expired, Marks, Stop, NoRun, NoUses
<1>22. CASE Refuse
  BY <1>22, Constants, NoRunTyped DEF Refuse, Stop, NoRun, NoUses
<1>23. CASE RaiseInDownload
  BY <1>23, Constants, NoRunTyped DEF RaiseInDownload, Stop, NoRun, NoUses, Removed,
         Rollback, Raised, RunOK
<1>24. CASE RaiseInSwap
  BY <1>24, Constants, NoRunTyped DEF RaiseInSwap, Stop, NoRun, NoUses, Raised
<1>25. CASE Crash
  BY <1>25, Constants, NoRunTyped DEF Crash, Stop, NoRun, NoUses, Killed
<1>26. CASE CrashInRemoval
  BY <1>26, Constants, NoRunTyped DEF CrashInRemoval, Stop, NoRun, NoUses, Killed,
         Incomplete, Expired
<1>27. ASSUME NEW p \in Partitions, Rebuild(p) PROVE ActiveOK'
  BY <1>27, Constants, NoRunTyped DEF Rebuild
<1>28. ASSUME NEW p \in Partitions, Expire(p) PROVE ActiveOK'
  BY <1>28, Constants, NoRunTyped DEF Expire
<1>29. CASE Open
  BY <1>29, Constants, NoRunTyped DEF Open, NoUses
<1>30. CASE Close
  BY <1>30, Constants, NoRunTyped DEF Close, NoUses
<1>31. CASE Tick
  BY <1>31, Constants, NoRunTyped DEF Tick
<1> QED BY <1>1, <1>2, <1>3, <1>4, <1>5, <1>6, <1>7, <1>8, <1>9, <1>10, <1>11, <1>12, <1>13,
       <1>14, <1>15, <1>16, <1>17, <1>18, <1>19, <1>20, <1>21, <1>22, <1>23, <1>24, <1>25,
       <1>26, <1>27, <1>28, <1>29, <1>30, <1>31 DEF Next, Export

(* With a disk that lets markers be removed, no manifest ever names a missing *)
(* file: no kill or failure blocks later exports.                             *)
THEOREM NeverBlocked ==
  ASSUME ~UnlinkMayFail
  PROVE  Spec => []ManifestsReadable
<1>1. ActiveOK => ManifestsReadable
  BY DEF ActiveOK
<1> QED BY <1>1, InitActive, ActiveStep, Invariance, PTL DEF Spec

-----------------------------------------------------------------------------
(* Changed dates: what the run extracts, it extracts after its start, and it  *)
(* takes nothing else for a date that changed.                                *)

ChangedOK ==
  /\ \A p \in Partitions, i \in Ids : blobs[<<p, i>>] # None => i \in jobs
  /\ pc # "idle" => \A p \in Partitions : run.source[p] <= warehouse[p]
  /\ pc \in Own => \A p \in Partitions :
       /\ blobs[<<p, run.id>>] # None => blobs[<<p, run.id>>] >= run.source[p]
       /\ Refreshed(p) /\ files[<<p, run.id>>] # None => files[<<p, run.id>>] >= run.source[p]
  /\ pc \in Own \ {"list"} => \A p \in Partitions : Refreshed(p) =>
       \/ cacheManifest[p] \in {None, run.id}
       \/ pc \in Syncing /\ p \in todo
       \/ pc = "delete" /\ p \in run.doomed
  /\ pc = "trim" => cacheManifest[cur] = run.id
  /\ \A p \in Partitions : Refreshed(p) /\ run.uses[p] # None => run.uses[p] = run.id

LEMMA InitChanged == Init => ChangedOK
BY NoRunTyped DEF Init, ChangedOK, NoUses, Own, Replacing, Generations

LEMMA ChangedStep == IInv /\ ChangedOK /\ [Next]_vars => ChangedOK'
<1> SUFFICES ASSUME IInv, ChangedOK, [Next]_vars PROVE ChangedOK'
  OBVIOUS
<1> USE DEF IInv, TypeOK, ChangedOK, Refreshed, Syncing, Own, Replacing, Generations,
       Versions, Run, source, cache, disk, published, reader, faults
<1>1. CASE UNCHANGED vars
  BY <1>1 DEF vars
<1>2. ASSUME NEW i \in Ids, NEW dates \in SUBSET Partitions, Start(i, dates) PROVE ChangedOK'
  BY <1>2, Constants, NoRunTyped DEF Start, NoRun, NoUses
<1>3. ASSUME NEW p \in Partitions, Sweep(p) PROVE ChangedOK'
  BY <1>3, Constants, NoRunTyped DEF Sweep, Incomplete, Readable
<1>4. CASE ExtractGlobals
  BY <1>4, Constants, NoRunTyped DEF ExtractGlobals, RunOK, DirsOK
<1>5. CASE ListCache
  BY <1>5, Constants, NoRunTyped DEF ListCache, Cached, ToExtract
<1>6. ASSUME NEW p \in Partitions, DeleteCacheManifest(p) PROVE ChangedOK'
  BY <1>6, Constants, NoRunTyped DEF DeleteCacheManifest
<1>7. ASSUME NEW p \in Partitions, DeleteCacheBlobs(p) PROVE ChangedOK'
  <2>1. /\ pc = "delete" /\ pc' \in {"delete", "extract"} /\ cacheManifest[p] = None
        /\ UNCHANGED <<cacheManifest, jobs, files, warehouse, todo>>
        /\ run' = [run EXCEPT !.doomed = @ \ {p}]
        /\ pc' = "extract" => run.doomed = {p}
    BY <1>7 DEF DeleteCacheBlobs
  <2>2. \A q \in Partitions, i \in Ids : blobs'[<<q, i>>] \in {None, blobs[<<q, i>>]}
    BY <1>7 DEF DeleteCacheBlobs
  <2>3. run'.id = run.id /\ run'.dates = run.dates /\ run'.source = run.source
        /\ run'.uses = run.uses /\ run'.doomed = run.doomed \ {p}
    BY <2>1
  <2> HIDE DEF TypeOK
  <2>4. run.id \in Ids
    BY <2>1 DEF RunOK
  <2> QED BY <2>1, <2>2, <2>3, <2>4, Constants
<1>8. ASSUME NEW p \in Partitions, Extract(p) PROVE ChangedOK'
  BY <1>8, Constants, NoRunTyped DEF Extract, RunOK
<1>9. CASE FlipCache
  BY <1>9, Constants, NoRunTyped DEF FlipCache, RunOK
<1>10. CASE TrimCache
  BY <1>10, Constants, NoRunTyped DEF TrimCache, RunOK
<1>11. CASE Deactivate
  BY <1>11, Constants, NoRunTyped DEF Deactivate
<1>12. ASSUME NEW p \in Partitions, Reuse(p) PROVE ChangedOK'
  BY <1>12, Constants, NoRunTyped DEF Reuse, Readable
<1>13. ASSUME NEW p \in Partitions, MakeDirectory(p) PROVE ChangedOK'
  BY <1>13, Constants, NoRunTyped DEF MakeDirectory, Incomplete, Readable, CanReplace,
         CacheReadable, RunOK, PendingOK
<1>14. CASE TouchPending
  BY <1>14, Constants, NoRunTyped DEF TouchPending
<1>15. CASE Download
  BY <1>15, Constants, NoRunTyped DEF Download, RunOK, ReplaceOK
<1>16. CASE Activate
  BY <1>16, Constants, NoRunTyped DEF Activate
<1>17. CASE UnlinkPending
  BY <1>17, Constants, NoRunTyped DEF UnlinkPending, RunOK
<1>18. CASE Validate
  BY <1>18, Constants, NoRunTyped DEF Validate
<1>19. CASE WriteSidecar
  BY <1>19, Constants, NoRunTyped DEF WriteSidecar
<1>20. CASE Swap
  BY <1>20, Constants, NoRunTyped DEF Swap
<1>21. ASSUME NEW p \in Partitions, Clean(p) PROVE ChangedOK'
  BY <1>21, Constants, NoRunTyped DEF Clean, Expired, Marks, Readable, Stop, NoRun, NoUses
<1>22. CASE Refuse
  BY <1>22, Constants, NoRunTyped DEF Refuse, Stop, NoRun, NoUses
<1>23. CASE RaiseInDownload
  BY <1>23, Constants, NoRunTyped DEF RaiseInDownload, Stop, NoRun, NoUses, Removed,
         Rollback, Raised
<1>24. CASE RaiseInSwap
  BY <1>24, Constants, NoRunTyped DEF RaiseInSwap, Stop, NoRun, NoUses, Raised
<1>25. CASE Crash
  BY <1>25, Constants, NoRunTyped DEF Crash, Stop, NoRun, NoUses, Killed
<1>26. CASE CrashInRemoval
  BY <1>26, Constants, NoRunTyped DEF CrashInRemoval, Stop, NoRun, NoUses, Killed,
         Incomplete, Expired, Readable
<1>27. ASSUME NEW p \in Partitions, Rebuild(p) PROVE ChangedOK'
  BY <1>27, Constants, NoRunTyped DEF Rebuild
<1>28. ASSUME NEW p \in Partitions, Expire(p) PROVE ChangedOK'
  BY <1>28, Constants, NoRunTyped DEF Expire
<1>29. CASE Open
  BY <1>29, Constants, NoRunTyped DEF Open, NoUses
<1>30. CASE Close
  BY <1>30, Constants, NoRunTyped DEF Close, NoUses
<1>31. CASE Tick
  BY <1>31, Constants, NoRunTyped DEF Tick
<1> QED BY <1>1, <1>2, <1>3, <1>4, <1>5, <1>6, <1>7, <1>8, <1>9, <1>10, <1>11, <1>12, <1>13,
       <1>14, <1>15, <1>16, <1>17, <1>18, <1>19, <1>20, <1>21, <1>22, <1>23, <1>24, <1>25,
       <1>26, <1>27, <1>28, <1>29, <1>30, <1>31 DEF Next, Export

(* A run publishes each date it was told has changed no older than the        *)
(* warehouse held it when the run started (_sync_partition_cache, and the     *)
(* choice between reuse and replacement in _extract_partitioned_store_inputs).*)
THEOREM ChangedDates == Spec => ChangedDatesPublished
<1>1. IInv /\ ChangedOK /\ [Next]_vars =>
        (catalog' # catalog =>
           \A p \in Partitions : Refreshed(p) /\ catalog'.uses[p] # None =>
             files[<<p, catalog'.uses[p]>>] >= run.source[p])
  <2> SUFFICES ASSUME IInv, ChangedOK, [Next]_vars, catalog' # catalog,
                      NEW p \in Partitions, Refreshed(p), catalog'.uses[p] # None
               PROVE  files[<<p, catalog'.uses[p]>>] >= run.source[p]
    OBVIOUS
  <2>1. Swap
    BY DEF Next, Export, Start, Sweep, ExtractGlobals, ListCache, DeleteCacheManifest,
       DeleteCacheBlobs, Extract, FlipCache, TrimCache, Deactivate, Reuse, MakeDirectory,
       TouchPending, Download, Activate, UnlinkPending, Validate, WriteSidecar, Clean, Refuse,
       RaiseInDownload, RaiseInSwap, Crash, CrashInRemoval, Rebuild, Expire, Open, Close, Tick,
       published, vars
  <2>2. catalog'.uses = run.uses /\ pc \in Own
    BY <2>1 DEF Swap, Own
  <2>3. run.uses[p] = run.id /\ files[<<p, run.id>>] # None
    BY <2>2 DEF ChangedOK, IInv, UsesOK
  <2> QED BY <2>2, <2>3 DEF ChangedOK
<1> QED
  BY <1>1, InitChanged, ChangedStep, Invariance, PTL DEF Spec, ChangedDatesPublished

-----------------------------------------------------------------------------
(* The sidecar: between the two replacements a run knows what to restore.     *)

SidecarOK ==
  /\ pc = "swap" => sidecar = run.id
  /\ crashes = 0 => IF pc = "swap" THEN run.prior = catalog.id ELSE sidecar = catalog.id

(* A step that is not one of the replacements', nor a kill, leaves what is    *)
(* published and does not come between the two.                               *)
LEMMA Apart ==
  ASSUME Next
  PROVE  \/ WriteSidecar \/ Swap \/ RaiseInSwap \/ Crash \/ CrashInRemoval
         \/ /\ UNCHANGED <<catalog, sidecar, crashes>>
            /\ (pc' # "swap" /\ pc # "swap") \/ (pc' = pc /\ run' = run)
<1> DEFINE Same == /\ UNCHANGED <<catalog, sidecar, crashes>>
                   /\ (pc' # "swap" /\ pc # "swap") \/ (pc' = pc /\ run' = run)
<1> USE DEF published, faults
<1>1. ASSUME NEW i \in Ids, NEW dates \in SUBSET Partitions, Start(i, dates) PROVE Same
  BY <1>1 DEF Start
<1>2. ASSUME NEW p \in Partitions,
             Sweep(p) \/ DeleteCacheManifest(p) \/ DeleteCacheBlobs(p) \/ Extract(p) \/ Reuse(p) \/ MakeDirectory(p)
      PROVE  Same
  BY <1>2 DEF Sweep, DeleteCacheManifest, DeleteCacheBlobs, Extract, Reuse, MakeDirectory
<1>3. ASSUME NEW p \in Partitions, Clean(p) PROVE Same
  BY <1>3 DEF Clean, Stop
<1>4. CASE ExtractGlobals \/ ListCache \/ FlipCache \/ TrimCache \/ Deactivate
  BY <1>4 DEF ExtractGlobals, ListCache, FlipCache, TrimCache, Deactivate
<1>5. CASE TouchPending \/ Download \/ Activate \/ UnlinkPending \/ Validate
  BY <1>5 DEF TouchPending, Download, Activate, UnlinkPending, Validate
<1>6. CASE Refuse
  BY <1>6 DEF Refuse, Refuses, Stop
<1>7. CASE RaiseInDownload
  BY <1>7 DEF RaiseInDownload, Rollback, Raised, Stop
<1>8. ASSUME NEW p \in Partitions, Rebuild(p) \/ Expire(p) PROVE Same
  BY <1>8 DEF Rebuild, Expire
<1>9. CASE Open \/ Close \/ Tick
  BY <1>9 DEF Open, Close, Tick
<1> QED BY <1>1, <1>2, <1>3, <1>4, <1>5, <1>6, <1>7, <1>8, <1>9 DEF Next, Export

LEMMA SidecarStep == IInv /\ SidecarOK /\ [Next]_vars => SidecarOK'
<1> SUFFICES ASSUME IInv, SidecarOK, [Next]_vars PROVE SidecarOK'
  OBVIOUS
<1>0. crashes \in Nat /\ run \in Run
  BY DEF IInv, TypeOK
<1>1. CASE UNCHANGED vars
  BY <1>1 DEF vars, published, faults, SidecarOK
<1>2. CASE WriteSidecar
  <2>1. run'.id = run.id /\ run'.prior = sidecar
    BY <1>0, <1>2 DEF WriteSidecar, Run
  <2> QED BY <1>2, <2>1 DEF WriteSidecar, SidecarOK, faults
<1>3. CASE Swap
  <2>1. catalog'.id = run.id /\ pc = "swap" /\ pc' = "clean" /\ sidecar' = sidecar
    BY <1>3 DEF Swap
  <2> QED BY <2>1 DEF SidecarOK
<1>4. CASE RaiseInSwap
  BY <1>4 DEF RaiseInSwap, Raised, Stop, SidecarOK
<1>5. CASE Crash \/ CrashInRemoval
  <2>1. pc' = "idle" /\ crashes' = crashes + 1
    BY <1>5 DEF Crash, CrashInRemoval, Killed, Stop
  <2> QED BY <1>0, <2>1 DEF SidecarOK
<1>6. CASE /\ UNCHANGED <<catalog, sidecar, crashes>>
           /\ (pc' # "swap" /\ pc # "swap") \/ (pc' = pc /\ run' = run)
  BY <1>6 DEF SidecarOK
<1> QED BY <1>1, <1>2, <1>3, <1>4, <1>5, <1>6, Apart

(* No exception lets the sidecar and the catalog name different exports: only *)
(* a kill between the two replacements of _publish_duckdb does.               *)
THEOREM SidecarAgrees == Spec => []SidecarMatches
<1>1. Init => SidecarOK
  BY DEF Init, SidecarOK
<1>2. SidecarOK => SidecarMatches
  BY DEF SidecarOK, SidecarMatches
<1> QED BY <1>1, <1>2, SidecarStep, Invariance, PTL DEF Spec
=============================================================================
