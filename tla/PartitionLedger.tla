----------------------------- MODULE PartitionLedger -----------------------------
(* What the matcher's publication promises about the partitions of one         *)
(* processing date: they change together, to a content that the publishing run *)
(* had approved, and a certificate is only given for what they hold.           *)
CONSTANTS Runs, Outputs, None

VARIABLES stable,     \* the content of the partitions
          approved,   \* validated.json of each run
          certified   \* published.json of each run

ledger == <<stable, approved, certified>>

Unmarked == [r \in Runs |-> None]

LedgerInit == stable = None /\ approved = Unmarked /\ certified = Unmarked

Approve(r, o) ==
  /\ approved[r] = None
  /\ approved' = [approved EXCEPT ![r] = o]
  /\ UNCHANGED <<stable, certified>>

Replace(r) ==
  /\ approved[r] # None
  /\ stable' = approved[r]
  /\ UNCHANGED <<approved, certified>>

Certify(r) ==
  /\ certified[r] = None
  /\ stable # None /\ stable = approved[r]
  /\ certified' = [certified EXCEPT ![r] = stable]
  /\ UNCHANGED <<stable, approved>>

(* Old markers are deleted.                                                    *)
Forget(r) ==
  /\ \/ approved' = [approved EXCEPT ![r] = None] /\ certified' = certified
     \/ certified' = [certified EXCEPT ![r] = None] /\ approved' = approved
  /\ UNCHANGED stable

LedgerNext ==
  \E r \in Runs : (\E o \in Outputs : Approve(r, o)) \/ Replace(r) \/ Certify(r) \/ Forget(r)

LedgerSpec == LedgerInit /\ [][LedgerNext]_ledger
==================================================================================
