------------------------------ MODULE RowLedger ------------------------------
(* What the poller promises about each GPS ping it has accepted, as a ledger   *)
(* kept only by durable storage: a ping is absent, held by the spool file on   *)
(* the poller's disk, or archived in an object of raw/gps.  A ping moves       *)
(* forward and never back, and one object holds pings of one partition only.   *)
EXTENDS FiniteSets

CONSTANTS Pings,        \* GPS pings that can ever be accepted
          Slots,        \* archive partitions: a vehicle type and a Warsaw hour
          SlotOf(_)     \* the partition a ping belongs to

VARIABLE ledger

States == {"absent", "spooled", "archived"}

LedgerInit == ledger = [r \in Pings |-> "absent"]

(* The spool file is replaced by a snapshot that holds the pings of S too.     *)
Persist(S) ==
  /\ \A r \in S : ledger[r] = "absent"
  /\ ledger' = [r \in Pings |-> IF r \in S THEN "spooled" ELSE ledger[r]]

(* One object is created in partition s; S is what it archives anew.  A ping   *)
(* of a poll that is being aborted may go straight from memory to the archive. *)
Archive(s, S) ==
  /\ \A r \in S : SlotOf(r) = s /\ ledger[r] # "archived"
  /\ ledger' = [r \in Pings |-> IF r \in S THEN "archived" ELSE ledger[r]]

LedgerNext == \E S \in SUBSET Pings : Persist(S) \/ \E s \in Slots : Archive(s, S)

LedgerSpec == LedgerInit /\ [][LedgerNext]_ledger

==============================================================================
