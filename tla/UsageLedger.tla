---------------------------- MODULE UsageLedger ----------------------------
(***************************************************************************)
(* What the usage trackers and their synchronisation promise, for one       *)
(* project, service and cycle: usage recorded by a client waits in its      *)
(* tracker (pending), until it is in the server's permanent store (stored)  *)
(* or is gone (lost: a crashed client, a failed call).                      *)
(***************************************************************************)
EXTENDS Integers

CONSTANT InitialUsage   \* in the store before the clients start

ASSUME InitialUsageAssumption == InitialUsage \in Nat

VARIABLES stored, pending, lost

ledger == <<stored, pending, lost>>

LedgerTypeOK == stored \in Nat /\ pending \in Nat /\ lost \in Nat

LedgerInit == stored = InitialUsage /\ pending = 0 /\ lost = 0

(* Tracker.AddKeyUsage, Tracker.AddProjectUsage. *)
AddUsage(n) ==
  /\ n >= 0
  /\ pending' = pending + n
  /\ UNCHANGED <<stored, lost>>

(* SyncUsage moved n units of some trackers into the store. *)
Settle(n) ==
  /\ n \in 1..pending
  /\ stored' = stored + n
  /\ pending' = pending - n
  /\ UNCHANGED lost

(* n units vanished between a tracker and the store. *)
Drop(n) ==
  /\ n \in 1..pending
  /\ lost' = lost + n
  /\ pending' = pending - n
  /\ UNCHANGED stored

LedgerNext ==
  \/ AddUsage(pending' - pending)
  \/ Settle(stored' - stored)
  \/ Drop(lost' - lost)

LedgerSpec == LedgerInit /\ [][LedgerNext]_ledger

(* All usage ever charged, the initial one included. *)
Billed == stored + pending + lost
=============================================================================
