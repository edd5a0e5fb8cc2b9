----------------------------- MODULE Provision ------------------------------
(***************************************************************************)
(* What the deployment of machines promises, with no nodes, drivers,       *)
(* agents or messages: a disk is written at most until its machine is      *)
(* settled; a machine is settled only while its disk holds the complete    *)
(* image, and recorded only once it is settled.  A crash forgets what is   *)
(* settled, and takes the record back to what is durable.                  *)
(***************************************************************************)
CONSTANT Machine

VARIABLES disk,      \* machine -> "old", "partial" or "image"
          settled,   \* machines that this run has finished with
          recorded,  \* machines that boot from their disks
          durable    \* those that still do so after a crash

provisionVars == <<disk, settled, recorded, durable>>

ProvisionInit ==
  /\ disk = [k \in Machine |-> "old"]
  /\ settled = {} /\ recorded = {} /\ durable = {}

Write(k) ==
  /\ k \notin settled
  /\ disk' = [disk EXCEPT ![k] = "partial"]
  /\ UNCHANGED <<settled, recorded, durable>>

Complete(k) ==
  /\ k \notin settled /\ disk[k] = "partial"
  /\ disk' = [disk EXCEPT ![k] = "image"]
  /\ UNCHANGED <<settled, recorded, durable>>

Settle(k) ==
  /\ disk[k] = "image"
  /\ settled' = settled \cup {k}
  /\ UNCHANGED <<disk, recorded, durable>>

Enter(k) ==
  /\ k \in settled
  /\ recorded' = recorded \cup {k}
  /\ durable' \in {durable, recorded'}
  /\ UNCHANGED <<disk, settled>>

Crash ==
  /\ settled' = {} /\ recorded' = durable
  /\ UNCHANGED <<disk, durable>>

ProvisionNext ==
  \/ \E k \in Machine : Write(k) \/ Complete(k) \/ Settle(k) \/ Enter(k)
  \/ Crash

ProvisionSpec == ProvisionInit /\ [][ProvisionNext]_provisionVars
=============================================================================
