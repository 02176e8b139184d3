----------------------------- MODULE MCVMRestore ------------------------------
(* Instances of VMRestore for TLC. *)
EXTENDS VMRestore

CONSTANTS d1, d2, d3

Faults(list, patch, hang) ==
    [k \in FaultKinds |-> CASE k = "list"  -> list
                            [] k = "patch" -> patch
                            [] k = "hang"  -> hang]

AllFaults == Faults(1, 2, 1)

\* Every kind of VM with one disk; with more disks, a VM that is to be held, in a
\* Restore that includes no disk, one disk of each VM, or both of this VM's.
MCInit ==
    /\ Init
    /\ \/ expected = {d1}
       \/ /\ vm.annotated /\ vm.backedUp.runStrategy = "Always"
          /\ expected \in {{}, {d1, d3}, OwnDisks}

\* A Restore is recreated with one disk, after a first one without incident.
MCNext ==
    /\ Next
    /\ restores' # restores =>
           /\ expected = {d1} /\ expected' = {d1}
           /\ restarts = 0 /\ deletes = 0 /\ \A k \in FaultKinds : faults[k] = 0

MCSpec == MCInit /\ [][MCNext]_vars /\ Fairness
===============================================================================
