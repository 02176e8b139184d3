---------------------------- MODULE MCBackupItems -----------------------------
(* Instances of BackupItems for TLC: VMs that share PVCs within a namespace,   *)
(* and VMs and PVCs of one name in two namespaces.                             *)
EXTENDS BackupItems, TLC

CONSTANTS n1, n2, v1, v2, p1, p2

SomeVMs  == {<<n1, v1>>, <<n1, v2>>, <<n2, v2>>}
SomePVCs == {<<n1, p1>>, <<n1, p2>>, <<n2, p1>>}

Lists == {<<p1, p2>>, <<p2>>, <<p1>>, << >>}

\* Two VMs of the first namespace with one or both of its PVCs each.
Neighbours(ms) ==
    /\ \A v \in VMs :
           ms[v] = NoMachine \/ ms[v].volumes \in {<<p1, p2>>, <<p2>>}
    /\ ms[<<n2, v2>>] = NoMachine

\* At most a VM in each of the namespaces, with at most one PVC.
Namesakes(ms) ==
    /\ \A v \in VMs : ms[v].volumes \in {<<p1>>, << >>}
    /\ ms[<<n1, v2>>] = NoMachine

SomeMachines == {ms \in [VMs -> Machines] : Neighbours(ms) \/ Namesakes(ms)}

\* The neighbours are both there, the first is ready and has both PVCs, and one of
\* them is the second's.  Failed requests, other policies, VMs that are not ready
\* and backups without snapshotMoveData are left to the namesakes.
InSetting ==
    \/ /\ Neighbours(collected) /\ Neighbours(machines)
       /\ policy[<<n2, p1>>] = "absent" /\ faults = 0
       /\ snapshotMoveData /\ \A p \in PVCs : policy[p] # "other"
       /\ collected[<<n1, v1>>].volumes = <<p1, p2>>
       /\ collected[<<n1, v1>>].ready /\ policy[<<n1, p1>>] # "absent"
       /\ collected[<<n1, v2>>].exists
    \/ /\ Namesakes(collected) /\ Namesakes(machines)
       /\ policy[<<n1, p2>>] = "absent" /\ policy[<<n2, p1>>] # "other"
===============================================================================
