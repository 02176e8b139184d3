-------------------------- MODULE MCRestoreOperations --------------------------
(* Instances of RestoreOperations for TLC. *)
EXTENDS RestoreOperations, TLC

CONSTANTS vm, n1, n2, disk1, disk2, c1, c2

\* Two VMs of one name, the first with two disks.  Both are restored to the
\* second namespace, where a disk of the one meets that of the other.
OnePVC    == {<<n1, disk1>>}
ThreePVCs == {<<n1, disk1>>, <<n1, disk2>>, <<n2, disk1>>}
AllMoved  == [p \in PVCs |-> vm]
AllOnto2  == [n \in {n1} |-> n2]

OneLocation == {"bsl"}

Faults == [k \in FaultKinds |-> IF k \in {"create", "patch"} THEN 1 ELSE 0]

CallSymmetry == Permutations(Calls)

-------------------------------------------------------------------------------
(* The stories of one Restore name, each with its own kind of trouble.         *)

Stories == {"namesakes", "raced", "recreated"}

VARIABLE story

MCInit == VMInit /\ story \in Stories
MCNext == VMNext /\ UNCHANGED story
MCSpec == MCInit /\ [][MCNext]_<<allVars, story>>

Undisturbed == /\ \A k \in FaultKinds : faults[k] = 0
               /\ meddled = 0 /\ crashes = 0
InFlight    == {c \in Calls : calls[c].pc # "idle"}

OnlyOne == /\ \A c \in InFlight : calls[c].pvc \in OnePVC
           /\ \A i \in Items : ops[i].status # "none" => i[2] \in OnePVC
           /\ \A d \in downloads : d.pvc \in OnePVC
           /\ \A i \in VMItems : vmOps[i] # "none" => i[2] = <<n1, vm>>

NoPVCCancels == \A i \in Items : cancels[i].pc = "idle"

\* A download that fails says nothing, unless its PVC is taken.
Wordless == \A d \in downloads : d.message # "other"

InStory ==
    /\ location = "bsl" /\ Wordless
    /\ CASE \* The VMs' disks come back together, and one VM is canceled.
            story = "namesakes" ->
                /\ alive /\ epoch = 1 /\ Undisturbed /\ NoPVCCancels
                /\ Cardinality(InFlight) <= 1
                /\ \A c \in Calls : ~calls[c].abandoned
                /\ \A i \in Items : ops[i].status \in {"none", "InProgress"}
                /\ vmCancels[<<1, <<n2, vm>>>>].pc = "idle"
         [] \* Both plugins cancel, amid faults, crashes and third parties.
            story = "raced" ->
                /\ OnlyOne /\ alive /\ epoch = 1 /\ Cardinality(InFlight) <= 1
                /\ meddled + crashes + vmFaults + faults["create"]
                       + faults["patch"] <= 3
         [] \* The Restore is deleted and recreated.
            story = "recreated" ->
                /\ OnlyOne /\ Undisturbed /\ NoPVCCancels /\ vmFaults = 0
                /\ Cardinality(InFlight) <= 1
===============================================================================
