---------------------------- MODULE MCPVCRestore ------------------------------
(* Instances of PVCRestore for TLC. *)
EXTENDS PVCRestore, TLC

CONSTANTS vm, n1, n2, n3, disk, c1, c2

\* Same-named PVCs of three namespaces.  The third was not backed up by the data
\* mover; all of them are restored to the second namespace.
OnePVC    == {<<n1, disk>>}
ThreePVCs == {<<n, disk>> : n \in {n1, n2, n3}}

AllMoved == [p \in PVCs |-> vm]
TwoMoved == [p \in PVCs |-> IF p[1] = n3 THEN "none" ELSE vm]

AllOnto2 == [n \in {n1, n3} |-> n2]
Identity == [n \in {} |-> "none"]

CallSymmetry == Permutations(Calls)

OneLocation == {"bsl"}
TwoLocations == {"bsl", "bsl2"}

Faults(backup, create, get, list, patch, hang) ==
    [k \in FaultKinds |-> CASE k = "backup" -> backup
                            [] k = "create" -> create
                            [] k = "get"    -> get
                            [] k = "list"   -> list
                            [] k = "patch"  -> patch
                            [] k = "hang"   -> hang]

AllFaults    == Faults(1, 1, 1, 1, 2, 1)
CancelFaults == Faults(0, 0, 0, 1, 1, 1)

-------------------------------------------------------------------------------
(* The stories of one Restore name, each with its own kind of trouble.         *)

Stories == {"retries", "cancels", "recreated", "mapped"}

VARIABLE story

MCInit == Init /\ story \in Stories
MCNext == Next /\ UNCHANGED story
MCSpec == MCInit /\ [][MCNext]_<<vars, story>>

\* One story only, told without the bounds of InStory: where the operation ends.
MCFairInit == Init /\ story = "cancels"
MCFairSpec == MCFairInit /\ [][MCNext]_<<vars, story>> /\ Fairness

NoFault(kinds) == \A k \in kinds : faults[k] = 0
Undisturbed    == NoFault(FaultKinds) /\ meddled = 0 /\ crashes = 0
InFlight       == {c \in Calls : calls[c].pc # "idle"}
NoCancels      == /\ \A i \in Items : cancels[i].pc = "idle"
                  /\ \A d \in downloads : ~d.cancel

\* All that happened happened to one PVC, stored in one place.
OnlyOne ==
    /\ \A c \in InFlight : calls[c].pvc \in OnePVC
    /\ \A i \in Items : ops[i].status # "none" => i[2] \in OnePVC
    /\ \A d \in downloads : d.pvc \in OnePVC /\ d.bsl = "bsl"
    /\ \A o \in pvcs : o.from \in OnePVC
    /\ location = "bsl"

InStory ==
    CASE \* Execute is retried amid failures, crashes and third parties.
         story = "retries" ->
             /\ OnlyOne /\ epoch = 1 /\ NoCancels
             /\ meddled + crashes + Cardinality({k \in FaultKinds : faults[k] > 0}) <= 3
             /\ meddled + crashes <= 2
      [] \* The operation is canceled amid failures and third parties.
         story = "cancels" ->
             /\ OnlyOne /\ epoch = 1 /\ NoFault({"backup", "create", "get"})
             /\ crashes = 0 /\ Cardinality(InFlight) <= 1
      [] \* The Restore is deleted and recreated around the calls.
         story = "recreated" ->
             /\ OnlyOne /\ Undisturbed /\ NoCancels
             /\ \A c \in Calls : calls[c].attempt <= 2
      [] \* Several PVCs, one after the other, while the Backup changes.
         story = "mapped" ->
             /\ alive /\ Undisturbed /\ NoCancels /\ Cardinality(InFlight) <= 1
             /\ \A c \in Calls : ~calls[c].abandoned
===============================================================================
