------------------------------ MODULE BackupItems ------------------------------
(* The two backup plugins on the items of one Backup: Execute of vm/backup.go  *)
(* up to the creation of its DataUpload, and all of pvc/backup.go.             *)
(*                                                                             *)
(* Both must come to one verdict on a VM, though neither hears of the other:   *)
(* the VM plugin looks at the VM as Velero collected it, the PVC plugin finds  *)
(* the VMs of a PVC in a list it made once per namespace and looks at them as  *)
(* they are now, and each reads the PVCs one by one while users change them.   *)
(*                                                                             *)
(* A VM or PVC is <<namespace, name>>; a VM lists its PVCs by name.            *)
EXTENDS Naturals, Sequences, FiniteSets

CONSTANTS
    VMs, PVCs,      \* what may exist
    VolumeLists,    \* the sequences of PVC names a VM may have
    InitialVMs,     \* the VMs a backup may start with, functions from VMs
    MaxChanges,     \* bound: changes of the cluster during the backup
    MaxFaults       \* bound: API requests that fail

Policies   == {"kubevirt", "snapshot", "other", "absent"}
NoMachine  == [exists |-> FALSE, ready |-> FALSE, volumes |-> << >>]
Machines   == [exists : {TRUE}, ready : BOOLEAN, volumes : VolumeLists]
                  \cup {NoMachine}
Namespaces == {x[1] : x \in VMs \cup PVCs}

ASSUME ItemsAssumption ==
    /\ \A x \in VMs \cup PVCs : x = <<x[1], x[2]>>
    /\ IsFiniteSet(VMs) /\ InitialVMs \subseteq [VMs -> Machines]
    /\ \A l \in VolumeLists : l \in Seq({l[k] : k \in DOMAIN l})
    /\ {MaxChanges, MaxFaults} \subseteq Nat

VARIABLES
    snapshotMoveData,   \* the Backup's spec.snapshotMoveData
    installed,          \* does the API server have the kubevirt.io group?
    machines,           \* the VMs; ready: running, with changed block tracking
    policy,             \* the volume policy that applies to each PVC
    collected,          \* the VMs as Velero read them when the backup began
    vmRun,              \* Execute for each collected VM
    pvcRun,             \* Execute for each PVC that was there
    kubevirtInstall, nsPVCs,  \* the PVC plugin's caches
    touched,            \* VMs and PVCs that a change concerned (ghost)
    changes, faults     \* what is used of the bounds

cluster == <<snapshotMoveData, installed, machines, policy, collected>>
ghosts  == <<touched, changes>>
vars    == <<cluster, vmRun, pvcRun, kubevirtInstall, nsPVCs, ghosts, faults>>

\* The PVCs of VM v when it is in state m, and the VMs of PVC p.
PVCsOf(v, m) == {<<v[1], m.volumes[k]>> : k \in DOMAIN m.volumes} \cap PVCs
Users(ms, p) == {v \in VMs : ms[v].exists /\ p \in PVCsOf(v, ms[v])}

\* The policy for a PVC that a VM names; one that does not exist has none.
Policy(x) == IF x \in PVCs THEN policy[x] ELSE "absent"

-------------------------------------------------------------------------------
(* The verdict on a VM, which both plugins reach PVC by PVC.                   *)

\* How far a walk over the VM's volumes has come, and what it has seen.
NoWalk == [volumes |-> << >>, at |-> 1, kubevirt |-> FALSE, conflict |-> FALSE]

Walks == [volumes : VolumeLists \cup {<< >>}, at : Nat \ {0},
          kubevirt : BOOLEAN, conflict : BOOLEAN]

WalkOver(m) == [NoWalk EXCEPT !.volumes = m.volumes]

\* CheckPreconditions before it looks at any PVC.
WorthChecking(m) == snapshotMoveData /\ m.ready /\ m.volumes # << >>

\* Mutant: any PVC that is not to be snapshot counts.
AnyPolicyWillDo(w, p) ==
    [w EXCEPT !.at = @ + 1, !.kubevirt = @ \/ Policy(p) \in {"kubevirt", "other"},
              !.conflict = @ \/ Policy(p) = "snapshot"]

\* One round of checkVolumePolicies: a PVC that is missing is skipped.
SeeVolume(w, p) ==
    [w EXCEPT !.at = @ + 1, !.kubevirt = @ \/ Policy(p) = "kubevirt",
              !.conflict = @ \/ Policy(p) = "snapshot"]

Over(w)     == w.at > Len(w.volumes)
Eligible(w) == w.kubevirt /\ ~w.conflict

-------------------------------------------------------------------------------
(* The runs of Execute and the initial state.                                  *)

VMRuns ==
    [pc : {"new", "check", "source", "done"}, walk : Walks,
     result : {"none", "asis", "uploaded", "error"}, source : PVCs \cup {<< >>}]

PVCRuns ==
    [pc : {"list", "get", "check", "done"}, walk : Walks, left : SUBSET VMs,
     total : 0..Cardinality(VMs), vm : VMs \cup {<< >>},
     result : {"none", "asis", "stamped", "error"}]

\* An item that Velero does not have is as good as done.
NewVMRun(m) == [pc |-> IF m.exists THEN "new" ELSE "done", walk |-> NoWalk,
                result |-> "none", source |-> << >>]
NewPVCRun(class) ==
    [pc |-> IF class = "absent" THEN "done" ELSE "list", walk |-> NoWalk,
     left |-> {}, total |-> 0, vm |-> << >>, result |-> "none"]

Init ==
    /\ snapshotMoveData \in BOOLEAN /\ installed \in BOOLEAN
    /\ machines \in InitialVMs
    /\ ~installed => \A v \in VMs : ~machines[v].exists
    /\ policy \in [PVCs -> Policies]
    /\ collected = machines
    /\ vmRun = [v \in VMs |-> NewVMRun(machines[v])]
    /\ pvcRun = [p \in PVCs |-> NewPVCRun(policy[p])]
    /\ kubevirtInstall = "unknown"
    /\ nsPVCs = [n \in Namespaces |->
                    [known |-> FALSE, users |-> [p \in PVCs |-> {}]]]
    /\ touched = {} /\ changes = 0 /\ faults = 0

\* A request fails: the item fails with it, and nothing is cached.
Fault == faults < MaxFaults /\ faults' = faults + 1

-------------------------------------------------------------------------------
(* The VM backup plugin.                                                       *)

SetVM(v, run) == vmRun' = [vmRun EXCEPT ![v] = run]

\* The end of a run: the item as it came, or an error, or with a DataUpload.
Ended(run, result) == [run EXCEPT !.pc = "done", !.result = result]

VMUnchanged == UNCHANGED <<cluster, pvcRun, kubevirtInstall, nsPVCs, ghosts>>

ExecuteVM(v) ==
    /\ vmRun[v].pc = "new"
    /\ SetVM(v, IF WorthChecking(collected[v])
                THEN [vmRun[v] EXCEPT !.pc = "check",
                                      !.walk = WalkOver(collected[v])]
                ELSE Ended(vmRun[v], "asis"))
    /\ VMUnchanged /\ UNCHANGED faults

\* checkVolumePolicies reads the next PVC; after the last one comes the verdict.
CheckVM(v) ==
    LET run  == vmRun[v]
        seen == SeeVolume(run.walk, <<v[1], run.walk.volumes[run.walk.at]>>)
    IN /\ run.pc = "check"
       /\ \/ /\ CASE ~Over(seen)     -> SetVM(v, [run EXCEPT !.walk = seen])
                  [] Over(seen) /\ Eligible(seen) ->
                        SetVM(v, [run EXCEPT !.pc = "source",
                                             !.walk = WalkOver(collected[v])])
                  [] OTHER           -> SetVM(v, Ended(run, "asis"))
             /\ UNCHANGED faults
          \/ SetVM(v, Ended(run, "error")) /\ Fault
       /\ VMUnchanged

\* getFirstKubevirtPVC reads the PVCs again.  With the source found, the
\* DataUpload is created.
getFirstKubevirtPVC(v) ==
    LET run  == vmRun[v]
        p    == <<v[1], run.walk.volumes[run.walk.at]>>
        next == [run.walk EXCEPT !.at = @ + 1]
    IN /\ run.pc = "source"
       /\ \/ /\ Policy(p) = "kubevirt"
             /\ SetVM(v, [Ended(run, "uploaded") EXCEPT !.source = p])
             /\ UNCHANGED faults
          \/ /\ Policy(p) # "kubevirt"
             /\ SetVM(v, IF Over(next) THEN Ended(run, "error")
                         ELSE [run EXCEPT !.walk = next])
             /\ UNCHANGED faults
          \/ SetVM(v, Ended(run, "error")) /\ Fault
       /\ VMUnchanged

-------------------------------------------------------------------------------
(* The PVC backup plugin.                                                      *)

SetPVC(p, run) == pvcRun' = [pvcRun EXCEPT ![p] = run]

\* Mutant: a failed discovery counts as an absent KubeVirt.
ErrorMeansMissing(p) ==
    /\ pvcRun[p].pc = "list" /\ kubevirtInstall # "present"
    /\ \/ /\ kubevirtInstall = "unknown" /\ installed
          /\ kubevirtInstall' = "present"
          /\ UNCHANGED <<pvcRun, faults>>
       \/ /\ kubevirtInstall = "unknown"
          /\ kubevirtInstall' = "missing"
          /\ SetPVC(p, Ended(pvcRun[p], "asis")) /\ Fault
       \/ /\ kubevirtInstall = "missing"
          /\ SetPVC(p, Ended(pvcRun[p], "asis"))
          /\ UNCHANGED <<kubevirtInstall, faults>>
    /\ UNCHANGED <<cluster, vmRun, nsPVCs, ghosts>>

\* shouldListVMsLocked: the answer is kept, an error is not.  The lock is held
\* until the list is there; letting go of it in between changes only who lists.
shouldListVMsLocked(p) ==
    /\ pvcRun[p].pc = "list" /\ kubevirtInstall # "present"
    /\ \/ /\ kubevirtInstall = "unknown" /\ installed
          /\ kubevirtInstall' = "present"
          /\ UNCHANGED <<pvcRun, faults>>
       \/ /\ kubevirtInstall = "unknown" /\ ~installed
          /\ kubevirtInstall' = "missing"
          /\ SetPVC(p, Ended(pvcRun[p], "asis"))
          /\ UNCHANGED faults
       \/ /\ kubevirtInstall = "unknown"
          /\ SetPVC(p, Ended(pvcRun[p], "error"))
          /\ Fault /\ UNCHANGED kubevirtInstall
       \/ /\ kubevirtInstall = "missing"
          /\ SetPVC(p, Ended(pvcRun[p], "asis"))
          /\ UNCHANGED <<kubevirtInstall, faults>>
    /\ UNCHANGED <<cluster, vmRun, nsPVCs, ghosts>>

\* With the VMs of its PVC known, Execute goes on, or returns the item.
UseVMs(p, users) ==
    SetPVC(p, IF users = {} THEN Ended(pvcRun[p], "asis")
              ELSE [pvcRun[p] EXCEPT !.pc = "get", !.left = users,
                                     !.total = Cardinality(users)])

\* Mutant: one map for all namespaces, keyed by the PVC's name.
OneMapForAll(p) ==
    LET alias(q) == <<p[1], q[2]>>
        listed   == [q \in PVCs |-> Users(machines, alias(q))]
    IN /\ pvcRun[p].pc = "list" /\ kubevirtInstall = "present"
       /\ \/ /\ nsPVCs[p[1]].known
             /\ UseVMs(p, nsPVCs[p[1]].users[p])
             /\ UNCHANGED <<nsPVCs, faults>>
          \/ /\ ~nsPVCs[p[1]].known
             /\ nsPVCs' = [n \in Namespaces |-> [known |-> TRUE, users |-> listed]]
             /\ UseVMs(p, listed[p])
             /\ UNCHANGED faults
       /\ UNCHANGED <<cluster, vmRun, kubevirtInstall, ghosts>>

\* getPVCList: the VMs of a namespace are listed once.
getPVCList(p) ==
    LET ns     == p[1]
        listed == [q \in PVCs |-> IF q[1] = ns THEN Users(machines, q) ELSE {}]
    IN /\ pvcRun[p].pc = "list" /\ kubevirtInstall = "present"
       /\ \/ /\ nsPVCs[ns].known
             /\ UseVMs(p, nsPVCs[ns].users[p])
             /\ UNCHANGED <<nsPVCs, faults>>
          \/ /\ ~nsPVCs[ns].known
             /\ nsPVCs' = [nsPVCs EXCEPT ![ns] = [known |-> TRUE, users |-> listed]]
             /\ UseVMs(p, listed[p])
             /\ UNCHANGED faults
          \/ /\ ~nsPVCs[ns].known
             /\ SetPVC(p, Ended(pvcRun[p], "error"))
             /\ Fault /\ UNCHANGED nsPVCs
       /\ UNCHANGED <<cluster, vmRun, kubevirtInstall, ghosts>>

\* Not this VM: on to the next, or, after the last, the item as it came.
NextVM(run) == IF run.left = {} THEN Ended(run, "asis")
               ELSE [run EXCEPT !.pc = "get", !.walk = NoWalk, !.vm = << >>]

\* The next VM of the list is read; one that is gone is an error.
GetVM(p) ==
    /\ pvcRun[p].pc = "get"
    /\ \E v \in pvcRun[p].left :
          LET run == [pvcRun[p] EXCEPT !.left = @ \ {v}] IN
          \/ /\ SetPVC(p, CASE ~machines[v].exists -> Ended(run, "error")
                            [] machines[v].exists /\ WorthChecking(machines[v]) ->
                                  [run EXCEPT !.pc = "check", !.vm = v,
                                              !.walk = WalkOver(machines[v])]
                            [] OTHER -> NextVM(run))
             /\ UNCHANGED faults
          \/ SetPVC(p, Ended(run, "error")) /\ Fault
    /\ UNCHANGED <<cluster, vmRun, kubevirtInstall, nsPVCs, ghosts>>

\* Mutant: a shared PVC is stamped with the first VM that is eligible.
StampsFirst(run) == Ended(run, "stamped")

\* What follows from an eligible VM: a stamp, if the PVC is not shared.
Stamp(run) == Ended(run, IF run.total > 1 THEN "error" ELSE "stamped")

\* CheckPreconditions on the VM as it was read, PVC by PVC.
CheckVMOfPVC(p) ==
    LET run  == pvcRun[p]
        seen == SeeVolume(run.walk, <<run.vm[1], run.walk.volumes[run.walk.at]>>)
    IN /\ run.pc = "check"
       /\ \/ /\ SetPVC(p, CASE ~Over(seen) -> [run EXCEPT !.walk = seen]
                            [] Over(seen) /\ Eligible(seen) -> Stamp(run)
                            [] OTHER -> NextVM(run))
             /\ UNCHANGED faults
          \/ SetPVC(p, Ended(run, "error")) /\ Fault
       /\ UNCHANGED <<cluster, vmRun, kubevirtInstall, nsPVCs, ghosts>>

-------------------------------------------------------------------------------
(* The users of the cluster.                                                   *)

Change == changes < MaxChanges /\ changes' = changes + 1

\* A VM is created, deleted or edited; its PVCs, old and new, are concerned.
ChangeVM(v) ==
    /\ Change /\ installed
    /\ \E m \in Machines \ {machines[v]} :
          /\ machines' = [machines EXCEPT ![v] = m]
          /\ touched' = touched \cup {v} \cup PVCsOf(v, m)
                                \cup PVCsOf(v, machines[v])
    /\ UNCHANGED <<snapshotMoveData, installed, policy, collected, vmRun, pvcRun,
                   kubevirtInstall, nsPVCs, faults>>

\* A PVC comes or goes, or what makes a policy apply to it changes.
ChangePVC(p) ==
    /\ Change
    /\ policy' \in {[policy EXCEPT ![p] = c] : c \in Policies \ {policy[p]}}
    /\ touched' = touched \cup {p}
    /\ UNCHANGED <<snapshotMoveData, installed, machines, collected, vmRun, pvcRun,
                   kubevirtInstall, nsPVCs, faults>>

InstallKubeVirt ==
    /\ Change /\ ~installed /\ installed' = TRUE
    /\ UNCHANGED <<snapshotMoveData, machines, policy, collected, vmRun, pvcRun,
                   kubevirtInstall, nsPVCs, touched, faults>>

-------------------------------------------------------------------------------
VMSteps(v)  == ExecuteVM(v) \/ CheckVM(v) \/ getFirstKubevirtPVC(v)
PVCSteps(p) == \/ shouldListVMsLocked(p) \/ getPVCList(p)
               \/ GetVM(p) \/ CheckVMOfPVC(p)

Next ==
    \/ \E v \in VMs  : VMSteps(v) \/ ChangeVM(v)
    \/ \E p \in PVCs : PVCSteps(p) \/ ChangePVC(p)
    \/ InstallKubeVirt

Spec == Init /\ [][Next]_vars

-------------------------------------------------------------------------------
(* Properties.                                                                 *)

TypeOK ==
    /\ snapshotMoveData \in BOOLEAN /\ installed \in BOOLEAN
    /\ machines \in [VMs -> Machines] /\ collected \in [VMs -> Machines]
    /\ policy \in [PVCs -> Policies]
    /\ vmRun \in [VMs -> VMRuns] /\ pvcRun \in [PVCs -> PVCRuns]
    /\ kubevirtInstall \in {"unknown", "missing", "present"}
    /\ nsPVCs \in [Namespaces -> [known : BOOLEAN, users : [PVCs -> SUBSET VMs]]]
    /\ touched \subseteq VMs \cup PVCs
    /\ changes \in Nat /\ faults \in Nat

\* Nothing that the verdict on v depends on has changed during the backup.
Untouched(v) == ({v} \cup PVCsOf(v, collected[v])) \cap touched = {}

\* The two plugins agree (README: "same preconditions as the VirtualMachine
\* BackupItemAction"): a PVC of VM v is stamped with v if and only if v has a
\* DataUpload, unless one of the two items failed and the Backup says so.  This
\* holds for every VM left alone, whatever becomes of other VMs and PVCs, in
\* whatever order and however concurrently the items are processed.
Agreement ==
    \A v \in VMs : \A p \in PVCsOf(v, collected[v]) :
        (/\ Untouched(v)
         /\ vmRun[v].result \in {"asis", "uploaded"}
         /\ pvcRun[p].result \in {"asis", "stamped"}) =>
            (vmRun[v].result = "uploaded"
                 <=> pvcRun[p].result = "stamped" /\ pvcRun[p].vm = v)

\* A stamp is exclusive: what is restored for one VM is no other VM's disk, even
\* if that one is not backed up by the data mover itself.
StampIsExclusive ==
    \A p \in PVCs : (pvcRun[p].result = "stamped" /\ p \notin touched) =>
        Users(machines, p) = {pvcRun[p].vm}

\* A PVC that is left alone, and with it the VMs that use it, is not refused for
\* what happens elsewhere: without a failed request only sharing is a reason.
RefusedOnlyIfShared ==
    \A p \in PVCs :
        (pvcRun[p].result = "error" /\ p \notin touched /\ faults = 0) =>
            Cardinality(Users(machines, p)) > 1

\* The VM plugin's two rounds of reads agree for a VM left alone: eligible in
\* the first, it has a source PVC in the second, and one the first round saw.
VerdictHasSource ==
    \A v \in VMs : (Untouched(v) /\ faults = 0) =>
        /\ vmRun[v].result # "error"
        /\ vmRun[v].result = "uploaded" =>
              /\ vmRun[v].source \in PVCsOf(v, collected[v])
              /\ \A p \in PVCsOf(v, collected[v]) : policy[p] # "snapshot"

===============================================================================
