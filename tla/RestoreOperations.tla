--------------------------- MODULE RestoreOperations ---------------------------
(* The two restore plugins at work on one set of DataDownloads.  The PVC       *)
(* plugin, PVCRestore, creates one per PVC and tracks it by its operation ID;  *)
(* the VM plugin, vm/restore.go, has one operation per VM and finds the        *)
(* DataDownloads of the VM's disks by the names of Backup, Restore and VM.     *)
(* Neither hears of the other, and both may ask a DataDownload to stop.        *)
(*                                                                             *)
(* What the VM plugin does to the VM, its grace period and its retries are     *)
(* those of VMRestore.  Here a poll that finds nothing may wait or give up,    *)
(* and a request of Cancel is all its attempts.                                *)
EXTENDS PVCRestore

CONSTANT MaxVMFaults    \* bound: requests of the VM plugin that fail

\* VMs of one name in two namespaces are two.
VMs == {<<p[1], VMOf[p]>> : p \in {q \in PVCs : VMOf[q] # "none"}}

\* A foreign object that names another VM names none of these.
ASSUME VMsAssumption == "other" \notin VMNames /\ MaxVMFaults \in Nat

VARIABLES
    through,    \* has Velero been through the items of the latest Restore?
    vmOps,      \* Velero's record of each VM's operation
    vmCancels,  \* the VM plugin's Cancel call of each operation
    vmFaults    \* what is used of the bound

vmVars  == <<through, vmOps, vmCancels, vmFaults>>
allVars == <<vars, vmVars>>

VMItems == UIDs \X VMs

DisksOf(v) == {p \in PVCs : <<p[1], VMOf[p]>> = v}

\* todo, found, errs: the DataDownloads still to be asked, all that were found,
\* and those the call gave up on.
NoVMCancel == [pc |-> "idle", todo |-> {}, found |-> {}, errs |-> {}]

Copies == [id : Nat, name : [kind : {"dd"}, pvc : PVCs]]

VMCancelStates == [pc : {"idle", "list", "patch", "done"}, todo : SUBSET Copies,
                   found : SUBSET Copies, errs : SUBSET Copies]

VMInit ==
    /\ Init
    /\ through = FALSE
    /\ vmOps = [i \in VMItems |-> "none"]
    /\ vmCancels = [i \in VMItems |-> NoVMCancel]
    /\ vmFaults = 0

VMSpend == vmFaults < MaxVMFaults /\ vmFaults' = vmFaults + 1

-------------------------------------------------------------------------------
(* The VM plugin.                                                              *)

\* Mutants: the namespace of the VM is not compared; the list ends with its
\* first page.
AnyNamespace(v) == {d \in downloads : d.label = "ours" /\ d.vm = v[2]}
FirstPage(v) ==
    LET all == {d \in downloads : d.label = "ours" /\ <<d.pvc[1], d.vm>> = v}
    IN {d \in all : \A e \in all : d.id <= e.id}

\* The labels carry the names of Backup and Restore, the annotations those of
\* the VM.  The owner is not compared.
getDataDownloadsForVM(v) ==
    {d \in downloads : d.label = "ours" /\ <<d.pvc[1], d.vm>> = v}

\* Execute holds the VM and returns its operation ID.
VMExecute(v) ==
    /\ alive /\ ~through /\ vmOps[<<epoch, v>>] = "none"
    /\ vmOps' = [vmOps EXCEPT ![<<epoch, v>>] = "InProgress"]
    /\ UNCHANGED <<vars, through, vmCancels, vmFaults>>

\* Velero is through the items: no call is left that it listens to.
ItemsDone ==
    /\ alive /\ ~through
    /\ \A c \in Calls : calls[c].pc # "idle" /\ calls[c].uid = epoch
                            => calls[c].abandoned
    /\ through' = TRUE
    /\ UNCHANGED <<vars, vmOps, vmCancels, vmFaults>>

\* Then it turns to the operations.
VMPolled(v) == /\ alive /\ through /\ vmOps[<<epoch, v>>] = "InProgress"
               /\ vmCancels[<<epoch, v>>].pc = "idle"

Aggregate(found) ==
    IF \E d \in found : d.phase \in {"Failed", "Canceled"} THEN "Failed"
    ELSE IF \A d \in found : d.phase = "Completed" THEN "Completed"
    ELSE "InProgress"

VMProgress(v) ==
    LET found == getDataDownloadsForVM(v) IN
    /\ VMPolled(v)
    /\ \/ /\ found = {}
          /\ vmOps' = [vmOps EXCEPT ![<<epoch, v>>] = "Failed"]
          /\ UNCHANGED vmFaults
       \/ /\ found # {}
          /\ vmOps' = [vmOps EXCEPT ![<<epoch, v>>] = Aggregate(found)]
          /\ UNCHANGED vmFaults
       \/ /\ vmOps' = [vmOps EXCEPT ![<<epoch, v>>] = "Failed"]
          /\ VMSpend
    /\ UNCHANGED <<vars, through, vmCancels>>

VMTimeout(v) ==
    /\ VMPolled(v)
    /\ vmCancels' = [vmCancels EXCEPT ![<<epoch, v>>].pc = "list"]
    /\ UNCHANGED <<vars, through, vmOps, vmFaults>>

\* Cancel lists the DataDownloads ...
VMCancelLookup(i) ==
    LET found == {[id |-> d.id, name |-> d.name] :
                     d \in getDataDownloadsForVM(i[2])}
    IN /\ vmCancels[i].pc = "list"
       /\ \/ /\ found # {}
             /\ vmCancels' = [vmCancels EXCEPT ![i] =
                    [@ EXCEPT !.pc = "patch", !.todo = found, !.found = found]]
             /\ UNCHANGED <<vmOps, vmFaults>>
          \/ /\ vmCancels' = [vmCancels EXCEPT ![i].pc = "done"]
             /\ vmOps' = [vmOps EXCEPT ![i] = "Failed"]
             /\ \/ found = {} /\ UNCHANGED vmFaults
                \/ VMSpend
       /\ UNCHANGED <<vars, through>>

\* Mutant: the first one that cannot be asked ends the call.
EndsAtFirstError(i, dd, errs) ==
    IF vmCancels[i].todo = {dd} \/ errs # {}
    THEN /\ vmCancels' = [vmCancels EXCEPT ![i] =
                [@ EXCEPT !.pc = "done", !.todo = {},
                          !.errs = vmCancels[i].errs \cup errs]]
         /\ vmOps' = [vmOps EXCEPT ![i] = "Failed"]
    ELSE /\ vmCancels' = [vmCancels EXCEPT ![i] =
                [@ EXCEPT !.todo = vmCancels[i].todo \ {dd},
                          !.errs = vmCancels[i].errs \cup errs]]
         /\ UNCHANGED vmOps

\* ... and goes on to the next of them whatever became of this one.
AskNext(i, dd, errs) ==
    LET todo == vmCancels[i].todo \ {dd} IN
    /\ vmCancels' = [vmCancels EXCEPT ![i] =
           [@ EXCEPT !.pc = IF todo = {} THEN "done" ELSE "patch",
                     !.todo = todo, !.errs = vmCancels[i].errs \cup errs]]
    /\ vmOps' = [vmOps EXCEPT ![i] = IF todo = {} THEN "Failed" ELSE @]

\* Mutant: the object is written back as it was created.
WritesBack(d) ==
    /\ Replace(d, FullUpdate(d))
    /\ UNCHANGED <<epoch, alive, location, nextId, pvcs, cached, velero, budget>>

\* The merge patch, once it has arrived.
Patched(d) ==
    /\ Replace(d, PatchedCancel(d))
    /\ UNCHANGED <<epoch, alive, location, nextId, pvcs, cached, velero, budget>>

\* A request goes to the name: it finds nothing, sets the flag, sets it without
\* an answer, or fails for good.
patchVMDataDownload(i, dd) ==
    LET targets == Named(dd.name) IN
    /\ vmCancels[i].pc = "patch" /\ dd \in vmCancels[i].todo
    /\ \/ /\ targets = {} /\ AskNext(i, dd, {})
          /\ UNCHANGED <<vars, vmFaults>>
       \/ /\ \E d \in targets : Patched(d)
          /\ AskNext(i, dd, {}) /\ UNCHANGED vmFaults
       \/ /\ \E d \in targets : Patched(d)
          /\ VMSpend /\ UNCHANGED <<vmOps, vmCancels>>
       \/ /\ VMSpend /\ AskNext(i, dd, {dd})
          /\ UNCHANGED vars
    /\ UNCHANGED through

-------------------------------------------------------------------------------
(* Both together.                                                              *)

VMSteps ==
    \/ \E v \in VMs : VMExecute(v) \/ VMProgress(v) \/ VMTimeout(v)
    \/ ItemsDone
    \/ \E i \in VMItems : \/ VMCancelLookup(i)
                          \/ \E dd \in vmCancels[i].todo :
                                patchVMDataDownload(i, dd)

\* A restart of the process ends the Cancel calls of both plugins.
Interrupted == [i \in VMItems |-> IF vmCancels[i].pc \in {"list", "patch"}
                                  THEN NoVMCancel ELSE vmCancels[i]]

PVCSteps ==
    /\ \/ ~through /\ ItemSteps
       \/ CallSteps
       \/ OperationSteps
       \/ ClusterSteps
    /\ through' = (through /\ epoch' = epoch)
    /\ vmCancels' = IF crashes' = crashes THEN vmCancels ELSE Interrupted
    /\ UNCHANGED <<vmOps, vmFaults>>

VMNext == VMSteps \/ PVCSteps

VMSpec == VMInit /\ [][VMNext]_allVars

-------------------------------------------------------------------------------
(* Properties.                                                                 *)

VMTypeOK ==
    /\ TypeOK
    /\ through \in BOOLEAN
    /\ vmOps \in [VMItems -> {"none", "InProgress", "Completed", "Failed"}]
    /\ vmCancels \in [VMItems -> VMCancelStates]
    /\ vmFaults \in Nat

\* The data of Restore u's own DataDownload is in the PVC that p is restored to.
HasOwnData(u, p) == \E o \in Stored(target(p)) : o.volume = {<<u, p>>}

\* What the user is told of the VM is true of each of its disks: when its
\* operation succeeds ("All DataDownloads for this VM completed"), every PVC of
\* the VM that this Restore has an operation for holds its own data, also with
\* a namesake of the VM, leftovers of an earlier Restore, and two PVCs that are
\* restored to one place; as long as no third party deletes DataDownloads.
VMSuccessMeansOwnData ==
    \A i \in VMItems : meddled = 0 /\ vmOps[i] = "Completed" =>
        \A p \in DisksOf(i[2]) :
            ops[<<i[1], p>>].status # "none" => HasOwnData(i[1], p)

\* A success is not an empty one (getDataDownloadsForVM "lists the
\* DataDownloads belonging to this restore"): some disk of the VM came back.
\* This is so for the first Restore of a name; the lookup, which goes by names,
\* also lists what a first one has left to a later one.
FirstSuccessRestoredADisk ==
    \A i \in VMItems :
        meddled = 0 /\ i[1] = 1 /\ vmOps[i] = "Completed" =>
            \E p \in DisksOf(i[2]) : HasOwnData(1, p)

\* Cancel reaches each DataDownload it has found: what it is past and has not
\* given up on has its flag set, or is gone, even if an object of the same name
\* has come in its place (Cancel: "propagating Spec.Cancel to every sibling
\* DataDownload for this VM").
VMCancelReachesFound ==
    \A i \in VMItems : \A d \in downloads :
        [id |-> d.id, name |-> d.name] \in
              vmCancels[i].found \ (vmCancels[i].todo \cup vmCancels[i].errs)
            => d.cancel

\* It asks the DataDownloads of no other VM's disks, not even of a namesake's.
VMCancelIsAimed ==
    [][\A i \in VMItems : \A dd \in vmCancels[i].todo :
          patchVMDataDownload(i, dd) =>
              \A d \in downloads \ downloads' : d.pvc \in DisksOf(i[2])]_allVars

\* Whatever the VM plugin does, the PVC plugin and its surroundings behave as
\* PVCRestore has them: all that holds there holds with the VM plugin at work.
KeepsToPVCRestore == Spec

===============================================================================
