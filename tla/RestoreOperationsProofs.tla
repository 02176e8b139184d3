------------------------ MODULE RestoreOperationsProofs ------------------------
(* Proofs about RestoreOperations, for every value of its constants: the VM    *)
(* plugin leaves the PVC plugin's promises alone, its success is that of the   *)
(* VM's own disks, and its Cancel reaches what it found and nothing else.      *)
EXTENDS RestoreOperations, PVCRestoreProofs

-------------------------------------------------------------------------------
(* To the PVC plugin the other one is the step VMCancels.                      *)

LEMMA VMStepIsStep ==
    ASSUME [VMNext]_allVars
    PROVE  [Next]_vars
<1>1. CASE UNCHANGED allVars
  BY <1>1 DEF allVars
<1>2. CASE PVCSteps
  BY <1>2 DEF PVCSteps, Next, ExecuteSteps, EnvironmentSteps
<1>3. CASE UNCHANGED vars
  BY <1>3
<1>4. ASSUME NEW d \in downloads, Patched(d)
      PROVE  Next
  BY <1>4 DEF Patched, VMCancels, Next, EnvironmentSteps
<1>5. CASE \E i \in VMItems : \E dd \in vmCancels[i].todo :
              patchVMDataDownload(i, dd)
  BY <1>3, <1>4, <1>5 DEF patchVMDataDownload, Named
<1>6. CASE VMSteps
  BY <1>3, <1>5, <1>6
  DEF VMSteps, VMExecute, VMProgress, VMTimeout, ItemsDone, VMCancelLookup
<1> QED
  BY <1>1, <1>2, <1>6 DEF VMNext

\* With the VM plugin at work, which cancels and retries as it likes, the PVC
\* plugin and its surroundings behave as PVCRestore has them.
THEOREM PVCRestoreIsKept == VMSpec => KeepsToPVCRestore
<1>1. [VMNext]_allVars => [Next]_vars
  BY VMStepIsStep
<1>2. VMInit => Init
  BY DEF VMInit
<1> QED
  BY <1>1, <1>2, PTL DEF VMSpec, KeepsToPVCRestore, Spec

-------------------------------------------------------------------------------
(* Where a DataDownload comes from: a flag that is set stays set.              *)

\* What both plugins rely on when they read a DataDownload.
Shaped(d) ==
    /\ d.name = generateDataDownloadName(d.pvc) /\ d.target = target(d.pvc)
    /\ d.vm \in {VMOf[d.pvc], "other"}

Descent ==
    \A e \in downloads' :
        \/ e.id = nextId /\ Shaped(e) /\ e.owner <= epoch
        \/ \E d \in downloads : SameObject(d, e) /\ (d.cancel => e.cancel)

LEMMA NewIsShaped ==
    ASSUME NEW id, NEW uid, NEW p, NEW l
    PROVE  /\ Shaped(NewDownload(id, uid, p, l))
           /\ NewDownload(id, uid, p, l).id = id
           /\ NewDownload(id, uid, p, l).owner = uid
  BY DEF Shaped, NewDownload

LEMMA ReplacedDescent ==
    ASSUME NEW d \in downloads, NEW e, Replace(d, e), SameObject(d, e),
           d.cancel => e.cancel
    PROVE  Descent
<1>1. \A f \in downloads : SameObject(f, f)
  BY DEF SameObject
<1> QED
  BY <1>1 DEF Replace, Descent

LEMMA ForeignDescent ==
    ASSUME IInv, NEW p \in PVCs, NEW l \in Locations, ForeignCreate(p, l)
    PROVE  Descent
<1> DEFINE base == NewDownload(nextId, epoch, p, l)
<1>1. PICK e \in ForeignDownloads(p, l) : downloads' = downloads \cup {e}
  BY DEF ForeignCreate
<1>2. nextId \in Nat /\ epoch \in UIDs /\ epoch \in Nat
  BY DEF IInv, TypeOK, UIDs
<1>3. base \in Downloads /\ Shaped(base) /\ base.id = nextId /\ base.owner = epoch
  BY <1>2, NewDownloadType, NewIsShaped
<1>4. \/ \E s \in {"older", "none"} :
            e = [base EXCEPT !.opID.scheme = s, !.opLabel = s]
      \/ e = [base EXCEPT !.owner = 0]
      \/ e = [base EXCEPT !.vm = "other"]
      \/ e = [base EXCEPT !.mover = "other"]
      \/ e = [base EXCEPT !.label = "other"]
      \/ e = [base EXCEPT !.opLabel = "older"]
  BY <1>1 DEF ForeignDownloads
<1>5. /\ e.id = base.id /\ e.name = base.name /\ e.pvc = base.pvc
      /\ e.target = base.target /\ e.vm \in {base.vm, "other"}
      /\ e.owner \in {base.owner, 0}
  <2> HIDE DEF base
  <2> QED
    BY <1>3, <1>4 DEF Downloads
<1>6. Shaped(e) /\ e.id = nextId /\ e.owner <= epoch
  <2> HIDE DEF base
  <2> QED
    BY <1>2, <1>3, <1>5 DEF Shaped
<1>7. \A f \in downloads : SameObject(f, f)
  BY DEF SameObject
<1> QED
  BY <1>1, <1>6, <1>7 DEF Descent

LEMMA NextDescent ==
    ASSUME IInv, EpochInv, [Next]_vars
    PROVE  Descent
<1>0. \A d \in downloads : d \in Downloads
  BY DEF IInv, TypeOK
<1>1. CASE downloads' \subseteq downloads
  BY <1>1 DEF Descent, SameObject
<1>2. ASSUME NEW c \in Calls, createDataDownloadResource(c)
      PROVE  Descent
  <2> DEFINE e == NewDownload(nextId, calls[c].uid, calls[c].pvc, calls[c].location)
  <2>1. Shaped(e) /\ e.id = nextId /\ e.owner <= epoch
    BY <1>2, NewIsShaped DEF EpochInv, createDataDownloadResource
  <2>2. downloads' = downloads \/ downloads' = downloads \cup {e}
    BY <1>2 DEF createDataDownloadResource
  <2> HIDE DEF e
  <2> QED
    BY <2>1, <2>2 DEF Descent, SameObject
<1>3. ASSUME NEW d \in downloads, Replace(d, PatchedCancel(d))
      PROVE  Descent
  <2>1. SameObject(d, PatchedCancel(d)) /\ PatchedCancel(d).cancel
    BY <1>0 DEF PatchedCancel, SameObject, Downloads
  <2> QED
    BY <1>3, <2>1, ReplacedDescent
<1>4. ASSUME NEW d \in downloads, ControllerSteps(d)
      PROVE  Descent
  <2>1. PICK ph, m : \E e : /\ \/ e = [d EXCEPT !.phase = ph]
                               \/ e = [d EXCEPT !.phase = ph, !.message = m]
                            /\ Replace(d, e)
    BY <1>4 DEF ControllerSteps, ControllerWorks, ControllerBinds,
                ControllerCancels
  <2>2. PICK e : /\ \/ e = [d EXCEPT !.phase = ph]
                    \/ e = [d EXCEPT !.phase = ph, !.message = m]
                 /\ Replace(d, e)
    BY <2>1
  <2>3. SameObject(d, e) /\ e.cancel = d.cancel
    BY <1>0, <2>2 DEF SameObject, Downloads
  <2> QED
    BY <2>2, <2>3, ReplacedDescent
<1>5. CASE ExecuteSteps
  BY <1>1, <1>2, <1>5
  DEF ExecuteSteps, ItemSteps, CallSteps, ExecuteOther, Execute, getBackup,
      getDataDownloadByName, Return, objects
<1>6. CASE OperationSteps
  BY <1>1, <1>3, <1>6, PatchDownloads
  DEF OperationSteps, CancelSteps, Progress, Timeout, CancelLookup, objects
<1>7. CASE EnvironmentSteps
  BY <1>1, <1>3, <1>4, <1>7, ForeignDescent
  DEF EnvironmentSteps, ClusterSteps, VMCancels, Abandon, Crash, DeleteRestore,
      RecreateRestore, BackupChanges, GarbageCollect, ForeignDelete,
      Provision, objects
<1>8. CASE UNCHANGED vars
  BY <1>1, <1>8 DEF vars, objects
<1> QED
  BY <1>5, <1>6, <1>7, <1>8 DEF Next

ShapedInv == \A d \in downloads : Shaped(d) /\ d.owner <= epoch

LEMMA ShapedStep ==
    ASSUME IInv, EpochInv, ShapedInv, [Next]_vars
    PROVE  ShapedInv'
<1>1. Descent
  BY NextDescent
<1>2. epoch \in Nat /\ epoch' \in Nat /\ epoch <= epoch'
  <2>1. epoch \in Nat /\ (epoch' = epoch \/ epoch' = epoch + 1)
    BY EpochStep
  <2> QED
    BY <2>1
<1>3. \A d \in downloads : d.owner \in Nat
  BY DEF IInv, TypeOK, Downloads, UIDs
<1>4. \A d \in downloads' : d \in Downloads'
  BY TypeStep DEF IInv, TypeOK
<1>5. \A d \in downloads' : d.owner \in Nat
  BY <1>4 DEF Downloads, UIDs
<1> SUFFICES ASSUME NEW e \in downloads'
             PROVE  Shaped(e) /\ e.owner <= epoch'
  BY DEF ShapedInv, Shaped, target, targetNamespace, generateDataDownloadName
<1>6. CASE Shaped(e) /\ e.owner <= epoch
  BY <1>2, <1>5, <1>6
<1>7. CASE \E d \in downloads : SameObject(d, e)
  BY <1>2, <1>3, <1>7 DEF ShapedInv, SameObject, Shaped
<1> QED
  BY <1>1, <1>6, <1>7 DEF Descent

-------------------------------------------------------------------------------
(* The types.                                                                  *)

LEMMA VMsType == \A v \in VMs : v[2] \in VMNames /\ v[2] # "other"
  BY VMsAssumption DEF VMs, VMNames

LEMMA NoVMCancelType == NoVMCancel \in VMCancelStates
  BY DEF NoVMCancel, VMCancelStates

LEMMA CopyType ==
    ASSUME TypeOK, NEW d \in downloads
    PROVE  [id |-> d.id, name |-> d.name] \in Copies
  BY DEF TypeOK, Downloads, Copies

\* A Cancel call goes on to its next DataDownload, or comes to its end.
LEMMA AskNextType ==
    ASSUME VMTypeOK, NEW i \in VMItems, NEW dd \in vmCancels[i].todo,
           NEW errs \in SUBSET Copies, AskNext(i, dd, errs)
    PROVE  /\ vmCancels' \in [VMItems -> VMCancelStates]
           /\ vmOps' \in [VMItems -> {"none", "InProgress", "Completed", "Failed"}]
<1> DEFINE todo == vmCancels[i].todo \ {dd}
           new == [vmCancels[i] EXCEPT
                      !.pc = IF todo = {} THEN "done" ELSE "patch",
                      !.todo = todo, !.errs = vmCancels[i].errs \cup errs]
<1>1. vmCancels[i] \in VMCancelStates
  BY DEF VMTypeOK
<1>2. new \in VMCancelStates
  BY <1>1 DEF VMCancelStates
<1>3. vmCancels' = [vmCancels EXCEPT ![i] = new]
  BY DEF AskNext
<1> HIDE DEF new
<1>4. vmCancels' \in [VMItems -> VMCancelStates]
  BY <1>2, <1>3 DEF VMTypeOK
<1> QED
  BY <1>4 DEF AskNext, VMTypeOK

LEMMA VMTypeStep ==
    ASSUME VMTypeOK, TypeOK', [VMNext]_allVars
    PROVE  VMTypeOK'
<1> USE DEF VMTypeOK
<1>1. CASE UNCHANGED allVars
  BY <1>1 DEF allVars, vmVars
<1>2. ASSUME NEW v \in VMs, VMExecute(v)
      PROVE  VMTypeOK'
  BY <1>2 DEF VMExecute
<1>3. CASE ItemsDone
  BY <1>3 DEF ItemsDone
<1>4. ASSUME NEW v \in VMs, VMProgress(v)
      PROVE  VMTypeOK'
  <2>1. \A f : Aggregate(f) \in {"InProgress", "Completed", "Failed"}
    BY DEF Aggregate
  <2> QED
    BY <1>4, <2>1 DEF VMProgress, VMSpend
<1>5. ASSUME NEW v \in VMs, VMTimeout(v)
      PROVE  VMTypeOK'
  BY <1>5 DEF VMTimeout, VMCancelStates
<1>6. ASSUME NEW i \in VMItems, VMCancelLookup(i)
      PROVE  VMTypeOK'
  <2> DEFINE found == {[id |-> d.id, name |-> d.name] :
                          d \in getDataDownloadsForVM(i[2])}
  <2>1. found \in SUBSET Copies
    BY CopyType DEF getDataDownloadsForVM
  <2>2. vmCancels[i] \in VMCancelStates
    OBVIOUS
  <2>3. /\ [vmCancels[i] EXCEPT !.pc = "patch", !.todo = found, !.found = found]
                \in VMCancelStates
        /\ [vmCancels[i] EXCEPT !.pc = "done"] \in VMCancelStates
    BY <2>1, <2>2 DEF VMCancelStates
  <2>4. vmCancels' \in [VMItems -> VMCancelStates]
    BY <1>6, <2>3 DEF VMCancelLookup
  <2>5. vmOps' \in [VMItems -> {"none", "InProgress", "Completed", "Failed"}]
    BY <1>6 DEF VMCancelLookup
  <2> QED
    BY <1>6, <2>4, <2>5 DEF VMCancelLookup, VMSpend
<1>7. ASSUME NEW i \in VMItems, NEW dd \in vmCancels[i].todo,
             patchVMDataDownload(i, dd)
      PROVE  VMTypeOK'
  <2>1. {} \in SUBSET Copies /\ {dd} \in SUBSET Copies
    BY DEF VMCancelStates
  <2>2. AskNext(i, dd, {}) \/ AskNext(i, dd, {dd}) \/ UNCHANGED <<vmOps, vmCancels>>
    BY <1>7 DEF patchVMDataDownload
  <2>3. /\ vmCancels' \in [VMItems -> VMCancelStates]
        /\ vmOps' \in [VMItems -> {"none", "InProgress", "Completed", "Failed"}]
    BY <2>1, <2>2, AskNextType
  <2> QED
    BY <1>7, <2>3 DEF patchVMDataDownload, VMSpend
<1>8. CASE PVCSteps
  <2>1. Interrupted \in [VMItems -> VMCancelStates]
    BY NoVMCancelType DEF Interrupted
  <2> QED
    BY <1>8, <2>1 DEF PVCSteps
<1> QED
  BY <1>1, <1>2, <1>3, <1>4, <1>5, <1>6, <1>7, <1>8 DEF VMNext, VMSteps

LEMMA VMInitType == VMInit => VMTypeOK
<1> SUFFICES ASSUME VMInit PROVE VMTypeOK
  OBVIOUS
<1>1. TypeOK
  BY InitIInv DEF VMInit, IInv
<1>2. vmCancels \in [VMItems -> VMCancelStates]
  BY NoVMCancelType DEF VMInit
<1> QED
  BY <1>1, <1>2 DEF VMInit, VMTypeOK

\* The types of the composition.
THEOREM VMTypeCorrect == VMSpec => []VMTypeOK
<1>1. VMSpec => []TypeOK
  BY PVCRestoreIsKept, TypeCorrect DEF KeepsToPVCRestore
<1>2. VMTypeOK /\ TypeOK' /\ [VMNext]_allVars => VMTypeOK'
  BY VMTypeStep
<1> QED
  BY <1>1, <1>2, VMInitType, PTL DEF VMSpec

-------------------------------------------------------------------------------
(* Once Velero is through the items, no operation is registered any more.      *)

ThroughInv ==
    through => \A c \in Calls : calls[c].pc # "idle" /\ calls[c].uid = epoch
                                    => calls[c].abandoned

\* Only Execute starts a call; a call nobody listens to stays one.
LEMMA CallsStay ==
    ASSUME IInv, CallSteps \/ OperationSteps \/ ClusterSteps \/ UNCHANGED calls
    PROVE  \A c \in Calls : calls'[c].pc # "idle" =>
               /\ calls[c].pc # "idle" /\ calls'[c].uid = calls[c].uid
               /\ calls[c].abandoned => calls'[c].abandoned
<1> DEFINE Stays(c) == calls'[c].pc # "idle" =>
               /\ calls[c].pc # "idle" /\ calls'[c].uid = calls[c].uid
               /\ calls[c].abandoned => calls'[c].abandoned
<1>0. calls \in [Calls -> CallStates] /\ NoCall.pc = "idle"
  BY DEF IInv, TypeOK, NoCall
<1>1. CASE UNCHANGED calls
  BY <1>1
<1>2. ASSUME NEW c \in Calls, FailCall(c)
      PROVE  \A e \in Calls : Stays(e)
  BY <1>0, <1>2 DEF FailCall
<1>3. CASE CallSteps
  <2>1. ASSUME NEW c \in Calls,
               \/ getBackup(c) \/ createDataDownloadResource(c)
               \/ getDataDownloadByName(c)
        PROVE  \A e \in Calls : Stays(e)
    BY <1>2, <2>1, CallGoesOn
  <2>2. ASSUME NEW c \in Calls, Return(c)
        PROVE  \A e \in Calls : Stays(e)
    BY <1>2, <2>2 DEF Return, FailCall
  <2> QED
    BY <1>3, <2>1, <2>2 DEF CallSteps
<1>4. CASE OperationSteps
  BY <1>1, <1>4 DEF OperationSteps, CancelSteps, Progress, Timeout,
                    CancelLookup, patchDataDownloadCancel
<1>5. CASE ClusterSteps
  <2>1. ASSUME NEW c \in Calls, Abandon(c)
        PROVE  \A e \in Calls : Stays(e)
    BY <1>0, <2>1 DEF Abandon, CallStates
  <2>2. CASE Crash
    BY <1>0, <2>2 DEF Crash
  <2> QED
    BY <1>1, <1>5, <2>1, <2>2
    DEF ClusterSteps, DeleteRestore, RecreateRestore, BackupChanges,
        ForeignCreate, GarbageCollect, ForeignDelete, ControllerSteps,
        ControllerWorks, ControllerBinds, ControllerCancels, Provision, velero
<1> QED
  BY <1>1, <1>3, <1>4, <1>5

\* An operation is registered by a call that Velero listens to.
LEMMA NewOperation ==
    ASSUME IInv, [Next]_vars, NEW i \in Items, ops[i].status = "none",
           ops'[i].status # "none"
    PROVE  i[1] = epoch /\ \E c \in Calls : /\ calls[c].pc # "idle"
                                            /\ calls[c].uid = epoch
                                            /\ ~calls[c].abandoned
<1>0. ops \in [Items -> OperationStates]
  BY DEF IInv, TypeOK
<1>1. ops' # ops
  OBVIOUS
<1>2. ASSUME NEW j \in Items, NEW st, ops[j].status # "none",
             ops' = [ops EXCEPT ![j].status = st]
      PROVE  FALSE
  BY <1>0, <1>2
<1>3. ASSUME NEW c \in Calls, Return(c)
      PROVE  i[1] = epoch /\ \E e \in Calls : /\ calls[e].pc # "idle"
                                              /\ calls[e].uid = epoch
                                              /\ ~calls[e].abandoned
  <2>1. /\ calls[c].pc = "return" /\ calls[c].uid = epoch /\ ~calls[c].abandoned
        /\ i = <<calls[c].uid, calls[c].pvc>>
    BY <1>0, <1>1, <1>3 DEF Return
  <2> QED
    BY <2>1
<1>4. CASE ExecuteSteps
  BY <1>1, <1>3, <1>4
  DEF ExecuteSteps, ItemSteps, CallSteps, ExecuteOther, Execute, getBackup,
      createDataDownloadResource, getDataDownloadByName, velero
<1>5. CASE OperationSteps
  <2>1. ASSUME NEW j \in Items, Progress(j)
        PROVE  FALSE
    BY <1>2, <2>1 DEF Progress, Polled
  <2>2. ASSUME NEW j \in Items, CancelSteps(j)
        PROVE  FALSE
    <3>1. ops[j].status = "InProgress"
      BY <2>2 DEF CancelSteps, CancelLookup, patchDataDownloadCancel, IInv,
                  CancelsInv, CancelInv
    <3> QED
      BY <1>1, <1>2, <2>2, <3>1
      DEF CancelSteps, CancelLookup, patchDataDownloadCancel, AttemptFails,
          CancelReturns
  <2> QED
    BY <1>1, <1>5, <2>1, <2>2 DEF OperationSteps, Timeout
<1>6. CASE EnvironmentSteps
  BY <1>1, <1>6
  DEF EnvironmentSteps, ClusterSteps, VMCancels, Abandon, Crash,
      DeleteRestore, RecreateRestore, BackupChanges, ForeignCreate,
      GarbageCollect, ForeignDelete, ControllerSteps, ControllerWorks,
      ControllerBinds, ControllerCancels, Provision, velero
<1>7. CASE UNCHANGED vars
  BY <1>1, <1>7 DEF vars, velero
<1> QED
  BY <1>4, <1>5, <1>6, <1>7 DEF Next

\* Velero is through the items until the Restore is recreated.
LEMMA ThroughStep ==
    ASSUME [VMNext]_allVars
    PROVE  \/ through' = through /\ UNCHANGED vars
           \/ through' = through /\ \E d \in downloads : Patched(d)
           \/ ItemsDone
           \/ /\ PVCSteps /\ ~through'
              /\ through => epoch' # epoch
           \/ /\ PVCSteps /\ through /\ through' /\ epoch' = epoch
              /\ CallSteps \/ OperationSteps \/ ClusterSteps
  BY DEF VMNext, VMSteps, allVars, vmVars, PVCSteps, VMExecute, VMProgress,
         VMTimeout, VMCancelLookup, patchVMDataDownload, Named

LEMMA ThroughInvStep ==
    ASSUME IInv, ThroughInv, [VMNext]_allVars
    PROVE  ThroughInv'
<1>1. CASE UNCHANGED <<through, calls, epoch>>
  BY <1>1 DEF ThroughInv
<1>2. CASE ItemsDone
  BY <1>2 DEF ItemsDone, ThroughInv, vars, velero, objects
<1>3. CASE /\ PVCSteps /\ through /\ through' /\ epoch' = epoch
           /\ CallSteps \/ OperationSteps \/ ClusterSteps
  BY <1>3, CallsStay DEF ThroughInv
<1>4. CASE ~through'
  BY <1>4 DEF ThroughInv
<1> QED
  BY <1>1, <1>2, <1>3, <1>4, ThroughStep
  DEF vars, velero, objects, Patched

-------------------------------------------------------------------------------
(* A success of the VM's operation.                                            *)

\* It is recorded after the items of its Restore.
SettledInv ==
    \A i \in VMItems : vmOps[i] = "Completed" =>
        i[1] <= epoch /\ (i[1] = epoch => through)

\* It is reported by a Progress that finds some, and all of them completed.
LEMMA VMSuccessStep ==
    ASSUME VMTypeOK, [VMNext]_allVars, NEW i \in VMItems, vmOps'[i] = "Completed"
    PROVE  \/ vmOps[i] = "Completed"
           \/ /\ alive /\ through /\ i[1] = epoch /\ UNCHANGED <<vars, through>>
              /\ getDataDownloadsForVM(i[2]) # {}
              /\ \A d \in getDataDownloadsForVM(i[2]) : d.phase = "Completed"
<1> USE DEF VMTypeOK
<1>1. CASE UNCHANGED vmOps
  BY <1>1
<1>2. ASSUME NEW j \in VMItems, NEW st, st # "Completed",
             vmOps' = [vmOps EXCEPT ![j] = st]
      PROVE  vmOps[i] = "Completed"
  BY <1>2
<1>3. ASSUME NEW v \in VMs, VMExecute(v)
      PROVE  vmOps[i] = "Completed"
  BY <1>3 DEF VMExecute
<1>4. ASSUME NEW v \in VMs, VMProgress(v), vmOps[i] # "Completed"
      PROVE  /\ alive /\ through /\ i[1] = epoch /\ UNCHANGED <<vars, through>>
             /\ getDataDownloadsForVM(i[2]) # {}
             /\ \A d \in getDataDownloadsForVM(i[2]) : d.phase = "Completed"
  <2>1. i = <<epoch, v>> /\ i[1] = epoch /\ i[2] = v
    BY <1>4 DEF VMProgress
  <2>2. /\ getDataDownloadsForVM(v) # {}
        /\ Aggregate(getDataDownloadsForVM(v)) = "Completed"
    BY <1>4, <2>1 DEF VMProgress
  <2> QED
    BY <1>4, <2>1, <2>2 DEF VMProgress, VMPolled, Aggregate
<1>5. ASSUME NEW j \in VMItems, VMCancelLookup(j)
      PROVE  vmOps[i] = "Completed"
  BY <1>5 DEF VMCancelLookup
<1>6. ASSUME NEW j \in VMItems, NEW dd \in vmCancels[j].todo,
             patchVMDataDownload(j, dd)
      PROVE  vmOps[i] = "Completed"
  BY <1>6 DEF patchVMDataDownload, AskNext
<1> QED
  BY <1>1, <1>3, <1>4, <1>5, <1>6
  DEF VMNext, VMSteps, PVCSteps, VMTimeout, ItemsDone, allVars, vmVars

LEMMA SettledStep ==
    ASSUME IInv, VMTypeOK, SettledInv, [VMNext]_allVars
    PROVE  SettledInv'
<1> SUFFICES ASSUME NEW i \in VMItems, vmOps'[i] = "Completed"
             PROVE  i[1] <= epoch' /\ (i[1] = epoch' => through')
  BY DEF SettledInv
<1>1. epoch \in Nat /\ epoch' \in Nat /\ (epoch' = epoch \/ epoch' = epoch + 1)
  BY VMStepIsStep, EpochStep
<1>2. i[1] \in Nat
  BY DEF VMItems, UIDs
<1>3. CASE vmOps[i] = "Completed"
  <2>1. i[1] <= epoch /\ (i[1] = epoch => through)
    BY <1>3 DEF SettledInv
  <2>2. through => through' \/ epoch' # epoch
    BY ThroughStep DEF ItemsDone
  <2> QED
    BY <1>1, <1>2, <2>1, <2>2
<1>4. CASE i[1] = epoch /\ through /\ UNCHANGED <<vars, through>>
  BY <1>1, <1>4 DEF vars, objects
<1> QED
  BY <1>3, <1>4, VMSuccessStep

\* A volume stays where it is.
LEMMA OwnDataStays ==
    ASSUME IInv, [Next]_vars, NEW u, NEW p, HasOwnData(u, p)
    PROVE  HasOwnData(u, p)'
<1>1. PICK o \in Stored(target(p)) : o.volume = {<<u, p>>}
  BY DEF HasOwnData
<1>2. PVCsStay /\ o.volume # {}
  BY <1>1, NextPVCs, PVCsKept
<1>3. PICK n \in Stored(target(p))' : n.volume = o.volume
  BY <1>2, StoredStays
<1> QED
  BY <1>1, <1>3 DEF HasOwnData, target, targetNamespace

\* The DataDownloads found for a VM are those of its disks.
LEMMA FoundIsOwn ==
    ASSUME ShapedInv, NEW v \in VMs, NEW d \in getDataDownloadsForVM(v),
           d \in Downloads
    PROVE  d.pvc \in DisksOf(v)
<1>1. Shaped(d) /\ d.label = "ours" /\ <<d.pvc[1], d.vm>> = v
  BY DEF ShapedInv, getDataDownloadsForVM
<1>2. d.vm = VMOf[d.pvc]
  BY <1>1, VMsType DEF Shaped
<1> QED
  BY <1>1, <1>2 DEF DisksOf, Downloads

LEMMA VMOwnDataStep ==
    ASSUME IInv, DataInv, PresentInv, VMTypeOK, ThroughInv, SettledInv,
           VMSuccessMeansOwnData, [VMNext]_allVars
    PROVE  VMSuccessMeansOwnData'
<1> SUFFICES ASSUME NEW i \in VMItems, meddled' = 0, vmOps'[i] = "Completed",
                    NEW p \in DisksOf(i[2]),
                    ops'[<<i[1], p>>].status # "none"
             PROVE  HasOwnData(i[1], p)'
  BY DEF VMSuccessMeansOwnData, DisksOf
<1>0. /\ [Next]_vars /\ meddled = 0 /\ p \in PVCs /\ i[1] \in UIDs
      /\ <<i[1], p>> \in Items
  <2>1. [Next]_vars
    BY VMStepIsStep
  <2> QED
    BY <2>1, MeddledStep DEF DisksOf, VMItems, Items
<1>1. CASE vmOps[i] = "Completed"
  <2>1. ops[<<i[1], p>>].status # "none"
    <3>1. SUFFICES ASSUME ops[<<i[1], p>>].status = "none" PROVE FALSE
      OBVIOUS
    <3>2. i[1] = epoch /\ \E c \in Calls : /\ calls[c].pc # "idle"
                                           /\ calls[c].uid = epoch
                                           /\ ~calls[c].abandoned
      BY <1>0, <3>1, NewOperation
    <3> QED
      BY <1>1, <3>2 DEF SettledInv, ThroughInv
  <2>2. HasOwnData(i[1], p)
    BY <1>0, <1>1, <2>1 DEF VMSuccessMeansOwnData
  <2> QED
    BY <1>0, <2>2, OwnDataStays
<1>2. CASE /\ alive /\ through /\ i[1] = epoch /\ UNCHANGED <<vars, through>>
           /\ \A d \in getDataDownloadsForVM(i[2]) : d.phase = "Completed"
  <2>1. ops[<<i[1], p>>].status # "none"
    BY <1>2 DEF vars, velero
  <2>2. PICK d \in downloads : d.id = ops[<<i[1], p>>].id
    BY <1>0, <1>2, <2>1 DEF PresentInv, Exists
  <2>3. Trackable(d, i[1], p, ops[<<i[1], p>>].opID)
    BY <1>0, <2>1, <2>2 DEF IInv, OpsInv, OpInv, Bound
  <2>4. d \in getDataDownloadsForVM(i[2])
    BY <2>2, <2>3 DEF Trackable, DisksOf, getDataDownloadsForVM
  <2>5. PICK o \in Stored(d.target) : o.volume = {<<d.owner, d.pvc>>}
    BY <1>2, <2>2, <2>4 DEF DataInv, FilledInv
  <2>6. HasOwnData(i[1], p)
    BY <2>3, <2>5 DEF Trackable, HasOwnData
  <2> QED
    BY <1>0, <2>6, OwnDataStays
<1> QED
  BY <1>1, <1>2, VMSuccessStep

LEMMA FirstRestoreStep ==
    ASSUME IInv, DataInv, ShapedInv, VMTypeOK, FirstSuccessRestoredADisk,
           [VMNext]_allVars
    PROVE  FirstSuccessRestoredADisk'
<1> SUFFICES ASSUME NEW i \in VMItems, meddled' = 0, i[1] = 1,
                    vmOps'[i] = "Completed"
             PROVE  \E p \in DisksOf(i[2]) : HasOwnData(1, p)'
  BY DEF FirstSuccessRestoredADisk, DisksOf
<1>0. [Next]_vars /\ meddled = 0
  BY VMStepIsStep, MeddledStep
<1>1. CASE vmOps[i] = "Completed"
  <2>1. PICK p \in DisksOf(i[2]) : HasOwnData(1, p)
    BY <1>0, <1>1 DEF FirstSuccessRestoredADisk
  <2> QED
    BY <1>0, <2>1, OwnDataStays
<1>2. CASE /\ i[1] = epoch /\ getDataDownloadsForVM(i[2]) # {}
           /\ \A d \in getDataDownloadsForVM(i[2]) : d.phase = "Completed"
  <2>1. PICK d \in getDataDownloadsForVM(i[2]) : d.phase = "Completed"
    BY <1>2
  <2>2. d \in downloads /\ d \in Downloads
    BY DEF getDataDownloadsForVM, IInv, TypeOK
  <2>3. d.pvc \in DisksOf(i[2])
    BY <2>2, FoundIsOwn DEF VMItems
  <2>4. d.owner = 1
    <3>1. d.owner # 0 /\ d.owner \in {0} \cup UIDs /\ d.owner <= 1
      BY <1>0, <1>2, <2>2 DEF DataInv, OwnersInv, ShapedInv, Downloads
    <3> QED
      BY <3>1 DEF UIDs
  <2>5. d.target = target(d.pvc)
    BY <2>2 DEF ShapedInv, Shaped
  <2>6. HasOwnData(1, d.pvc)
    BY <2>1, <2>2, <2>4, <2>5 DEF DataInv, FilledInv, HasOwnData
  <2> QED
    BY <1>0, <2>3, <2>6, OwnDataStays
<1> QED
  BY <1>1, <1>2, VMSuccessStep

-------------------------------------------------------------------------------
(* The VM plugin's Cancel.                                                     *)

\* It is past the copy of a DataDownload, without an error.
Past(i) == vmCancels[i].found \ (vmCancels[i].todo \cup vmCancels[i].errs)

\* An id that was found is never used again.
FoundInv == \A i \in VMItems : \A copy \in vmCancels[i].found : copy.id < nextId

AimedInv ==
    \A i \in VMItems : \A dd \in vmCancels[i].todo :
        dd.name.pvc \in DisksOf(i[2])

\* What a step makes of a Cancel call.
CancelGoesOn(i) ==
    \/ /\ vmCancels'[i].found = vmCancels[i].found
       /\ vmCancels'[i].todo = vmCancels[i].todo
       /\ vmCancels'[i].errs = vmCancels[i].errs
    \/ vmCancels'[i].found = {} /\ vmCancels'[i].todo = {}
    \/ /\ vmCancels'[i].found = vmCancels'[i].todo
       /\ vmCancels'[i].todo = {[id |-> d.id, name |-> d.name] :
                                   d \in getDataDownloadsForVM(i[2])}
       /\ UNCHANGED vars
    \/ \E dd \in vmCancels[i].todo :
          /\ vmCancels'[i].found = vmCancels[i].found
          /\ vmCancels'[i].todo = vmCancels[i].todo \ {dd}
          /\ \/ /\ Named(dd.name) = {} /\ UNCHANGED vars
                /\ vmCancels'[i].errs = vmCancels[i].errs
             \/ /\ \E d \in Named(dd.name) : Patched(d)
                /\ vmCancels'[i].errs = vmCancels[i].errs
             \/ /\ UNCHANGED vars
                /\ vmCancels'[i].errs = vmCancels[i].errs \cup {dd}

LEMMA AskNextGoesOn ==
    ASSUME VMTypeOK, NEW i \in VMItems, NEW dd \in vmCancels[i].todo, NEW errs,
           AskNext(i, dd, errs)
    PROVE  /\ vmCancels'[i].found = vmCancels[i].found
           /\ vmCancels'[i].todo = vmCancels[i].todo \ {dd}
           /\ vmCancels'[i].errs = vmCancels[i].errs \cup errs
           /\ \A j \in VMItems \ {i} : vmCancels'[j] = vmCancels[j]
<1>1. vmCancels \in [VMItems -> VMCancelStates]
  BY DEF VMTypeOK
<1>2. \E pc : vmCancels' = [vmCancels EXCEPT ![i] =
          [@ EXCEPT !.pc = pc, !.todo = vmCancels[i].todo \ {dd},
                    !.errs = vmCancels[i].errs \cup errs]]
  BY DEF AskNext
<1> QED
  BY <1>1, <1>2 DEF VMCancelStates

LEMMA CancelsGoOn ==
    ASSUME VMTypeOK, [VMNext]_allVars
    PROVE  \A i \in VMItems : CancelGoesOn(i)
<1>0. vmCancels \in [VMItems -> VMCancelStates]
  BY DEF VMTypeOK
<1>1. CASE UNCHANGED vmCancels
  BY <1>1 DEF CancelGoesOn
<1>2. ASSUME NEW v \in VMs, VMTimeout(v)
      PROVE  \A i \in VMItems : CancelGoesOn(i)
  BY <1>0, <1>2 DEF VMTimeout, CancelGoesOn, VMCancelStates
<1>3. ASSUME NEW j \in VMItems, VMCancelLookup(j)
      PROVE  \A i \in VMItems : CancelGoesOn(i)
  <2> DEFINE found == {[id |-> d.id, name |-> d.name] :
                          d \in getDataDownloadsForVM(j[2])}
  <2>1. /\ UNCHANGED vars
        /\ \/ vmCancels' = [vmCancels EXCEPT ![j] =
                  [@ EXCEPT !.pc = "patch", !.todo = found, !.found = found]]
           \/ vmCancels' = [vmCancels EXCEPT ![j].pc = "done"]
    BY <1>3 DEF VMCancelLookup
  <2>2. \A i \in VMItems \ {j} : vmCancels'[i] = vmCancels[i]
    BY <1>0, <2>1
  <2>3. \/ vmCancels'[j].found = found /\ vmCancels'[j].todo = found
        \/ /\ vmCancels'[j].found = vmCancels[j].found
           /\ vmCancels'[j].todo = vmCancels[j].todo
           /\ vmCancels'[j].errs = vmCancels[j].errs
    <3> HIDE DEF found
    <3>1. ASSUME NEW new, vmCancels' = [vmCancels EXCEPT ![j] = new]
          PROVE  vmCancels'[j] = new
      BY <1>0, <3>1
    <3>2. vmCancels[j] \in VMCancelStates
      BY <1>0
    <3> QED
      BY <2>1, <3>1, <3>2 DEF VMCancelStates
  <2> QED
    BY <2>1, <2>2, <2>3 DEF CancelGoesOn
<1>4. ASSUME NEW j \in VMItems, NEW dd \in vmCancels[j].todo,
             patchVMDataDownload(j, dd)
      PROVE  \A i \in VMItems : CancelGoesOn(i)
  <2>1. CASE UNCHANGED vmCancels
    BY <1>1, <2>1
  <2>2. ASSUME NEW errs, AskNext(j, dd, errs),
               \/ errs = {} /\ Named(dd.name) = {} /\ UNCHANGED vars
               \/ errs = {} /\ \E d \in Named(dd.name) : Patched(d)
               \/ errs = {dd} /\ UNCHANGED vars
        PROVE  \A i \in VMItems : CancelGoesOn(i)
    <3>1. /\ vmCancels'[j].found = vmCancels[j].found
          /\ vmCancels'[j].todo = vmCancels[j].todo \ {dd}
          /\ vmCancels'[j].errs = vmCancels[j].errs \cup errs
          /\ \A i \in VMItems \ {j} : vmCancels'[i] = vmCancels[i]
      BY <2>2, AskNextGoesOn
    <3>2. CancelGoesOn(j)
      BY <2>2, <3>1 DEF CancelGoesOn
    <3>3. \A i \in VMItems \ {j} : CancelGoesOn(i)
      BY <3>1 DEF CancelGoesOn
    <3> QED
      BY <3>2, <3>3
  <2> QED
    BY <1>4, <2>1, <2>2 DEF patchVMDataDownload
<1>5. CASE PVCSteps
  BY <1>0, <1>5 DEF PVCSteps, Interrupted, NoVMCancel, CancelGoesOn
<1> QED
  BY <1>1, <1>2, <1>3, <1>4, <1>5
  DEF VMNext, VMSteps, VMExecute, VMProgress, ItemsDone, allVars, vmVars

LEMMA FoundStep ==
    ASSUME IInv, VMTypeOK, FoundInv, [VMNext]_allVars
    PROVE  FoundInv'
<1> SUFFICES ASSUME NEW i \in VMItems, NEW copy \in vmCancels'[i].found
             PROVE  copy.id < nextId'
  BY DEF FoundInv
<1>1. nextId \in Nat /\ nextId' \in Nat /\ nextId <= nextId'
  <2>1. DownloadsStep
    BY VMStepIsStep, NextDownloads
  <2> QED
    BY <2>1 DEF DownloadsStep, NothingAdded, OneChanged, OneCreated, IInv, TypeOK
<1>2. CASE copy \in vmCancels[i].found
  <2>1. copy.id \in Nat /\ copy.id < nextId
    BY <1>2 DEF FoundInv, VMTypeOK, VMCancelStates, Copies
  <2> QED
    BY <1>1, <2>1
<1>3. CASE /\ copy \in {[id |-> d.id, name |-> d.name] :
                           d \in getDataDownloadsForVM(i[2])}
           /\ UNCHANGED vars
  <2>1. copy.id < nextId
    BY <1>3 DEF getDataDownloadsForVM, IInv, DownloadsInv
  <2> QED
    BY <1>3, <2>1 DEF vars, objects
<1>4. CancelGoesOn(i)
  BY CancelsGoOn
<1> QED
  BY <1>2, <1>3, <1>4 DEF CancelGoesOn

LEMMA NamedAfterPVC ==
    ASSUME NEW d, Shaped(d)
    PROVE  d.name.pvc = d.pvc
  BY DEF Shaped, generateDataDownloadName

LEMMA AimedStep ==
    ASSUME IInv, VMTypeOK, ShapedInv, AimedInv, [VMNext]_allVars
    PROVE  AimedInv'
<1> SUFFICES ASSUME NEW i \in VMItems, NEW dd \in vmCancels'[i].todo
             PROVE  dd.name.pvc \in DisksOf(i[2])
  BY DEF AimedInv, DisksOf
<1>1. CASE dd \in vmCancels[i].todo
  BY <1>1 DEF AimedInv
<1>2. CASE dd \in {[id |-> d.id, name |-> d.name] :
                      d \in getDataDownloadsForVM(i[2])}
  <2>1. PICK d \in getDataDownloadsForVM(i[2]) : dd.name = d.name
    BY <1>2
  <2>2. d \in downloads /\ d \in Downloads
    BY DEF getDataDownloadsForVM, IInv, TypeOK
  <2>3. d.pvc \in DisksOf(i[2])
    BY <2>2, FoundIsOwn DEF VMItems
  <2>4. d.name.pvc = d.pvc
    BY <2>2, NamedAfterPVC DEF ShapedInv
  <2> QED
    BY <2>1, <2>3, <2>4
<1>3. CancelGoesOn(i)
  BY CancelsGoOn
<1> QED
  BY <1>1, <1>2, <1>3 DEF CancelGoesOn

LEMMA ReachStep ==
    ASSUME IInv, EpochInv, VMTypeOK, FoundInv, VMCancelReachesFound,
           [VMNext]_allVars
    PROVE  VMCancelReachesFound'
<1> SUFFICES ASSUME NEW i \in VMItems, NEW e \in downloads',
                    [id |-> e.id, name |-> e.name] \in Past(i)'
             PROVE  e.cancel
  BY DEF VMCancelReachesFound, Past
<1> DEFINE copy == [id |-> e.id, name |-> e.name]
<1>1. CancelGoesOn(i)
  BY CancelsGoOn
<1>2. CASE copy \in Past(i)
  <2>1. e.id < nextId /\ nextId \in Nat
    BY <1>2 DEF FoundInv, Past, IInv, TypeOK
  <2>2. Descent
    BY VMStepIsStep, NextDescent
  <2>3. PICK d \in downloads : SameObject(d, e) /\ (d.cancel => e.cancel)
    BY <2>1, <2>2 DEF Descent
  <2>4. [id |-> d.id, name |-> d.name] = copy
    BY <2>3 DEF SameObject
  <2> QED
    BY <1>2, <2>3, <2>4 DEF VMCancelReachesFound, Past
<1>3. CASE copy \notin Past(i)
  <2>1. PICK dd \in vmCancels[i].todo :
           /\ vmCancels'[i].found = vmCancels[i].found
           /\ vmCancels'[i].todo = vmCancels[i].todo \ {dd}
           /\ \/ /\ Named(dd.name) = {} /\ UNCHANGED vars
                 /\ vmCancels'[i].errs = vmCancels[i].errs
              \/ /\ \E d \in Named(dd.name) : Patched(d)
                 /\ vmCancels'[i].errs = vmCancels[i].errs
              \/ /\ UNCHANGED vars
                 /\ vmCancels'[i].errs = vmCancels[i].errs \cup {dd}
    BY <1>1, <1>3 DEF CancelGoesOn, Past
  <2>2. copy = dd /\ dd \notin vmCancels'[i].errs
    BY <1>3, <2>1 DEF Past
  <2>3. e.name = dd.name
    BY <2>2
  <2>4. ~(Named(dd.name) = {} /\ UNCHANGED vars)
    BY <2>3 DEF Named, vars, objects
  <2>5. PICK d \in downloads : d.name = dd.name /\ Patched(d)
    BY <2>1, <2>2, <2>4 DEF Named
  <2>6. CASE e \in downloads /\ e # d
    BY <2>3, <2>5, <2>6 DEF IInv, DownloadsInv
  <2>7. CASE e = PatchedCancel(d)
    BY <2>7 DEF PatchedCancel, IInv, TypeOK, Downloads
  <2> QED
    BY <2>5, <2>6, <2>7 DEF Patched, Replace
<1> QED
  BY <1>2, <1>3

LEMMA RequestIsAimed ==
    ASSUME IInv, ShapedInv, AimedInv, NEW i \in VMItems,
           NEW dd \in vmCancels[i].todo, patchVMDataDownload(i, dd),
           NEW d \in downloads \ downloads'
    PROVE  d.pvc \in DisksOf(i[2])
<1>1. \/ UNCHANGED vars
      \/ \E t \in Named(dd.name) : downloads' = (downloads \ {t}) \cup {PatchedCancel(t)}
  BY DEF patchVMDataDownload, Patched, Replace
<1>2. d.name = dd.name
  BY <1>1 DEF Named, vars, objects
<1>3. d.name.pvc = d.pvc
  BY NamedAfterPVC DEF ShapedInv
<1> QED
  BY <1>2, <1>3 DEF AimedInv

-------------------------------------------------------------------------------
(* The invariant, and what follows from it.                                    *)

VMInv ==
    /\ VMTypeOK /\ ShapedInv /\ ThroughInv /\ SettledInv /\ FoundInv /\ AimedInv
    /\ VMSuccessMeansOwnData /\ FirstSuccessRestoredADisk
    /\ VMCancelReachesFound

LEMMA VMInvStep ==
    ASSUME IInv, DataInv, EpochInv, PresentInv, TypeOK', VMInv, [VMNext]_allVars
    PROVE  VMInv'
<1> USE DEF VMInv
<1>1. VMTypeOK' /\ ThroughInv' /\ SettledInv' /\ FoundInv' /\ AimedInv'
  BY VMTypeStep, ThroughInvStep, SettledStep, FoundStep, AimedStep
<1>2. ShapedInv'
  BY VMStepIsStep, ShapedStep
<1>3. VMSuccessMeansOwnData' /\ FirstSuccessRestoredADisk'
  BY VMOwnDataStep, FirstRestoreStep
<1>4. VMCancelReachesFound'
  BY ReachStep
<1> QED
  BY <1>1, <1>2, <1>3, <1>4

LEMMA VMInitInv == VMInit => VMInv
<1> SUFFICES ASSUME VMInit PROVE VMInv
  OBVIOUS
<1>1. /\ downloads = {} /\ through = FALSE
      /\ \A i \in VMItems : /\ vmOps[i] = "none" /\ vmCancels[i].todo = {}
                            /\ vmCancels[i].found = {}
  BY DEF VMInit, Init, NoVMCancel
<1> QED
  BY <1>1, VMInitType
  DEF VMInv, ShapedInv, ThroughInv, SettledInv, FoundInv, AimedInv,
      VMSuccessMeansOwnData, FirstSuccessRestoredADisk, VMCancelReachesFound

LEMMA VMInvariance == VMSpec => [](IInv /\ VMInv)
<1>1. VMSpec => [](IInv /\ DataInv /\ EpochInv /\ PresentInv)
  BY PVCRestoreIsKept, PresentInvariance DEF KeepsToPVCRestore
<1>2. ASSUME IInv, DataInv, EpochInv, PresentInv, IInv', VMInv, [VMNext]_allVars
      PROVE  VMInv'
  BY <1>2, VMInvStep DEF IInv
<1> QED
  BY <1>1, <1>2, VMInitInv, PTL DEF VMSpec

\* The VM's operation succeeds only if each disk that has an operation holds its
\* own data, for any mapping, any namesakes and any number of Restores.
THEOREM VMSuccessIsOwn == VMSpec => []VMSuccessMeansOwnData
<1>1. VMInv => VMSuccessMeansOwnData
  BY DEF VMInv
<1> QED
  BY <1>1, VMInvariance, PTL

\* The first Restore of a name does not report an empty success.
THEOREM FirstSuccessIsReal == VMSpec => []FirstSuccessRestoredADisk
<1>1. VMInv => FirstSuccessRestoredADisk
  BY DEF VMInv
<1> QED
  BY <1>1, VMInvariance, PTL

\* Cancel is past a DataDownload only if that is asked to stop, gone, or given
\* up on, whatever the PVC plugin's Cancel does to it and whatever takes its name.
THEOREM VMCancelReaches == VMSpec => []VMCancelReachesFound
<1>1. VMInv => VMCancelReachesFound
  BY DEF VMInv
<1> QED
  BY <1>1, VMInvariance, PTL

\* Cancel asks the DataDownloads of no other VM's disks.
THEOREM VMCancelAims == VMSpec => VMCancelIsAimed
<1>1. ASSUME IInv, VMInv
      PROVE  \A i \in VMItems : \A dd \in vmCancels[i].todo :
                patchVMDataDownload(i, dd) =>
                    \A d \in downloads \ downloads' : d.pvc \in DisksOf(i[2])
  BY <1>1, RequestIsAimed DEF VMInv
<1> QED
  BY <1>1, VMInvariance, PTL DEF VMCancelIsAimed

===============================================================================
