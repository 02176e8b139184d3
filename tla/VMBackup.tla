------------------------------- MODULE VMBackup -------------------------------
(* The VirtualMachine backup plugin, vm/backup.go: Execute creates, or adopts, *)
(* the DataUpload that carries a VM's backup; Velero then polls Progress and,  *)
(* when the operation times out, calls Cancel once.  The plugin keeps nothing  *)
(* between calls: all that ties a call to its DataUpload is the deterministic  *)
(* name and the operation ID stored on the object, while retried or abandoned  *)
(* Execute calls, third parties, the garbage collector and the                 *)
(* kubevirt-datamover-controller act on the same objects.                      *)
(*                                                                             *)
(* One Backup name is modelled; its object may be deleted and recreated, each  *)
(* time with a new UID (1..MaxBackups).                                        *)
EXTENDS Naturals, FiniteSets

CONSTANTS
    VMs,                \* the VirtualMachines of the backup
    PVCs,               \* candidates for a DataUpload's SourcePVC
    Calls,              \* slots for Execute calls that may run at once
    MaxBackups,         \* bound: UIDs the Backup name goes through
    MaxCreateAttempts,  \* maxCreateAttempts: 3 in the code
    PatchSteps,         \* cancelPatchBackoff.Steps: 3 in the code
    TotalTimeout,       \* cancelPatchTotalTimeout in units of 15s: 3
    CallTimeout,        \* apiCallTimeout in units of 15s: 2
    MaxFaults,          \* bound: API calls of each kind that fail
    MaxMeddling,        \* bound: creations and deletions by third parties
    MaxCrashes,         \* bound: restarts of the plugin's process
    EmptyFailure        \* may a DataUpload fail with an empty Status.Message?

FaultKinds == {"create", "get", "list", "patch", "hang"}

ASSUME SetsAssumption == VMs # {} /\ PVCs # {}
ASSUME BoundsAssumption ==
    /\ {MaxBackups, MaxCreateAttempts, PatchSteps} \subseteq Nat \ {0}
    /\ {TotalTimeout, CallTimeout, MaxMeddling, MaxCrashes} \subseteq Nat
    /\ MaxFaults \in [FaultKinds -> Nat]
    /\ EmptyFailure \in BOOLEAN

VARIABLES
    epoch,    \* UID of the latest Backup of the name
    alive,    \* does that Backup still exist?
    uploads,  \* the DataUpload objects of the API server
    nextId,   \* object UID of the next DataUpload (ghost)
    calls,    \* the Execute calls in flight
    ops,      \* Velero's record of each item's operation
    cancels,  \* the Cancel call of each operation
    faults, meddled, crashes   \* what the environment has used of its bounds

cluster == <<epoch, alive, uploads, nextId>>
velero  == <<calls, ops, cancels>>
budget  == <<faults, meddled, crashes>>
vars    == <<cluster, velero, budget>>

UIDs  == 1..MaxBackups
Items == UIDs \X VMs

-------------------------------------------------------------------------------
(* Names, identifiers and DataUpload objects.                                  *)

\* Mutant: a fresh random suffix for every attempt.
NameWithRandomSuffix(v) == [kind |-> "du", vm |-> v, random |-> nextId]

\* The backup's name is fixed and the 8-hex digest keeps truncated names apart:
\* what is left of both identifiers is an injective function of the VM.
generateDataUploadName(v) == [kind |-> "du", vm |-> v]
generateOperationID(v)    == [scheme |-> "current", vm |-> v]

\* Operation IDs that a stored object may carry: this build's, an older
\* build's, or none at all.
OperationIDs == [scheme : {"current", "older", "none"}, vm : VMs]
Names        == [kind : {"du"}, vm : VMs]

\* New stands for "", New, Accepted and Prepared: Progress only words them apart.
Running  == {"New", "InProgress", "Canceling"}
Terminal == {"Completed", "Failed", "Canceled"}

Uploads ==
    [id : Nat, name : Names, owner : UIDs \cup {0}, vm : VMs, pvc : PVCs,
     mover : {"kubevirt", "other"}, bsl : {"ours", "other"},
     label : {"ours", "other"}, opID : OperationIDs,
     phase : Running \cup Terminal, cancel : BOOLEAN, message : BOOLEAN]

\* The object createDataUpload builds for backup uid, VM v and source PVC p.
NewUpload(id, uid, v, p) ==
    [id |-> id, name |-> generateDataUploadName(v), owner |-> uid, vm |-> v,
     pvc |-> p, mover |-> "kubevirt", bsl |-> "ours", label |-> "ours",
     opID |-> generateOperationID(v), phase |-> "New", cancel |-> FALSE,
     message |-> FALSE]

Named(n)   == {d \in uploads : d.name = n}
WithId(id) == {d \in uploads : d.id = id}

\* Mutant: the lookup trusts the backup-name label alone.
WithBackupLabel(opID) == {d \in uploads : d.label = "ours"}

\* getDataUploadByOperationID: the label selects on the server, the annotation
\* must match exactly.  The Backup's UID is not looked at.
WithOperationID(opID) == {d \in uploads : d.label = "ours" /\ d.opID = opID}

hasOwnerUID(d, uid) == d.owner = uid

\* Mutant: adoption without the data-mover check.
AdoptsAnyMover(d, c) ==
    d.pvc = c.pvc /\ hasOwnerUID(d, c.uid) /\ d.vm = c.vm /\ d.bsl = "ours"
    /\ d.opID.scheme # "none" /\ d.label = "ours"

\* validateAdoptableDataUpload, for the call's VM, Backup UID and source PVC.
validateAdoptableDataUpload(d, c) ==
    /\ d.pvc = c.pvc
    /\ hasOwnerUID(d, c.uid)
    /\ d.vm = c.vm
    /\ d.mover = "kubevirt"
    /\ d.bsl = "ours"
    /\ d.opID.scheme # "none"
    /\ d.label = "ours"

-------------------------------------------------------------------------------
(* Control state of the calls.                                                 *)

NoID   == [scheme |-> "none", vm |-> CHOOSE v \in VMs : TRUE]
NoCall == [pc |-> "idle", uid |-> 0, vm |-> CHOOSE v \in VMs : TRUE,
           pvc |-> CHOOSE p \in PVCs : TRUE, attempt |-> 0,
           abandoned |-> FALSE, id |-> 0, opID |-> NoID]
NoOperation == [status |-> "none", opID |-> NoID, id |-> 0]
NoCancel    == [pc |-> "idle", found |-> {}, tries |-> 0, spent |-> 0]

CallStates ==
    [pc : {"idle", "create", "get", "return"}, uid : UIDs \cup {0}, vm : VMs,
     pvc : PVCs, attempt : 0..MaxCreateAttempts, abandoned : BOOLEAN,
     id : Nat, opID : OperationIDs]
OperationStates ==
    [status : {"none", "InProgress", "Completed", "Failed"},
     opID : OperationIDs, id : Nat]
CancelStates ==
    [pc : {"idle", "list", "patch", "done"}, found : SUBSET Uploads,
     tries : Nat, spent : Nat]

Spend(kind) == /\ faults[kind] < MaxFaults[kind]
               /\ faults' = [faults EXCEPT ![kind] = @ + 1]
               /\ UNCHANGED <<meddled, crashes>>

Meddle == /\ meddled < MaxMeddling
          /\ meddled' = meddled + 1
          /\ UNCHANGED <<faults, crashes>>

Replace(d, e) == uploads' = (uploads \ {d}) \cup {e}

Init ==
    /\ epoch = 1 /\ alive = TRUE
    /\ uploads = {} /\ nextId = 1
    /\ calls = [c \in Calls |-> NoCall]
    /\ ops = [i \in Items |-> NoOperation]
    /\ cancels = [i \in Items |-> NoCancel]
    /\ faults = [k \in FaultKinds |-> 0] /\ meddled = 0 /\ crashes = 0

-------------------------------------------------------------------------------
(* Execute.                                                                    *)

\* Velero invokes Execute for a VM that has no operation yet, again after an
\* error or when it gave up on an earlier call, which may still be running.
\* Only eligible VMs are of interest: the other outcomes of the precondition
\* checks return without touching the cluster.  Which PVC comes first may
\* differ from one call to the next.
Execute(c, v, p) ==
    /\ alive /\ calls[c].pc = "idle"
    /\ ops[<<epoch, v>>].status = "none"
    /\ \A e \in Calls : (/\ calls[e].pc # "idle"
                         /\ calls[e].uid = epoch
                         /\ calls[e].vm = v) => calls[e].abandoned
    /\ calls' = [calls EXCEPT ![c] =
           [pc |-> "create", uid |-> epoch, vm |-> v, pvc |-> p, attempt |-> 1,
            abandoned |-> FALSE, id |-> 0, opID |-> generateOperationID(v)]]
    /\ UNCHANGED <<cluster, ops, cancels, budget>>

\* The call ends with an error; Velero may invoke Execute again.
FailCall(c) == calls' = [calls EXCEPT ![c] = NoCall]

\* Create: the object is stored and the call learns it, or the response (or
\* the conversion of the VM after it) fails although the object is stored, or
\* the name is taken, or the request is lost.
createDataUploadResource(c) ==
    LET call == calls[c]
        taken == Named(generateDataUploadName(call.vm)) # {}
    IN /\ call.pc = "create"
       /\ \/ /\ ~taken
             /\ uploads' = uploads \cup
                    {NewUpload(nextId, call.uid, call.vm, call.pvc)}
             /\ nextId' = nextId + 1
             /\ \/ /\ calls' = [calls EXCEPT ![c] =
                       [@ EXCEPT !.pc = "return", !.id = nextId]]
                   /\ UNCHANGED budget
                \/ FailCall(c) /\ Spend("create")
          \/ /\ taken
             /\ calls' = [calls EXCEPT ![c].pc = "get"]
             /\ UNCHANGED <<uploads, nextId, budget>>
          \/ /\ FailCall(c) /\ Spend("create")
             /\ UNCHANGED <<uploads, nextId>>
       /\ UNCHANGED <<epoch, alive, ops, cancels>>

\* Mutant: one create attempt too many, counted past the bound.
RefetchOffByOne(c) ==
    /\ calls[c].pc = "get" /\ Named(generateDataUploadName(calls[c].vm)) = {}
    /\ IF calls[c].attempt <= MaxCreateAttempts
       THEN calls' = [calls EXCEPT ![c] =
                [@ EXCEPT !.pc = "create", !.attempt = calls[c].attempt + 1]]
       ELSE FailCall(c)
    /\ UNCHANGED <<cluster, ops, cancels, budget>>

\* The re-fetch after AlreadyExists: adopt what validates, refuse what does
\* not, and create once more when the object is already gone again.
getDataUploadByName(c) ==
    LET call == calls[c]
        existing == Named(generateDataUploadName(call.vm))
    IN /\ call.pc = "get"
       /\ \/ /\ existing = {}
             /\ IF call.attempt < MaxCreateAttempts
                THEN calls' = [calls EXCEPT ![c] =
                         [@ EXCEPT !.pc = "create", !.attempt = calls[c].attempt + 1]]
                ELSE FailCall(c)
             /\ UNCHANGED budget
          \/ \E d \in existing :
                /\ IF validateAdoptableDataUpload(d, call)
                   THEN calls' = [calls EXCEPT ![c] =
                            [@ EXCEPT !.pc = "return", !.id = d.id,
                                      !.opID = d.opID]]
                   ELSE FailCall(c)
                /\ UNCHANGED budget
          \/ FailCall(c) /\ Spend("get")
       /\ UNCHANGED <<cluster, ops, cancels>>

\* Velero receives the operation ID and starts tracking the operation, unless
\* it no longer listens to this call or the Backup is gone.
Return(c) ==
    LET call == calls[c]
        item == <<call.uid, call.vm>>
        heard == ~call.abandoned /\ alive /\ call.uid = epoch
    IN /\ call.pc = "return"
       /\ ops' = IF heard
                 THEN [ops EXCEPT ![item] = [status |-> "InProgress",
                                             opID |-> call.opID,
                                             id |-> call.id]]
                 ELSE ops
       /\ calls' = [calls EXCEPT ![c] = NoCall]
       /\ UNCHANGED <<cluster, cancels, budget>>

\* Velero gives up on a call that goes on running in the plugin.
Abandon(c) ==
    /\ calls[c].pc # "idle" /\ ~calls[c].abandoned
    /\ calls' = [calls EXCEPT ![c].abandoned = TRUE]
    /\ UNCHANGED <<cluster, ops, cancels, budget>>

\* The process restarts: calls in flight are gone, the operations Velero has
\* recorded stay and are polled again.
Crash ==
    /\ crashes < MaxCrashes
    /\ crashes' = crashes + 1
    /\ calls' = [c \in Calls |-> NoCall]
    /\ cancels' = [i \in Items |-> IF cancels[i].pc \in {"list", "patch"}
                                   THEN NoCancel ELSE cancels[i]]
    /\ UNCHANGED <<cluster, ops, faults, meddled>>

-------------------------------------------------------------------------------
(* Progress and Cancel.                                                        *)

\* What Velero makes of the answer about d: an operation that is completed has
\* succeeded if and only if Err is the empty string.  Err is Status.Message,
\* as it stands, for a failed DataUpload.
ProgressOf(d) ==
    CASE d.phase \in Running     -> "InProgress"
      [] d.phase = "Completed"   -> "Completed"
      [] d.phase = "Canceled"    -> "Failed"
      [] d.phase = "Failed"      -> IF d.message THEN "Failed" ELSE "Completed"

Polled(i) == alive /\ i[1] = epoch /\ ops[i].status = "InProgress"
                   /\ cancels[i].pc = "idle"

\* A failed List leaves the operation in progress, as does a running upload.
Progress(i) ==
    LET found == WithOperationID(ops[i].opID) IN
    /\ Polled(i)
    /\ \/ /\ found = {}
          /\ ops' = [ops EXCEPT ![i].status = "Failed"]
       \/ \E d \in found : ops' = [ops EXCEPT ![i].status = ProgressOf(d)]
    /\ UNCHANGED <<cluster, calls, cancels, budget>>

\* Velero's operation timeout: it calls Cancel once, ignores its error, and
\* records the operation as failed.
Timeout(i) ==
    /\ Polled(i)
    /\ cancels' = [cancels EXCEPT ![i].pc = "list"]
    /\ UNCHANGED <<cluster, calls, ops, budget>>

CancelReturns(i) ==
    /\ cancels' = [cancels EXCEPT ![i] = [NoCancel EXCEPT !.pc = "done"]]
    /\ ops' = [ops EXCEPT ![i].status = "Failed"]

\* Cancel's lookup is not retried.
CancelLookup(i) ==
    LET found == WithOperationID(ops[i].opID) IN
    /\ cancels[i].pc = "list"
    /\ \/ found = {} /\ CancelReturns(i) /\ UNCHANGED budget
       \/ \E d \in found :
             /\ cancels' = [cancels EXCEPT ![i] =
                    [@ EXCEPT !.pc = "patch", !.found = {d}]]
             /\ UNCHANGED <<ops, budget>>
       \/ CancelReturns(i) /\ Spend("list")
    /\ UNCHANGED <<cluster, calls>>

\* Mutant: the object found by the lookup is written back as a whole.
FullUpdate(i, d) == [CHOOSE f \in cancels[i].found : TRUE EXCEPT !.cancel = TRUE]

\* The merge patch is addressed by name and carries spec.cancel and nothing
\* else: the object is changed as it is now, not as it was found.
PatchedCancel(i, d) == [d EXCEPT !.cancel = TRUE]

ApplyPatch(i, targets) ==
    \E d \in targets : Replace(d, PatchedCancel(i, d))

\* Mutant: no retry.
FirstFailureIsFinal(i, cost) == CancelReturns(i)

\* An attempt that fails: another follows while steps are left.  Of the errors
\* that are not retried, NotFound is a case of its own below, and Invalid does
\* not come of a patch that sets one flag.
AttemptFails(i, cost) ==
    IF cancels[i].tries + 1 < PatchSteps
    THEN /\ cancels' = [cancels EXCEPT ![i] =
                [@ EXCEPT !.tries = cancels[i].tries + 1,
                          !.spent = cancels[i].spent + cost]]
         /\ UNCHANGED ops
    ELSE CancelReturns(i)

\* patchDataUploadCancel: up to PatchSteps attempts within TotalTimeout.
patchDataUploadCancel(i) ==
    LET targets == UNION {Named(d.name) : d \in cancels[i].found}
        expired == cancels[i].spent >= TotalTimeout
    IN /\ cancels[i].pc = "patch"
       /\ \/ /\ expired
             /\ CancelReturns(i) /\ UNCHANGED <<uploads, budget>>
          \/ /\ ~expired /\ targets = {}
             /\ CancelReturns(i) /\ UNCHANGED <<uploads, budget>>
          \/ /\ ~expired
             /\ ApplyPatch(i, targets) /\ CancelReturns(i) /\ UNCHANGED budget
          \/ /\ ~expired
             /\ AttemptFails(i, 0) /\ Spend("patch") /\ UNCHANGED uploads
          \/ /\ ~expired
             /\ AttemptFails(i, CallTimeout) /\ Spend("hang")
             /\ ApplyPatch(i, targets) \/ UNCHANGED uploads
       /\ UNCHANGED <<epoch, alive, nextId, calls>>

-------------------------------------------------------------------------------
(* The environment: the Backup's life, the garbage collector, third parties    *)
(* and the kubevirt-datamover-controller.                                      *)

DeleteBackup ==
    /\ alive /\ alive' = FALSE
    /\ UNCHANGED <<epoch, uploads, nextId, velero, budget>>

RecreateBackup ==
    /\ ~alive /\ epoch < MaxBackups
    /\ alive' = TRUE /\ epoch' = epoch + 1
    /\ UNCHANGED <<uploads, nextId, velero, budget>>

\* A DataUpload whose owner is gone is collected.
GarbageCollect(d) ==
    /\ d \in uploads /\ d.owner # 0
    /\ d.owner # epoch \/ ~alive
    /\ uploads' = uploads \ {d}
    /\ UNCHANGED <<epoch, alive, nextId, velero, budget>>

\* What the code defends against under the name it is about to use: an object
\* of an older build, or one that differs from what is expected in one field.
ForeignUploads(v, p) ==
    LET base == NewUpload(nextId, epoch, v, p) IN
    {[base EXCEPT !.opID.scheme = s] : s \in {"older", "none"}}
    \cup {[base EXCEPT !.owner = 0], [base EXCEPT !.mover = "other"],
          [base EXCEPT !.bsl = "other"], [base EXCEPT !.label = "other"]}
    \cup {[base EXCEPT !.vm = w] : w \in VMs \ {v}}

ForeignCreate(v, p) ==
    /\ alive /\ Meddle
    /\ Named(generateDataUploadName(v)) = {}
    /\ \E d \in ForeignUploads(v, p) : uploads' = uploads \cup {d}
    /\ nextId' = nextId + 1
    /\ UNCHANGED <<epoch, alive, velero>>

ForeignDelete(d) ==
    /\ d \in uploads /\ Meddle
    /\ uploads' = uploads \ {d}
    /\ UNCHANGED <<epoch, alive, nextId, velero>>

\* Someone else asks for the cancellation, as Velero does after its own restart.
ForeignCancel(d) ==
    /\ d \in uploads /\ ~d.cancel /\ Meddle
    /\ Replace(d, [d EXCEPT !.cancel = TRUE])
    /\ UNCHANGED <<epoch, alive, nextId, velero>>

\* The controller works on an upload; it reacts to the cancel flag.
NextPhases(d) ==
    CASE d.phase = "New"        -> {"InProgress", "Failed"}
      [] d.phase = "InProgress" -> {"Completed", "Failed"}
      [] d.phase = "Canceling"  -> {"Completed", "Failed"}
      [] OTHER                  -> {}

Outcome(d, ph, m) == [d EXCEPT !.phase = ph, !.message = m]

ControllerWorks(d) ==
    /\ d \in uploads
    /\ \E ph \in NextPhases(d), m \in BOOLEAN :
          /\ ph # "Failed" => ~m
          /\ ph = "Failed" => m \/ EmptyFailure
          /\ Replace(d, Outcome(d, ph, m))
    /\ UNCHANGED <<epoch, alive, nextId, velero, budget>>

ControllerCancels(d) ==
    /\ d \in uploads /\ d.cancel /\ d.phase \in Running
    /\ Replace(d, [d EXCEPT !.phase = IF d.phase = "InProgress"
                                      THEN "Canceling" ELSE "Canceled"])
    /\ UNCHANGED <<epoch, alive, nextId, velero, budget>>

-------------------------------------------------------------------------------
ExecuteSteps ==
    \/ \E c \in Calls, v \in VMs, p \in PVCs : Execute(c, v, p)
    \/ \E c \in Calls : \/ createDataUploadResource(c)
                        \/ getDataUploadByName(c)
                        \/ Return(c)

OperationSteps ==
    \E i \in Items : \/ Progress(i)
                     \/ Timeout(i)
                     \/ CancelLookup(i)
                     \/ patchDataUploadCancel(i)

EnvironmentSteps ==
    \/ \E c \in Calls : Abandon(c)
    \/ Crash
    \/ DeleteBackup
    \/ RecreateBackup
    \/ \E v \in VMs, p \in PVCs : ForeignCreate(v, p)
    \/ \E d \in uploads : \/ GarbageCollect(d)
                          \/ ForeignDelete(d)
                          \/ ForeignCancel(d)
                          \/ ControllerWorks(d)
                          \/ ControllerCancels(d)

Next == ExecuteSteps \/ OperationSteps \/ EnvironmentSteps

Spec == Init /\ [][Next]_vars

\* A Cancel call that runs makes its attempts, one after the other; the
\* controller handles an upload whose cancel flag is set.  No request has to
\* fail for that.
CancelSteps(i) == CancelLookup(i) \/ patchDataUploadCancel(i)

ControllerHandlesCancel == \E d \in uploads : ControllerCancels(d)

Fairness ==
    /\ \A i \in Items : WF_vars(CancelSteps(i) /\ UNCHANGED faults)
    /\ WF_vars(ControllerHandlesCancel)

FairSpec == Spec /\ Fairness

-------------------------------------------------------------------------------
(* Properties.                                                                 *)

TypeOK ==
    /\ epoch \in UIDs /\ alive \in BOOLEAN
    /\ uploads \subseteq Uploads /\ nextId \in Nat
    /\ calls \in [Calls -> CallStates]
    /\ ops \in [Items -> OperationStates]
    /\ cancels \in [Items -> CancelStates]
    /\ faults \in [FaultKinds -> Nat] /\ meddled \in Nat /\ crashes \in Nat

\* The upload that Execute returned for item i, while it exists.
Own(i) == IF ops[i].status = "none" THEN {} ELSE WithId(ops[i].id)

\* Retries converge (deterministicSuffix, createDataUpload): however often
\* Execute is retried, abandoned, or loses the answer to its Create, a VM never
\* has two uploads at once under one Backup.
OneUploadPerItem ==
    \A d, e \in uploads :
        (d.owner = e.owner /\ d.owner # 0 /\ d.vm = e.vm /\ d.name.vm = e.name.vm)
            => d = e

\* What is handed to Velero can be tracked (validateAdoptableDataUpload and the
\* stored-ID return in Execute): while the upload of a registered operation
\* exists, the lookup Progress and Cancel use finds that upload and no other,
\* and it is this Backup's, this VM's, and the kubevirt data mover's.
RegisteredOperationTracksItsUpload ==
    \A i \in Items : \A d \in Own(i) :
        /\ WithOperationID(ops[i].opID) = {d}
        /\ d.owner = i[1] /\ d.vm = i[2]
        /\ d.mover = "kubevirt" /\ d.bsl = "ours"

\* A Cancel call never stops a neighbour: while the upload of the timed-out
\* operation exists, the step that sets a cancel flag sets it on that upload.
CancelHitsOwnUpload ==
    [][\A i \in Items : patchDataUploadCancel(i) =>
          \A d \in uploads, e \in uploads' :
              (d.id = e.id /\ ~d.cancel /\ e.cancel /\ Own(i) # {})
                  => d \in Own(i)]_vars

\* The phase an upload ends with is never overwritten: the merge patch of
\* patchDataUploadCancel races the controller's status updates and loses
\* nothing of them.
FinalPhaseStays ==
    [][\A d \in uploads, e \in uploads' :
          (d.id = e.id /\ d.phase \in Terminal) =>
              e.phase = d.phase /\ e.message = d.message]_vars

\* The operations Velero tracks, seen as AsyncOperation: an operation's task is
\* the upload that Execute returned for it.
TaskOf(i) ==
    IF ops[i].status = "none"                           THEN "absent"
    ELSE IF Own(i) = {}                                 THEN "lost"
    ELSE IF \E d \in Own(i) : d.phase = "Completed"     THEN "succeeded"
    ELSE IF \E d \in Own(i) : d.phase \in Terminal      THEN "failed"
    ELSE "running"

ReportOf(i) ==
    CASE ops[i].status = "none"       -> "none"
      [] ops[i].status = "InProgress" -> "pending"
      [] ops[i].status = "Completed"  -> "success"
      [] ops[i].status = "Failed"     -> "failure"

Promise == INSTANCE AsyncOperation WITH
               Operations <- Items,
               task   <- [i \in Items |-> TaskOf(i)],
               report <- [i \in Items |-> ReportOf(i)]

\* Execute, Progress and Cancel together keep the promise of AsyncOperation:
\* each operation reports once, and success only for a completed upload.
KeepsPromise == Promise!Spec

\* An operation is recorded as successful only when its upload, if it still
\* exists, has completed (Progress: "monitors the DataUpload CR status").
SuccessMeansUploadCompleted ==
    [][\A i \in Items :
          (ops[i].status = "InProgress" /\ ops'[i].status = "Completed") =>
              \A d \in Own(i) : d.phase = "Completed"]_vars

\* Cancel does not give up on an upload it has found: it ends with the flag set
\* or the upload gone, unless it used up its attempts or its time on requests
\* that failed (cancelPatchBackoff, cancelPatchTotalTimeout).
CancelIsPersistent ==
    [][\A i \in Items : cancels[i].pc = "patch" /\ cancels'[i].pc = "done" =>
          \/ \A f \in cancels[i].found, d \in uploads' :
                d.name = f.name => d.cancel
          \/ faults'["patch"] + faults'["hang"] >= PatchSteps
          \/ faults'["hang"] * CallTimeout >= TotalTimeout]_vars

\* Once Cancel has found the upload it stops, whatever transient failures
\* the patch meets within the fault bounds (cancelPatchBackoff: "no other
\* mechanism to ever retry the cancellation").
CancelStopsUpload ==
    \A i \in Items :
        (cancels[i].pc = "patch")
            ~> (\A d \in WithId(ops[i].id) : d.phase \notin Running)

===============================================================================
