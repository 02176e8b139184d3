------------------------------ MODULE PVCRestore ------------------------------
(* The PersistentVolumeClaim restore plugin, pvc/restore.go: for a PVC that    *)
(* the kubevirt data mover backed up, Execute strips the stale binding and     *)
(* creates, or adopts, the DataDownload that brings the data back; Velero then *)
(* stores the PVC, polls Progress and, on a timeout, calls Cancel once.        *)
(*                                                                             *)
(* Identities are those of the source PVC.  Where the data goes is decided by  *)
(* the Restore's namespace mapping, which may send two PVCs to one place.  The *)
(* Backup, read once per plugin process, may change behind the cached copy.    *)
(*                                                                             *)
(* One Restore name is modelled; its object may be deleted and recreated, each *)
(* time with a new UID (1..MaxRestores).                                       *)
EXTENDS Naturals, FiniteSets

CONSTANTS
    PVCs,               \* the PVCs of the backup, as <<namespace, name>>
    VMOf,               \* per PVC, its AnnotationVMName; "none" if empty
    NamespaceMapping,   \* the Restore's; "none" if empty: the namespace itself
    Locations,          \* storage locations a Backup may name
    Calls,              \* slots for Execute calls that may run at once
    MaxRestores,        \* bound: UIDs the Restore name goes through
    MaxCreateAttempts,  \* maxCreateAttempts: 3 in the code
    PatchSteps,         \* cancelPatchBackoff.Steps: 3 in the code
    TotalTimeout,       \* cancelPatchTotalTimeout in units of 15s: 3
    CallTimeout,        \* apiCallTimeout in units of 15s: 2
    MaxFaults,          \* bound: API calls of each kind that fail
    MaxMeddling,        \* bound: creations and deletions by third parties
    MaxBackupChanges,   \* bound: deletions and recreations of the Backup
    MaxCrashes          \* bound: restarts of the plugin's process

FaultKinds == {"backup", "create", "get", "list", "patch", "hang"}

VMNames == {VMOf[p] : p \in PVCs}

ASSUME ItemsAssumption ==
    /\ PVCs # {} /\ \A p \in PVCs : p = <<p[1], p[2]>>
    /\ VMOf = [p \in PVCs |-> VMOf[p]]
    /\ Locations # {} /\ Locations \cap {"unset", "absent"} = {}
ASSUME BoundsAssumption ==
    /\ {MaxRestores, MaxCreateAttempts, PatchSteps} \subseteq Nat \ {0}
    /\ {TotalTimeout, CallTimeout, MaxMeddling, MaxBackupChanges, MaxCrashes}
           \subseteq Nat
    /\ MaxFaults \in [FaultKinds -> Nat]

VARIABLES
    epoch,      \* UID of the latest Restore of the name
    alive,      \* does that Restore still exist?
    location,   \* the Backup's spec.storageLocation, "unset", or "absent"
    downloads,  \* the DataDownload objects of the API server
    nextId,     \* object UID of the next DataDownload (ghost)
    pvcs,       \* the PVC objects in the target namespaces
    cached,     \* per Restore, cachedBackup's location, or "absent"
    calls,      \* the Execute calls in flight
    ops,        \* Velero's record of each item's operation
    cancels,    \* the Cancel call of each operation
    faults, meddled, changes, crashes  \* what is used of the bounds

objects == <<epoch, alive, location, downloads, nextId, pvcs>>
velero  == <<calls, ops, cancels>>
budget  == <<faults, meddled, changes, crashes>>
vars    == <<objects, cached, velero, budget>>

UIDs  == 1..MaxRestores
Items == UIDs \X PVCs

-------------------------------------------------------------------------------
(* Names, identifiers, and the objects.                                        *)

targetNamespace(ns) ==
    IF ns \in DOMAIN NamespaceMapping /\ NamespaceMapping[ns] # "none"
    THEN NamespaceMapping[ns] ELSE ns

target(p) == <<targetNamespace(p[1]), p[2]>>

Targets == {target(p) : p \in PVCs}

\* Mutant: the identifier is that of the place the data goes to.
OperationIDOfTarget(p) == [scheme |-> "current", pvc |-> target(p)]

\* Restore name and digest left out, the rest is the source PVC's identity.
generateDataDownloadName(p) == [kind |-> "dd", pvc |-> p]
generateOperationID(p)      == [scheme |-> "current", pvc |-> p]

Schemes == {"current", "older", "none"}

OperationIDs == [scheme : Schemes, pvc : PVCs]

\* Long identifiers are truncated in a label: taken at its worst, the labels of
\* all PVCs collide.
SafeLabelValue(opID) == opID.scheme

\* New stands for "", New, Accepted and Prepared, InProgress for Canceling too:
\* Progress only words them apart.
Running  == {"New", "InProgress"}
Terminal == {"Completed", "Failed", "Canceled"}

\* The binding-related fields of a PVC manifest.
Manifests == [volumeName : BOOLEAN, bindAnnotations : BOOLEAN, selector : BOOLEAN]

ItemFromBackup == [volumeName |-> TRUE, bindAnnotations |-> TRUE, selector |-> FALSE]

\* Mutant: no selector is set.
SetsNoSelector(item) ==
    [item EXCEPT !.volumeName = FALSE, !.bindAnnotations = FALSE]

clearPVCBinding(item) ==
    [item EXCEPT !.volumeName = FALSE, !.bindAnnotations = FALSE,
                 !.selector = TRUE]

\* In a volume, in place of a UID: it is a new one of the provisioner.
Provisioner == MaxRestores + 1

\* A stored PVC: what it was restored from and by, and its volume: none yet, the
\* disk a download of some owner rebuilt, or the provisioner's.
PVCObjects ==
    [name : Targets, from : PVCs, by : UIDs, bindAnnotations : BOOLEAN,
     selector : BOOLEAN,
     volume : SUBSET (({0, Provisioner} \cup UIDs) \X PVCs)]

Downloads ==
    [id : Nat, name : [kind : {"dd"}, pvc : PVCs], owner : UIDs \cup {0},
     pvc : PVCs, target : Targets, vm : VMNames \cup {"other"},
     mover : {"kubevirt", "other"}, bsl : Locations,
     label : {"ours", "other"}, opLabel : Schemes, opID : OperationIDs,
     phase : Running \cup Terminal, cancel : BOOLEAN,
     message : {"none", "conflict", "other"}]

\* The object createDataDownload builds for Restore uid, PVC p and location l.
NewDownload(id, uid, p, l) ==
    [id |-> id, name |-> generateDataDownloadName(p), owner |-> uid, pvc |-> p,
     target |-> target(p), vm |-> VMOf[p], mover |-> "kubevirt", bsl |-> l,
     label |-> "ours", opLabel |-> SafeLabelValue(generateOperationID(p)),
     opID |-> generateOperationID(p), phase |-> "New", cancel |-> FALSE,
     message |-> "none"]

Named(n)   == {d \in downloads : d.name = n}
WithId(id) == {d \in downloads : d.id = id}
Stored(t)  == {o \in pvcs : o.name = t}

\* getDataDownloadByOperationID: the labels select on the server, the annotation
\* must then match exactly.
WithOperationID(opID) ==
    {d \in downloads : /\ d.label = "ours"
                       /\ d.opLabel = SafeLabelValue(opID)
                       /\ d.opID = opID}

hasOwnerUID(d, uid) == d.owner = uid

\* Mutant: adoption of what cannot be found again.
AdoptsUnlabelled(d, c) ==
    /\ d.target = target(c.pvc) /\ d.pvc = c.pvc /\ d.vm = VMOf[c.pvc]
    /\ hasOwnerUID(d, c.uid) /\ d.mover = "kubevirt" /\ d.bsl = c.location
    /\ d.opID.scheme # "none"

\* validateAdoptableDataDownload.  The labels are compared with the object's own
\* annotation, not with this call's operation ID.
validateAdoptableDataDownload(d, c) ==
    /\ d.target = target(c.pvc)
    /\ hasOwnerUID(d, c.uid)
    /\ d.pvc = c.pvc /\ d.vm = VMOf[c.pvc]
    /\ d.mover = "kubevirt"
    /\ d.bsl = c.location
    /\ d.opID.scheme # "none"
    /\ d.label = "ours" /\ d.opLabel = SafeLabelValue(d.opID)

-------------------------------------------------------------------------------
(* Control state of the calls.                                                 *)

AnyPVC      == CHOOSE p \in PVCs : TRUE
NoID        == [scheme |-> "none", pvc |-> AnyPVC]
NoCall      == [pc |-> "idle", uid |-> 0, pvc |-> AnyPVC, location |-> "absent",
                attempt |-> 0, abandoned |-> FALSE, id |-> 0, opID |-> NoID]
NoOperation == [status |-> "none", opID |-> NoID, id |-> 0]
NoCancel    == [pc |-> "idle", found |-> {}, tries |-> 0, spent |-> 0]

CallStates ==
    [pc : {"idle", "backup", "create", "get", "return"}, uid : UIDs \cup {0},
     pvc : PVCs, location : Locations \cup {"absent"},
     attempt : 0..MaxCreateAttempts, abandoned : BOOLEAN, id : Nat,
     opID : OperationIDs]
OperationStates ==
    [status : {"none", "InProgress", "Completed", "Failed"},
     opID : OperationIDs, id : Nat]
CancelStates ==
    [pc : {"idle", "list", "patch", "done"},
     found : SUBSET [kind : {"dd"}, pvc : PVCs],
     tries : 0..(PatchSteps - 1), spent : Nat]

Spend(kind) == /\ faults[kind] < MaxFaults[kind]
               /\ faults' = [faults EXCEPT ![kind] = @ + 1]
               /\ UNCHANGED <<meddled, changes, crashes>>

Meddle == /\ meddled < MaxMeddling
          /\ meddled' = meddled + 1
          /\ UNCHANGED <<faults, changes, crashes>>

Replace(d, e) == downloads' = (downloads \ {d}) \cup {e}

Init ==
    /\ epoch = 1 /\ alive = TRUE
    /\ location \in Locations \cup {"unset", "absent"}
    /\ downloads = {} /\ nextId = 1 /\ pvcs = {}
    /\ cached = [u \in UIDs |-> "absent"]
    /\ calls = [c \in Calls |-> NoCall]
    /\ ops = [i \in Items |-> NoOperation]
    /\ cancels = [i \in Items |-> NoCancel]
    /\ faults = [k \in FaultKinds |-> 0]
    /\ meddled = 0 /\ changes = 0 /\ crashes = 0

-------------------------------------------------------------------------------
(* Execute.                                                                    *)

\* Velero stores the manifest that Execute returned, unless the PVC exists.  It
\* resets the binding itself if volumeName is still set.
StorePVC(uid, p, manifest) ==
    pvcs' = IF Stored(target(p)) # {} THEN pvcs
            ELSE pvcs \cup
                 {[name |-> target(p), from |-> p, by |-> uid,
                   bindAnnotations |-> manifest.bindAnnotations
                                       /\ ~manifest.volumeName,
                   selector |-> manifest.selector, volume |-> {}]}

\* A PVC without the annotation is returned as it came.
ExecuteOther(p) ==
    /\ alive /\ VMOf[p] = "none" /\ Stored(target(p)) = {}
    /\ StorePVC(epoch, p, ItemFromBackup)
    /\ UNCHANGED <<epoch, alive, location, downloads, nextId, cached, velero,
                   budget>>

\* Velero invokes Execute for a PVC that has no operation yet, again after an
\* error or when it gave up on an earlier call, which may still be running.
\* Nothing it does before getBackup leaves the call.
Execute(c, p) ==
    /\ alive /\ calls[c].pc = "idle" /\ VMOf[p] # "none"
    /\ ops[<<epoch, p>>].status = "none"
    /\ \A e \in Calls : (/\ calls[e].pc # "idle"
                         /\ calls[e].uid = epoch
                         /\ calls[e].pvc = p) => calls[e].abandoned
    /\ calls' = [calls EXCEPT ![c] =
           [NoCall EXCEPT !.pc = "backup", !.uid = epoch, !.pvc = p,
                          !.attempt = 1, !.opID = generateOperationID(p)]]
    /\ UNCHANGED <<objects, cached, ops, cancels, budget>>

\* The call ends with an error: Velero stores nothing and may invoke it again.
FailCall(c) == calls' = [calls EXCEPT ![c] = NoCall]

\* With the Backup's location known, which must be set, the call goes on.
UseLocation(c, l) ==
    IF l \in Locations
    THEN calls' = [calls EXCEPT ![c] = [@ EXCEPT !.pc = "create", !.location = l]]
    ELSE FailCall(c)

\* Mutant: without the Backup the PVC is left to Velero, stripped as it is.
SkipsOnError(c) ==
    /\ calls[c].pc = "backup"
    /\ \/ /\ location # "absent"
          /\ UseLocation(c, location)
          /\ UNCHANGED <<pvcs, budget>>
       \/ /\ ~calls[c].abandoned /\ alive /\ calls[c].uid = epoch
          /\ FailCall(c) /\ Spend("backup")
          /\ StorePVC(epoch, calls[c].pvc, clearPVCBinding(ItemFromBackup))
    /\ UNCHANGED <<epoch, alive, location, downloads, nextId, cached, ops, cancels>>

\* Mutant: the Backup is read for every PVC.
GetBackupEveryTime(c) ==
    /\ calls[c].pc = "backup" /\ location # "absent"
    /\ UseLocation(c, location)
    /\ UNCHANGED <<objects, cached, ops, cancels, budget>>

\* getBackup, under its lock: the cached copy, or one Get.
getBackup(c) ==
    LET uid == calls[c].uid IN
    /\ calls[c].pc = "backup"
    /\ \/ /\ cached[uid] # "absent"
          /\ UseLocation(c, cached[uid])
          /\ UNCHANGED <<cached, budget>>
       \/ /\ cached[uid] = "absent" /\ location # "absent"
          /\ cached' = [cached EXCEPT ![uid] = location]
          /\ UseLocation(c, location)
          /\ UNCHANGED budget
       \/ /\ cached[uid] = "absent" /\ location = "absent"
          /\ FailCall(c) /\ UNCHANGED <<cached, budget>>
       \/ /\ cached[uid] = "absent"
          /\ FailCall(c) /\ Spend("backup") /\ UNCHANGED cached
    /\ UNCHANGED <<objects, ops, cancels>>

\* Create: stored and known, stored though the answer is lost, the name is
\* taken, or the request is lost.
createDataDownloadResource(c) ==
    LET call == calls[c]
        taken == Named(generateDataDownloadName(call.pvc)) # {}
    IN /\ call.pc = "create"
       /\ \/ /\ ~taken
             /\ downloads' = downloads \cup
                    {NewDownload(nextId, call.uid, call.pvc, call.location)}
             /\ nextId' = nextId + 1
             /\ \/ /\ calls' = [calls EXCEPT ![c] =
                       [@ EXCEPT !.pc = "return", !.id = nextId]]
                   /\ UNCHANGED budget
                \/ FailCall(c) /\ Spend("create")
          \/ /\ taken
             /\ calls' = [calls EXCEPT ![c].pc = "get"]
             /\ UNCHANGED <<downloads, nextId, budget>>
          \/ /\ FailCall(c) /\ Spend("create")
             /\ UNCHANGED <<downloads, nextId>>
       /\ UNCHANGED <<epoch, alive, location, pvcs, cached, ops, cancels>>

\* The re-fetch after AlreadyExists: adopt what validates, refuse what does
\* not, and create once more when the object is already gone again.
getDataDownloadByName(c) ==
    LET call == calls[c]
        existing == Named(generateDataDownloadName(call.pvc))
    IN /\ call.pc = "get"
       /\ \/ /\ existing = {}
             /\ IF call.attempt < MaxCreateAttempts
                THEN calls' = [calls EXCEPT ![c] =
                         [@ EXCEPT !.pc = "create", !.attempt = call.attempt + 1]]
                ELSE FailCall(c)
             /\ UNCHANGED budget
          \/ \E d \in existing :
                /\ IF validateAdoptableDataDownload(d, call)
                   THEN calls' = [calls EXCEPT ![c] =
                            [@ EXCEPT !.pc = "return", !.id = d.id,
                                      !.opID = d.opID]]
                   ELSE FailCall(c)
                /\ UNCHANGED budget
          \/ FailCall(c) /\ Spend("get")
       /\ UNCHANGED <<objects, cached, ops, cancels>>

\* Velero receives the stripped PVC and the operation ID: it stores the one and
\* tracks the other, unless it no longer listens or the Restore is gone.
Return(c) ==
    LET call == calls[c]
        item == <<call.uid, call.pvc>>
        heard == ~call.abandoned /\ alive /\ call.uid = epoch
    IN /\ call.pc = "return"
       /\ IF heard
          THEN /\ ops' = [ops EXCEPT ![item] = [status |-> "InProgress",
                                                opID |-> call.opID,
                                                id |-> call.id]]
               /\ StorePVC(call.uid, call.pvc, clearPVCBinding(ItemFromBackup))
          ELSE UNCHANGED <<ops, pvcs>>
       /\ calls' = [calls EXCEPT ![c] = NoCall]
       /\ UNCHANGED <<epoch, alive, location, downloads, nextId, cached,
                      cancels, budget>>

Abandon(c) ==
    /\ calls[c].pc # "idle" /\ ~calls[c].abandoned
    /\ calls' = [calls EXCEPT ![c].abandoned = TRUE]
    /\ UNCHANGED <<objects, cached, ops, cancels, budget>>

\* The process restarts: its calls and the cached Backup are gone; the
\* operations Velero has recorded stay and are polled again.
Crash ==
    /\ crashes < MaxCrashes
    /\ crashes' = crashes + 1
    /\ calls' = [c \in Calls |-> NoCall]
    /\ cached' = [u \in UIDs |-> "absent"]
    /\ cancels' = [i \in Items |-> IF cancels[i].pc \in {"list", "patch"}
                                   THEN NoCancel ELSE cancels[i]]
    /\ UNCHANGED <<objects, ops, faults, meddled, changes>>

-------------------------------------------------------------------------------
(* Progress and Cancel.                                                        *)

\* Mutant: Err is the status message as it stands.
MessageAsErr(d) ==
    CASE d.phase \in Running   -> "InProgress"
      [] d.phase = "Completed" -> "Completed"
      [] d.phase = "Canceled"  -> "Failed"
      [] d.phase = "Failed"    -> IF d.message = "none" THEN "Completed" ELSE "Failed"

\* What Velero makes of the answer: an operation that is completed has succeeded
\* if and only if Err is empty, which it never is for a failure.
ProgressOf(d) ==
    CASE d.phase \in Running              -> "InProgress"
      [] d.phase = "Completed"            -> "Completed"
      [] d.phase \in {"Failed", "Canceled"} -> "Failed"

Polled(i) == alive /\ i[1] = epoch /\ ops[i].status = "InProgress"
                   /\ cancels[i].pc = "idle"

\* Mutant: an operation whose download is missing goes on.
MissingMeansPending(i) ==
    /\ Polled(i)
    /\ \/ /\ \E d \in WithOperationID(ops[i].opID) :
                ops' = [ops EXCEPT ![i].status = ProgressOf(d)]
          /\ UNCHANGED budget
       \/ /\ ops' = [ops EXCEPT ![i].status = "Failed"]
          /\ Spend("list")
    /\ UNCHANGED <<objects, cached, calls, cancels>>

\* A failed List is an error of Progress, which fails the operation.
Progress(i) ==
    LET found == WithOperationID(ops[i].opID) IN
    /\ Polled(i)
    /\ \/ /\ found = {}
          /\ ops' = [ops EXCEPT ![i].status = "Failed"]
          /\ UNCHANGED budget
       \/ /\ \E d \in found : ops' = [ops EXCEPT ![i].status = ProgressOf(d)]
          /\ UNCHANGED budget
       \/ /\ ops' = [ops EXCEPT ![i].status = "Failed"]
          /\ Spend("list")
    /\ UNCHANGED <<objects, cached, calls, cancels>>

\* Velero's operation timeout: it calls Cancel once, ignores its error, and
\* records the operation as failed.
Timeout(i) ==
    /\ Polled(i)
    /\ cancels' = [cancels EXCEPT ![i].pc = "list"]
    /\ UNCHANGED <<objects, cached, calls, ops, budget>>

CancelReturns(i) ==
    /\ cancels' = [cancels EXCEPT ![i] = [NoCancel EXCEPT !.pc = "done"]]
    /\ ops' = [ops EXCEPT ![i].status = "Failed"]

\* Cancel's lookup, which is not retried; what it keeps is the object's name.
CancelLookup(i) ==
    LET found == WithOperationID(ops[i].opID) IN
    /\ cancels[i].pc = "list"
    /\ \/ found = {} /\ CancelReturns(i) /\ UNCHANGED budget
       \/ \E d \in found :
             /\ cancels' = [cancels EXCEPT ![i] =
                    [@ EXCEPT !.pc = "patch", !.found = {d.name}]]
             /\ UNCHANGED <<ops, budget>>
       \/ CancelReturns(i) /\ Spend("list")
    /\ UNCHANGED <<objects, cached, calls>>

\* Mutant: writing back the object as it was created.
FullUpdate(d) == [d EXCEPT !.cancel = TRUE, !.phase = "New", !.message = "none"]

\* The merge patch carries spec.cancel and nothing else.
PatchedCancel(d) == [d EXCEPT !.cancel = TRUE]

\* Mutant: no retry.
FirstFailureIsFinal(i, cost) == CancelReturns(i)

\* An attempt that fails: another follows while steps are left.  Of the errors
\* that are not retried, NotFound is a case of its own below, and Invalid does
\* not come of a patch that sets one flag.
AttemptFails(i, cost) ==
    IF cancels[i].tries + 1 < PatchSteps
    THEN /\ cancels' = [cancels EXCEPT ![i] =
                [@ EXCEPT !.tries = cancels[i].tries + 1,
                          !.spent = cancels[i].spent + cost]]
         /\ UNCHANGED ops
    ELSE CancelReturns(i)

\* patchDataDownloadCancel: up to PatchSteps attempts within TotalTimeout.
patchDataDownloadCancel(i) ==
    LET targets == UNION {Named(n) : n \in cancels[i].found}
        expired == cancels[i].spent >= TotalTimeout
        patched == \E d \in targets : Replace(d, PatchedCancel(d))
    IN /\ cancels[i].pc = "patch"
       /\ \/ /\ expired \/ targets = {}
             /\ CancelReturns(i) /\ UNCHANGED <<downloads, budget>>
          \/ ~expired /\ patched /\ CancelReturns(i) /\ UNCHANGED budget
          \/ /\ ~expired /\ AttemptFails(i, 0) /\ Spend("patch")
             /\ UNCHANGED downloads
          \/ /\ ~expired /\ AttemptFails(i, CallTimeout) /\ Spend("hang")
             /\ patched \/ UNCHANGED downloads
       /\ UNCHANGED <<epoch, alive, location, nextId, pvcs, cached, calls>>

-------------------------------------------------------------------------------
(* The environment: the lives of the Restore and the Backup, the garbage       *)
(* collector, third parties, the storage provisioner and the controller.       *)

DeleteRestore ==
    /\ alive /\ alive' = FALSE
    /\ UNCHANGED <<epoch, location, downloads, nextId, pvcs, cached, velero,
                   budget>>

\* The PVCs that the first Restore brought back stay.
RecreateRestore ==
    /\ ~alive /\ epoch < MaxRestores
    /\ alive' = TRUE /\ epoch' = epoch + 1
    /\ UNCHANGED <<location, downloads, nextId, pvcs, cached, velero, budget>>

\* The Backup is deleted, or one of its name appears, maybe stored elsewhere.
BackupChanges ==
    /\ changes < MaxBackupChanges /\ changes' = changes + 1
    /\ location' \in IF location = "absent" THEN Locations ELSE {"absent"}
    /\ UNCHANGED <<epoch, alive, downloads, nextId, pvcs, cached, velero,
                   faults, meddled, crashes>>

\* A DataDownload whose owner is gone is collected.
GarbageCollect(d) ==
    /\ d.owner # 0 /\ (d.owner # epoch \/ ~alive)
    /\ downloads' = downloads \ {d}
    /\ UNCHANGED <<epoch, alive, location, nextId, pvcs, cached, velero, budget>>

\* What the code defends against under the name it is about to use: an object
\* of an older build, or one that differs from what is expected in one field.
ForeignDownloads(p, l) ==
    LET base == NewDownload(nextId, epoch, p, l) IN
    {[base EXCEPT !.opID.scheme = s, !.opLabel = s] : s \in {"older", "none"}}
    \cup {[base EXCEPT !.owner = 0], [base EXCEPT !.vm = "other"],
          [base EXCEPT !.mover = "other"], [base EXCEPT !.label = "other"],
          [base EXCEPT !.opLabel = "older"]}

ForeignCreate(p, l) ==
    /\ alive /\ VMOf[p] # "none" /\ Meddle
    /\ Named(generateDataDownloadName(p)) = {}
    /\ \E d \in ForeignDownloads(p, l) : downloads' = downloads \cup {d}
    /\ nextId' = nextId + 1
    /\ UNCHANGED <<epoch, alive, location, pvcs, cached, velero>>

ForeignDelete(d) ==
    /\ Meddle
    /\ downloads' = downloads \ {d}
    /\ UNCHANGED <<epoch, alive, location, nextId, pvcs, cached, velero>>

\* The provisioner gives a new volume to a PVC that nothing keeps it from.
Provision(o) ==
    /\ o.volume = {} /\ ~o.selector /\ ~o.bindAnnotations
    /\ pvcs' = (pvcs \ {o}) \cup {[o EXCEPT !.volume = {<<Provisioner, o.from>>}]}
    /\ UNCHANGED <<epoch, alive, location, downloads, nextId, cached, velero,
                   budget>>

\* The controller takes a download up, or gives it up, saying why or not.
ControllerWorks(d) ==
    /\ d.phase \in Running
    /\ \/ d.phase = "New" /\ Replace(d, [d EXCEPT !.phase = "InProgress"])
       \/ \E m \in {"none", "other"} :
             Replace(d, [d EXCEPT !.phase = "Failed", !.message = m])
    /\ UNCHANGED <<epoch, alive, location, nextId, pvcs, cached, velero, budget>>

\* The disk is rebuilt and bound to the target PVC, once that is stored; a PVC
\* that is bound, or says so, is refused.
ControllerBinds(d) ==
    /\ d.phase = "InProgress"
    /\ \E o \in Stored(d.target) :
          IF o.volume = {} /\ ~o.bindAnnotations
          THEN /\ Replace(d, [d EXCEPT !.phase = "Completed"])
               /\ pvcs' = (pvcs \ {o}) \cup
                      {[o EXCEPT !.volume = {<<d.owner, d.pvc>>}]}
          ELSE /\ Replace(d, [d EXCEPT !.phase = "Failed",
                                       !.message = "conflict"])
               /\ UNCHANGED pvcs
    /\ UNCHANGED <<epoch, alive, location, nextId, cached, velero, budget>>

ControllerCancels(d) ==
    /\ d.cancel /\ d.phase \in Running
    /\ Replace(d, [d EXCEPT !.phase = "Canceled"])
    /\ UNCHANGED <<epoch, alive, location, nextId, pvcs, cached, velero, budget>>

\* The VM restore plugin's Cancel sets the flag, too, on each DataDownload of a
\* VM: it knows nothing of their operations.
VMCancels(d) ==
    /\ Replace(d, PatchedCancel(d))
    /\ UNCHANGED <<epoch, alive, location, nextId, pvcs, cached, velero, budget>>

-------------------------------------------------------------------------------
\* Velero turns to an item.
ItemSteps ==
    \/ \E p \in PVCs : ExecuteOther(p)
    \/ \E c \in Calls, p \in PVCs : Execute(c, p)

CallSteps ==
    \E c \in Calls : \/ getBackup(c)
                     \/ createDataDownloadResource(c)
                     \/ getDataDownloadByName(c)
                     \/ Return(c)

ExecuteSteps == ItemSteps \/ CallSteps

CancelSteps(i) == CancelLookup(i) \/ patchDataDownloadCancel(i)

OperationSteps ==
    \E i \in Items : Progress(i) \/ Timeout(i) \/ CancelSteps(i)

ControllerSteps(d) ==
    ControllerWorks(d) \/ ControllerBinds(d) \/ ControllerCancels(d)

ClusterSteps ==
    \/ \E c \in Calls : Abandon(c)
    \/ Crash
    \/ DeleteRestore
    \/ RecreateRestore
    \/ BackupChanges
    \/ \E p \in PVCs, l \in Locations : ForeignCreate(p, l)
    \/ \E d \in downloads : \/ GarbageCollect(d)
                            \/ ForeignDelete(d)
                            \/ ControllerSteps(d)
    \/ \E o \in pvcs : Provision(o)

EnvironmentSteps == ClusterSteps \/ \E d \in downloads : VMCancels(d)

Next == ExecuteSteps \/ OperationSteps \/ EnvironmentSteps

Spec == Init /\ [][Next]_vars

\* The controller takes a new download up, and binds or cancels it after that;
\* it may give it up at any time, but need not.
ControllerProceeds(d) ==
    \/ d.phase = "New" /\ ControllerWorks(d)
    \/ ControllerBinds(d)
    \/ ControllerCancels(d)

\* Velero polls what is in progress and lets a Cancel call run to its end; the
\* controller goes on with each download.  No request has to fail for that.
Fairness ==
    /\ \A i \in Items : /\ WF_vars(Progress(i) /\ UNCHANGED faults)
                        /\ WF_vars(CancelSteps(i) /\ UNCHANGED faults)
    /\ \A p \in PVCs :
          WF_vars(\E d \in Named(generateDataDownloadName(p)) :
                     ControllerProceeds(d))

FairSpec == Spec /\ Fairness

-------------------------------------------------------------------------------
(* Properties.                                                                 *)

TypeOK ==
    /\ epoch \in UIDs /\ alive \in BOOLEAN
    /\ location \in Locations \cup {"unset", "absent"}
    /\ downloads \subseteq Downloads /\ nextId \in Nat
    /\ pvcs \subseteq PVCObjects
    /\ cached \in [UIDs -> Locations \cup {"unset", "absent"}]
    /\ calls \in [Calls -> CallStates]
    /\ ops \in [Items -> OperationStates]
    /\ cancels \in [Items -> CancelStates]
    /\ faults \in [FaultKinds -> Nat]
    /\ meddled \in Nat /\ changes \in Nat /\ crashes \in Nat

\* The download that Execute returned for item i, while it exists.
Own(i) == IF ops[i].status = "none" THEN {} ELSE WithId(ops[i].id)

\* What is handed to Velero can be tracked (validateAdoptableDataDownload): while
\* the download of a registered operation exists, the lookup of Progress and
\* Cancel finds it and no other, also where labels collide and two PVCs share a
\* target, and it is this Restore's and this PVC's.
RegisteredOperationTracksItsDownload ==
    \A i \in Items : \A d \in Own(i) :
        /\ WithOperationID(ops[i].opID) = {d}
        /\ d.owner = i[1] /\ d.pvc = i[2] /\ d.target = target(i[2])
        /\ d.vm = VMOf[i[2]] /\ d.mover = "kubevirt"

\* A stripped PVC would stay Pending for ever on its own.  So one is in the
\* cluster only if an operation for it reached Velero (Execute strips a copy of
\* the item before it reads the Backup and creates the download).
StrippedPVCHasOperation ==
    \A o \in pvcs : o.selector => ops[<<o.by, o.from>>].status # "none"

\* An operation succeeds only with its own data in the target PVC: not with the
\* data of the other PVC that the namespace mapping sends there, and not with
\* what an earlier Restore of the name brought; as long as no third party deletes
\* a download whose operation is tracked: the lookup of Progress does not compare
\* owners, and could then find the object of an abandoned call instead.
SuccessMeansOwnData ==
    \A i \in Items : meddled = 0 /\ ops[i].status = "Completed" =>
        \E o \in Stored(target(i[2])) : o.volume = {i}

\* clearPVCBinding leaves the PVC to the data mover: a download finds its target
\* taken only by another download or because it is another PVC's, never by the
\* provisioner and never by what is left of the old binding.
RebindIsNotPreempted ==
    \A d \in downloads : d.message = "conflict" =>
        \E o \in Stored(d.target) :
            o.from # d.pvc \/ \E v \in o.volume : v[1] # Provisioner

\* One Restore reads one storage location, even if its Backup is deleted and
\* recreated elsewhere in the middle (getBackup: "the Backup object -- constant
\* for that whole restore"), as long as the process lives: a restart loses the
\* cached copy.
OneLocationPerRestore ==
    \A i, j \in Items : crashes = 0 /\ i[1] = j[1] =>
        \A d \in Own(i), e \in Own(j) : d.bsl = e.bsl

\* The operations seen as AsyncOperation: the task is the returned download.
TaskOf(i) ==
    IF ops[i].status = "none"                       THEN "absent"
    ELSE IF Own(i) = {}                             THEN "lost"
    ELSE IF \E d \in Own(i) : d.phase = "Completed" THEN "succeeded"
    ELSE IF \E d \in Own(i) : d.phase \in Terminal  THEN "failed"
    ELSE "running"

ReportOf(i) ==
    CASE ops[i].status = "none"       -> "none"
      [] ops[i].status = "InProgress" -> "pending"
      [] ops[i].status = "Completed"  -> "success"
      [] ops[i].status = "Failed"     -> "failure"

Promise == INSTANCE AsyncOperation WITH
               Operations <- Items,
               task   <- [i \in Items |-> TaskOf(i)],
               report <- [i \in Items |-> ReportOf(i)]

\* Execute, Progress and Cancel together keep the promise of AsyncOperation: each
\* operation reports once, and success only for a completed download, and no
\* outcome of a download is undone, though Cancel's patch races the controller.
KeepsPromise == Promise!Spec

\* Cancel does not give up on a download it has found: it ends with the flag set
\* or the download gone, unless it used up its attempts or its time on requests
\* that failed (cancelPatchBackoff, cancelPatchTotalTimeout).
CancelIsPersistent ==
    [][\A i \in Items : cancels[i].pc = "patch" /\ cancels'[i].pc = "done" =>
          \/ \A d \in downloads' : d.name \in cancels[i].found => d.cancel
          \/ faults'["patch"] + faults'["hang"] >= PatchSteps
          \/ faults'["hang"] * CallTimeout >= TotalTimeout]_vars

\* Every PVC of the data mover ends: its operation does not wait on a PVC that
\* the storage system holds, nor on a download that was deleted.
OperationSettles ==
    \A i \in Items : (ops[i].status = "InProgress" /\ alive)
                         ~> (ops[i].status # "InProgress" \/ ~alive)

===============================================================================
