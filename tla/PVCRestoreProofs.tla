--------------------------- MODULE PVCRestoreProofs ---------------------------
(* Proofs about PVCRestore, for every value of its constants: its type         *)
(* invariant, that what Execute hands to Velero stays trackable, that no PVC   *)
(* is stripped without an operation, that nothing comes between it and its own *)
(* data, and that it implements AsyncOperation.                                *)
EXTENDS PVCRestore, TLAPS

-------------------------------------------------------------------------------
(* Every step does one of four things to the DataDownloads.                    *)

SameObject(d, e) ==
    /\ d.id = e.id /\ d.name = e.name /\ d.owner = e.owner /\ d.pvc = e.pvc
    /\ d.target = e.target /\ d.vm = e.vm /\ d.mover = e.mover
    /\ d.bsl = e.bsl
    /\ d.label = e.label /\ d.opLabel = e.opLabel /\ d.opID = e.opID

\* What a download ended with stays.
OutcomeKept(d, e) == d.phase \in Terminal => e.phase = d.phase

NothingAdded ==
    /\ \/ downloads' = downloads
       \/ \E d \in downloads : downloads' = downloads \ {d}
    /\ nextId' = nextId

OneChanged ==
    /\ \E d \in downloads, e \in Downloads :
          /\ SameObject(d, e) /\ OutcomeKept(d, e)
          /\ Replace(d, e)
    /\ nextId' = nextId

OneCreated ==
    /\ \E e \in Downloads :
          /\ e.id = nextId /\ e.opID.pvc = e.name.pvc
          /\ \A d \in downloads : d.name # e.name
          /\ downloads' = downloads \cup {e}
    /\ nextId' = nextId + 1

DownloadsStep == NothingAdded \/ OneChanged \/ OneCreated

\* The object d is what Execute must return for PVC p of the Restore uid.
Trackable(d, uid, p, opID) ==
    /\ d.name = generateDataDownloadName(p) /\ d.owner = uid /\ d.pvc = p
    /\ d.target = target(p) /\ d.vm = VMOf[p] /\ d.mover = "kubevirt"
    /\ d.label = "ours" /\ d.opLabel = SafeLabelValue(opID) /\ d.opID = opID

\* Every download with this id, if there still is one, is trackable.
Bound(id, uid, p, opID) ==
    /\ id < nextId
    /\ \A d \in downloads : d.id = id => Trackable(d, uid, p, opID)

DownloadsInv ==
    /\ \A d \in downloads : d.id < nextId /\ d.opID.pvc = d.name.pvc
    /\ \A d, e \in downloads : d.id = e.id \/ d.name = e.name => d = e

CallInv(c) ==
    /\ calls[c].pc # "idle" =>
          calls[c].uid \in UIDs /\ calls[c].opID.pvc = calls[c].pvc
    /\ calls[c].pc \in {"backup", "create", "get"} =>
          calls[c].opID = generateOperationID(calls[c].pvc)
    /\ calls[c].pc \in {"create", "get"} => calls[c].location \in Locations
    /\ calls[c].pc = "return" =>
          Bound(calls[c].id, calls[c].uid, calls[c].pvc, calls[c].opID)

OpInv(i) ==
    ops[i].status # "none" =>
        /\ Bound(ops[i].id, i[1], i[2], ops[i].opID)
        /\ ops[i].opID.pvc = i[2]

CancelInv(i) == cancels[i].pc \in {"list", "patch"} => ops[i].status = "InProgress"

CallsInv   == \A c \in Calls : CallInv(c)
OpsInv     == \A i \in Items : OpInv(i)
CancelsInv == \A i \in Items : CancelInv(i)

\* The inductive invariant.  An id is never used again: a call or an operation
\* that holds the id of a deleted download is bound to nothing, and never to a
\* successor under the same name.
IInv == TypeOK /\ DownloadsInv /\ CallsInv /\ OpsInv /\ CancelsInv

LEMMA AnyPVCType == AnyPVC \in PVCs /\ NoID \in OperationIDs
  BY ItemsAssumption DEF AnyPVC, NoID, OperationIDs, Schemes

LEMMA NoCallType == NoCall \in CallStates /\ NoCall.pc = "idle"
  BY AnyPVCType, BoundsAssumption DEF NoCall, CallStates

LEMMA NoCancelType == NoCancel \in CancelStates /\ NoCancel.pc = "idle"
  BY BoundsAssumption DEF NoCancel, CancelStates

LEMMA NoOperationType ==
    NoOperation \in OperationStates /\ NoOperation.status = "none"
  BY AnyPVCType DEF NoOperation, OperationStates

LEMMA IdType ==
    ASSUME NEW p \in PVCs
    PROVE  /\ generateOperationID(p) \in OperationIDs
           /\ generateOperationID(p).pvc = p
           /\ generateDataDownloadName(p) \in [kind : {"dd"}, pvc : PVCs]
           /\ generateDataDownloadName(p).pvc = p
           /\ target(p) \in Targets
  BY DEF generateOperationID, generateDataDownloadName, OperationIDs, Schemes,
         Targets

LEMMA NewDownloadType ==
    ASSUME NEW id \in Nat, NEW uid \in UIDs, NEW p \in PVCs, NEW l \in Locations
    PROVE  /\ NewDownload(id, uid, p, l) \in Downloads
           /\ NewDownload(id, uid, p, l).id = id
           /\ NewDownload(id, uid, p, l).name = generateDataDownloadName(p)
           /\ NewDownload(id, uid, p, l).opID = generateOperationID(p)
           /\ Trackable(NewDownload(id, uid, p, l), uid, p, generateOperationID(p))
<1>1. VMOf[p] \in VMNames \cup {"other"}
  BY DEF VMNames
<1>2. SafeLabelValue(generateOperationID(p)) \in Schemes
  BY DEF SafeLabelValue, generateOperationID, Schemes
<1> QED
  BY <1>1, <1>2, IdType DEF NewDownload, Downloads, Running, Trackable

LEMMA InitIInv == Init => IInv
<1> SUFFICES ASSUME Init PROVE IInv
  OBVIOUS
<1>1. TypeOK
  BY NoCallType, NoCancelType, NoOperationType, BoundsAssumption
  DEF Init, TypeOK, UIDs
<1>2. DownloadsInv
  BY DEF Init, DownloadsInv
<1>3. CallsInv
  BY NoCallType DEF Init, CallsInv, CallInv
<1>4. OpsInv
  BY NoOperationType DEF Init, OpsInv, OpInv
<1>5. CancelsInv
  BY NoCancelType DEF Init, CancelsInv, CancelInv
<1> QED
  BY <1>1, <1>2, <1>3, <1>4, <1>5 DEF IInv

-------------------------------------------------------------------------------
(* What a DownloadsStep preserves.                                             *)

LEMMA DownloadsInvStep ==
    ASSUME TypeOK, DownloadsInv, DownloadsStep
    PROVE  DownloadsInv'
<1>1. CASE NothingAdded
  BY <1>1 DEF NothingAdded, DownloadsInv
<1>2. CASE OneChanged
  BY <1>2 DEF OneChanged, DownloadsInv, SameObject, Replace
<1>3. CASE OneCreated
  <2>1. PICK e \in Downloads : /\ e.id = nextId /\ e.opID.pvc = e.name.pvc
                               /\ \A d \in downloads : d.name # e.name
                               /\ downloads' = downloads \cup {e}
    BY <1>3 DEF OneCreated
  <2>2. nextId' = nextId + 1 /\ nextId \in Nat
    BY <1>3 DEF OneCreated, TypeOK
  <2>3. \A d \in downloads : d.id \in Nat /\ d.id < nextId
    BY DEF DownloadsInv, TypeOK, Downloads
  <2> QED
    BY <2>1, <2>2, <2>3 DEF DownloadsInv
<1> QED
  BY <1>1, <1>2, <1>3 DEF DownloadsStep

LEMMA BoundStep ==
    ASSUME TypeOK, DownloadsInv, DownloadsStep,
           NEW id \in Nat, NEW uid, NEW p, NEW opID, Bound(id, uid, p, opID)
    PROVE  /\ id < nextId'
           /\ \A d \in downloads' : d.id = id => Trackable(d, uid, p, opID)
<1>1. CASE NothingAdded
  BY <1>1 DEF NothingAdded, Bound
<1>2. CASE OneChanged
  BY <1>2 DEF OneChanged, Bound, SameObject, Trackable, Replace
<1>3. CASE OneCreated
  <2>1. nextId \in Nat
    BY DEF TypeOK
  <2> QED
    BY <1>3, <2>1 DEF OneCreated, Bound
<1> QED
  BY <1>1, <1>2, <1>3 DEF DownloadsStep

-------------------------------------------------------------------------------
(* Every step is a DownloadsStep.                                              *)

LEMMA CreateDownloads ==
    ASSUME IInv, NEW c \in Calls, createDataDownloadResource(c)
    PROVE  DownloadsStep
<1> DEFINE e == NewDownload(nextId, calls[c].uid, calls[c].pvc, calls[c].location)
<1>1. CASE UNCHANGED <<downloads, nextId>>
  BY <1>1 DEF DownloadsStep, NothingAdded
<1>2. CASE /\ Named(generateDataDownloadName(calls[c].pvc)) = {}
           /\ downloads' = downloads \cup {e}
           /\ nextId' = nextId + 1
  <2>1. /\ calls[c].uid \in UIDs /\ calls[c].pvc \in PVCs /\ nextId \in Nat
        /\ calls[c].location \in Locations
    BY DEF IInv, CallsInv, CallInv, TypeOK, CallStates, createDataDownloadResource
  <2>2. /\ e \in Downloads /\ e.id = nextId /\ e.opID.pvc = e.name.pvc
        /\ e.name = generateDataDownloadName(calls[c].pvc)
    BY <2>1, NewDownloadType, IdType
  <2>3. \A d \in downloads : d.name # e.name
    BY <1>2, <2>2 DEF Named
  <2> QED
    BY <1>2, <2>2, <2>3 DEF DownloadsStep, OneCreated
<1> QED
  BY <1>1, <1>2 DEF createDataDownloadResource

LEMMA ForeignShape ==
    ASSUME NEW b \in Downloads, NEW e,
           \/ \E s \in {"older", "none"} :
                 e = [b EXCEPT !.opID.scheme = s, !.opLabel = s]
           \/ e = [b EXCEPT !.owner = 0]
           \/ e = [b EXCEPT !.vm = "other"]
           \/ e = [b EXCEPT !.mover = "other"]
           \/ e = [b EXCEPT !.label = "other"]
           \/ e = [b EXCEPT !.opLabel = "older"]
    PROVE  /\ e \in Downloads /\ e.id = b.id /\ e.name = b.name
           /\ e.opID.pvc = b.opID.pvc
<1>1. ASSUME NEW s \in {"older", "none"},
             e = [b EXCEPT !.opID.scheme = s, !.opLabel = s]
      PROVE  /\ e \in Downloads /\ e.id = b.id /\ e.name = b.name
             /\ e.opID.pvc = b.opID.pvc
  <2>1. s \in Schemes /\ [b.opID EXCEPT !.scheme = s] \in OperationIDs
    BY DEF Downloads, OperationIDs, Schemes
  <2> QED
    BY <1>1, <2>1 DEF Downloads, OperationIDs
<1>2. CASE e = [b EXCEPT !.owner = 0]
  BY <1>2 DEF Downloads
<1>3. CASE e = [b EXCEPT !.vm = "other"]
  BY <1>3 DEF Downloads
<1>4. CASE e = [b EXCEPT !.mover = "other"]
  BY <1>4 DEF Downloads
<1>5. CASE e = [b EXCEPT !.label = "other"]
  BY <1>5 DEF Downloads
<1>6. CASE e = [b EXCEPT !.opLabel = "older"]
  BY <1>6 DEF Downloads, Schemes
<1> QED
  BY <1>1, <1>2, <1>3, <1>4, <1>5, <1>6

LEMMA ForeignStep ==
    ASSUME IInv, NEW p \in PVCs, NEW l \in Locations, ForeignCreate(p, l)
    PROVE  DownloadsStep
<1> DEFINE base == NewDownload(nextId, epoch, p, l)
<1>1. PICK e \in ForeignDownloads(p, l) : downloads' = downloads \cup {e}
  BY DEF ForeignCreate
<1>2. /\ nextId' = nextId + 1 /\ nextId \in Nat /\ epoch \in UIDs
      /\ Named(generateDataDownloadName(p)) = {}
  BY DEF ForeignCreate, IInv, TypeOK
<1>3. /\ base \in Downloads /\ base.id = nextId
      /\ base.name = generateDataDownloadName(p)
      /\ base.opID = generateOperationID(p)
  BY <1>2, NewDownloadType
<1>4. /\ e \in Downloads /\ e.id = nextId /\ e.name = base.name
      /\ e.opID.pvc = base.opID.pvc
  BY <1>1, <1>3, ForeignShape DEF ForeignDownloads
<1>5. e.opID.pvc = e.name.pvc
  BY <1>3, <1>4, IdType
<1> QED
  BY <1>1, <1>2, <1>3, <1>4, <1>5 DEF DownloadsStep, OneCreated, Named

\* What the controller writes: a phase, with or without a message.
LEMMA ChangedObject ==
    ASSUME NEW d \in Downloads, d.phase \in Running,
           NEW ph \in Running \cup Terminal, NEW m \in {"none", "conflict", "other"},
           NEW e, \/ e = [d EXCEPT !.phase = ph]
                  \/ e = [d EXCEPT !.phase = ph, !.message = m]
    PROVE  e \in Downloads /\ SameObject(d, e) /\ OutcomeKept(d, e)
<1>1. d.phase \notin Terminal
  BY DEF Running, Terminal
<1>2. CASE e = [d EXCEPT !.phase = ph]
  BY <1>1, <1>2 DEF Downloads, SameObject, OutcomeKept
<1>3. CASE e = [d EXCEPT !.phase = ph, !.message = m]
  BY <1>1, <1>3 DEF Downloads, SameObject, OutcomeKept
<1> QED
  BY <1>2, <1>3

LEMMA ControllerDownloads ==
    ASSUME IInv, NEW d \in downloads, ControllerSteps(d)
    PROVE  OneChanged
<1>1. /\ d \in Downloads /\ nextId' = nextId /\ d.phase \in Running
      /\ {"InProgress", "Failed", "Completed", "Canceled"}
             \subseteq Running \cup Terminal
  BY DEF IInv, TypeOK, ControllerSteps, ControllerWorks, ControllerBinds,
         ControllerCancels, Running, Terminal
<1>2. PICK ph \in {"InProgress", "Failed", "Completed", "Canceled"},
           m \in {"none", "conflict", "other"} :
          \/ Replace(d, [d EXCEPT !.phase = ph])
          \/ Replace(d, [d EXCEPT !.phase = ph, !.message = m])
  <2>1. CASE ControllerWorks(d)
    BY <2>1 DEF ControllerWorks
  <2>2. CASE ControllerBinds(d)
    BY <2>2 DEF ControllerBinds
  <2>3. CASE ControllerCancels(d)
    BY <2>3 DEF ControllerCancels
  <2> QED
    BY <2>1, <2>2, <2>3 DEF ControllerSteps
<1>3. PICK e : /\ \/ e = [d EXCEPT !.phase = ph]
                  \/ e = [d EXCEPT !.phase = ph, !.message = m]
               /\ Replace(d, e)
  BY <1>2
<1>4. e \in Downloads /\ SameObject(d, e) /\ OutcomeKept(d, e)
  BY <1>1, <1>3, ChangedObject
<1> QED
  BY <1>1, <1>3, <1>4 DEF OneChanged

LEMMA FlagDownloads ==
    ASSUME IInv, NEW d \in downloads, VMCancels(d)
    PROVE  OneChanged
<1>1. d \in Downloads
  BY DEF IInv, TypeOK
<1>2. /\ PatchedCancel(d) \in Downloads /\ SameObject(d, PatchedCancel(d))
      /\ OutcomeKept(d, PatchedCancel(d))
  BY <1>1 DEF PatchedCancel, Downloads, SameObject, OutcomeKept
<1> QED
  BY <1>2 DEF VMCancels, OneChanged

LEMMA PatchDownloads ==
    ASSUME IInv, NEW i \in Items, patchDataDownloadCancel(i)
    PROVE  /\ DownloadsStep
           /\ downloads' = downloads \/ OneChanged
           /\ \/ downloads' = downloads
              \/ \E d \in downloads : Replace(d, PatchedCancel(d))
<1>1. nextId' = nextId
  BY DEF patchDataDownloadCancel
<1>2. \/ downloads' = downloads
      \/ \E d \in downloads : Replace(d, PatchedCancel(d))
  BY DEF patchDataDownloadCancel, Named
<1>3. ASSUME NEW d \in downloads, Replace(d, PatchedCancel(d))
      PROVE  OneChanged
  <2>1. d \in Downloads
    BY DEF IInv, TypeOK
  <2>2. /\ PatchedCancel(d) \in Downloads /\ SameObject(d, PatchedCancel(d))
        /\ OutcomeKept(d, PatchedCancel(d))
    BY <2>1 DEF PatchedCancel, Downloads, SameObject, OutcomeKept
  <2> QED
    BY <1>1, <1>3, <2>2 DEF OneChanged
<1> QED
  BY <1>1, <1>2, <1>3 DEF DownloadsStep, NothingAdded

LEMMA NextDownloads ==
    ASSUME IInv, [Next]_vars
    PROVE  DownloadsStep
<1>1. CASE UNCHANGED <<downloads, nextId>>
  BY <1>1 DEF DownloadsStep, NothingAdded
<1>2. CASE ExecuteSteps
  <2>1. CASE \E c \in Calls : createDataDownloadResource(c)
    BY <2>1, CreateDownloads
  <2> QED
    BY <1>1, <1>2, <2>1
    DEF ExecuteSteps, ItemSteps, CallSteps, ExecuteOther, Execute, getBackup,
        getDataDownloadByName,
        Return, objects
<1>3. CASE OperationSteps
  <2>1. CASE \E i \in Items : patchDataDownloadCancel(i)
    BY <2>1, PatchDownloads
  <2> QED
    BY <1>1, <1>3, <2>1
    DEF OperationSteps, CancelSteps, Progress, Timeout, CancelLookup, objects
<1>4. CASE EnvironmentSteps
  <2>1. CASE \E p \in PVCs, l \in Locations : ForeignCreate(p, l)
    BY <2>1, ForeignStep
  <2>2. CASE \E d \in downloads : GarbageCollect(d) \/ ForeignDelete(d)
    BY <2>2 DEF GarbageCollect, ForeignDelete, DownloadsStep, NothingAdded
  <2>3. CASE \E d \in downloads : ControllerSteps(d)
    BY <2>3, ControllerDownloads DEF DownloadsStep
  <2>4. CASE \E d \in downloads : VMCancels(d)
    BY <2>4, FlagDownloads DEF DownloadsStep
  <2> QED
    BY <1>1, <1>4, <2>1, <2>2, <2>3, <2>4
    DEF EnvironmentSteps, ClusterSteps, Abandon, Crash, DeleteRestore,
        RecreateRestore, BackupChanges, Provision, objects
<1>5. CASE UNCHANGED vars
  BY <1>1, <1>5 DEF vars, objects
<1> QED
  BY <1>2, <1>3, <1>4, <1>5 DEF Next

-------------------------------------------------------------------------------
(* The type invariant is preserved.  DownloadsStep takes care of the downloads.*)

VeleroType == /\ calls \in [Calls -> CallStates]
              /\ ops \in [Items -> OperationStates]
              /\ cancels \in [Items -> CancelStates]
              /\ cached \in [UIDs -> Locations \cup {"unset", "absent"}]

ClusterType == /\ epoch \in UIDs /\ alive \in BOOLEAN
               /\ location \in Locations \cup {"unset", "absent"}

PVCsType == pvcs \subseteq PVCObjects

BudgetType == /\ faults \in [FaultKinds -> Nat] /\ meddled \in Nat
              /\ changes \in Nat /\ crashes \in Nat

BudgetStep == \/ UNCHANGED budget
              \/ Meddle
              \/ \E k \in FaultKinds : Spend(k)

LEMMA BudgetKept == ASSUME BudgetType, BudgetStep PROVE BudgetType'
  BY DEF BudgetType, BudgetStep, budget, Meddle, Spend

LEMMA FailCallType ==
    ASSUME TypeOK, NEW c \in Calls, FailCall(c)
    PROVE  calls' \in [Calls -> CallStates]
  BY NoCallType DEF TypeOK, FailCall

LEMMA CancelReturnsType ==
    ASSUME TypeOK, NEW i \in Items, CancelReturns(i)
    PROVE  /\ cancels' \in [Items -> CancelStates]
           /\ ops' \in [Items -> OperationStates]
<1>1. [NoCancel EXCEPT !.pc = "done"] \in CancelStates
  BY NoCancelType DEF CancelStates
<1>2. [ops EXCEPT ![i].status = "Failed"] \in [Items -> OperationStates]
  BY DEF TypeOK, OperationStates
<1> QED
  BY <1>1, <1>2 DEF TypeOK, CancelReturns

LEMMA StoreType ==
    ASSUME TypeOK, NEW uid \in UIDs, NEW p \in PVCs, NEW m \in Manifests,
           StorePVC(uid, p, m)
    PROVE  PVCsType'
<1> DEFINE o == [name |-> target(p), from |-> p, by |-> uid,
                 bindAnnotations |-> m.bindAnnotations /\ ~m.volumeName,
                 selector |-> m.selector, volume |-> {}]
<1>1. (m.bindAnnotations /\ ~m.volumeName) \in BOOLEAN /\ m.selector \in BOOLEAN
  BY DEF Manifests
<1>2. o \in PVCObjects
  BY <1>1, IdType DEF PVCObjects
<1>3. pvcs' \subseteq pvcs \cup {o}
  BY DEF StorePVC
<1> QED
  BY <1>2, <1>3 DEF TypeOK, PVCsType

LEMMA ManifestTypes ==
    ItemFromBackup \in Manifests /\ clearPVCBinding(ItemFromBackup) \in Manifests
  BY DEF ItemFromBackup, clearPVCBinding, Manifests

LEMMA UseLocationType ==
    ASSUME TypeOK, NEW c \in Calls, NEW l, UseLocation(c, l)
    PROVE  calls' \in [Calls -> CallStates]
<1>1. CASE FailCall(c)
  BY <1>1, FailCallType
<1>2. CASE /\ l \in Locations
           /\ calls' = [calls EXCEPT ![c] =
                  [@ EXCEPT !.pc = "create", !.location = l]]
  <2>1. [calls[c] EXCEPT !.pc = "create", !.location = l] \in CallStates
    BY <1>2 DEF TypeOK, CallStates
  <2> QED
    BY <1>2, <2>1 DEF TypeOK
<1> QED
  BY <1>1, <1>2 DEF UseLocation

LEMMA ExecuteTypes ==
    ASSUME IInv, ExecuteSteps
    PROVE  VeleroType' /\ PVCsType' /\ BudgetStep
<1> USE DEF VeleroType, PVCsType
<1>0. TypeOK /\ nextId \in Nat
  BY DEF IInv, TypeOK
<1>1. ASSUME NEW p \in PVCs, ExecuteOther(p)
      PROVE  VeleroType' /\ PVCsType' /\ BudgetStep
  BY <1>0, <1>1, StoreType, ManifestTypes
  DEF ExecuteOther, TypeOK, velero, BudgetStep
<1>2. ASSUME NEW c \in Calls, NEW p \in PVCs, Execute(c, p)
      PROVE  VeleroType' /\ PVCsType' /\ BudgetStep
  <2> DEFINE new == [NoCall EXCEPT !.pc = "backup", !.uid = epoch, !.pvc = p,
                                   !.attempt = 1, !.opID = generateOperationID(p)]
  <2>1. 1 \in 0..MaxCreateAttempts /\ epoch \in UIDs
    BY <1>0, BoundsAssumption DEF TypeOK
  <2>2. new \in CallStates
    BY <2>1, IdType, NoCallType DEF CallStates
  <2> QED
    BY <1>0, <1>2, <2>2 DEF Execute, TypeOK, objects, BudgetStep
<1>3. ASSUME NEW c \in Calls, getBackup(c)
      PROVE  VeleroType' /\ PVCsType' /\ BudgetStep
  <2>1. calls' \in [Calls -> CallStates]
    BY <1>0, <1>3, UseLocationType, FailCallType DEF getBackup
  <2>2. cached' \in [UIDs -> Locations \cup {"unset", "absent"}]
    BY <1>0, <1>3 DEF getBackup, TypeOK
  <2>3. BudgetStep
    BY <1>3 DEF getBackup, BudgetStep, FaultKinds
  <2> QED
    BY <1>0, <1>3, <2>1, <2>2, <2>3 DEF getBackup, TypeOK, objects
<1>4. ASSUME NEW c \in Calls, createDataDownloadResource(c)
      PROVE  VeleroType' /\ PVCsType' /\ BudgetStep
  <2>1. UNCHANGED <<ops, cancels, cached, pvcs>>
    BY <1>4 DEF createDataDownloadResource
  <2>2. BudgetStep
    BY <1>4 DEF createDataDownloadResource, BudgetStep, FaultKinds
  <2>3. \/ FailCall(c)
        \/ calls' = [calls EXCEPT ![c] = [@ EXCEPT !.pc = "return", !.id = nextId]]
        \/ calls' = [calls EXCEPT ![c].pc = "get"]
    BY <1>4 DEF createDataDownloadResource
  <2>4. calls' \in [Calls -> CallStates]
    <3>1. CASE FailCall(c)
      BY <1>0, <3>1, FailCallType
    <3>2. CASE calls' = [calls EXCEPT ![c] =
                   [@ EXCEPT !.pc = "return", !.id = nextId]]
      <4>1. [calls[c] EXCEPT !.pc = "return", !.id = nextId] \in CallStates
        BY <1>0 DEF TypeOK, CallStates
      <4> QED
        BY <1>0, <3>2, <4>1 DEF TypeOK
    <3>3. CASE calls' = [calls EXCEPT ![c].pc = "get"]
      BY <1>0, <3>3 DEF TypeOK, CallStates
    <3> QED
      BY <2>3, <3>1, <3>2, <3>3
  <2> QED
    BY <1>0, <2>1, <2>2, <2>4 DEF TypeOK
<1>5. ASSUME NEW c \in Calls, getDataDownloadByName(c)
      PROVE  VeleroType' /\ PVCsType' /\ BudgetStep
  <2>1. UNCHANGED <<ops, cancels, cached, pvcs>>
    BY <1>5 DEF getDataDownloadByName, objects
  <2>2. BudgetStep
    BY <1>5 DEF getDataDownloadByName, BudgetStep, FaultKinds
  <2>3. CASE FailCall(c)
    BY <1>0, <2>1, <2>2, <2>3, FailCallType DEF TypeOK
  <2>4. CASE /\ calls[c].attempt < MaxCreateAttempts
             /\ calls' = [calls EXCEPT ![c] =
                   [@ EXCEPT !.pc = "create", !.attempt = calls[c].attempt + 1]]
    <3>1. calls[c] \in CallStates /\ calls[c].attempt + 1 \in 0..MaxCreateAttempts
      BY <1>0, <2>4, BoundsAssumption DEF TypeOK, CallStates
    <3>2. [calls[c] EXCEPT !.pc = "create", !.attempt = calls[c].attempt + 1]
              \in CallStates
      BY <3>1 DEF CallStates
    <3> QED
      BY <1>0, <2>1, <2>2, <2>4, <3>2 DEF TypeOK
  <2>5. CASE \E d \in downloads : calls' = [calls EXCEPT ![c] =
                 [@ EXCEPT !.pc = "return", !.id = d.id, !.opID = d.opID]]
    <3>1. PICK d \in downloads : calls' = [calls EXCEPT ![c] =
              [@ EXCEPT !.pc = "return", !.id = d.id, !.opID = d.opID]]
      BY <2>5
    <3>2. calls[c] \in CallStates /\ d.id \in Nat /\ d.opID \in OperationIDs
      BY <1>0 DEF TypeOK, Downloads
    <3>3. [calls[c] EXCEPT !.pc = "return", !.id = d.id, !.opID = d.opID]
              \in CallStates
      BY <3>2 DEF CallStates
    <3> QED
      BY <1>0, <2>1, <2>2, <3>1, <3>3 DEF TypeOK
  <2> QED
    BY <1>5, <2>3, <2>4, <2>5 DEF getDataDownloadByName, Named
<1>6. ASSUME NEW c \in Calls, Return(c)
      PROVE  VeleroType' /\ PVCsType' /\ BudgetStep
  <2> DEFINE op == [status |-> "InProgress", opID |-> calls[c].opID,
                    id |-> calls[c].id]
  <2>1. calls[c] \in CallStates /\ op \in OperationStates
    BY <1>0 DEF TypeOK, CallStates, OperationStates
  <2>2. ops' \in [Items -> OperationStates]
    BY <1>0, <1>6, <2>1 DEF Return, TypeOK
  <2>3. calls[c].uid \in UIDs /\ calls[c].pvc \in PVCs
    BY <1>6, <2>1 DEF Return, IInv, CallsInv, CallInv, CallStates
  <2>4. PVCsType'
    BY <1>0, <1>6, <2>3, StoreType, ManifestTypes DEF Return, TypeOK
  <2> QED
    BY <1>0, <1>6, <2>2, <2>4, NoCallType DEF Return, TypeOK, BudgetStep
<1> QED
  BY <1>1, <1>2, <1>3, <1>4, <1>5, <1>6 DEF ExecuteSteps, ItemSteps, CallSteps

LEMMA OperationTypes ==
    ASSUME IInv, OperationSteps
    PROVE  VeleroType' /\ BudgetStep
<1> USE DEF VeleroType
<1>0. TypeOK /\ \A d \in downloads : d \in Downloads
  BY DEF IInv, TypeOK
<1>1. ASSUME NEW i \in Items, Progress(i)
      PROVE  VeleroType' /\ BudgetStep
  <2>1. PICK st : /\ st = "Failed" \/ \E d \in downloads : st = ProgressOf(d)
                  /\ ops' = [ops EXCEPT ![i].status = st]
    BY <1>1 DEF Progress, WithOperationID
  <2>2. st \in {"InProgress", "Completed", "Failed"}
    BY <1>0, <2>1 DEF ProgressOf, Downloads, Terminal
  <2>3. ops' \in [Items -> OperationStates]
    BY <1>0, <2>1, <2>2 DEF TypeOK, OperationStates
  <2>4. BudgetStep
    BY <1>1 DEF Progress, BudgetStep, FaultKinds
  <2> QED
    BY <1>0, <1>1, <2>3, <2>4 DEF Progress, TypeOK
<1>2. ASSUME NEW i \in Items, Timeout(i)
      PROVE  VeleroType' /\ BudgetStep
  BY <1>0, <1>2 DEF Timeout, TypeOK, CancelStates, BudgetStep
<1>3. ASSUME NEW i \in Items, CancelLookup(i)
      PROVE  VeleroType' /\ BudgetStep
  <2>1. UNCHANGED <<calls, cached>> /\ BudgetStep
    BY <1>3 DEF CancelLookup, BudgetStep, FaultKinds
  <2>2. CASE CancelReturns(i)
    BY <1>0, <2>1, <2>2, CancelReturnsType DEF TypeOK
  <2>3. CASE /\ \E d \in downloads : cancels' = [cancels EXCEPT ![i] =
                   [@ EXCEPT !.pc = "patch", !.found = {d.name}]]
             /\ UNCHANGED ops
    <3>1. PICK d \in downloads : cancels' = [cancels EXCEPT ![i] =
              [@ EXCEPT !.pc = "patch", !.found = {d.name}]]
      BY <2>3
    <3>2. d.name \in [kind : {"dd"}, pvc : PVCs]
      BY <1>0 DEF Downloads
    <3>3. [cancels[i] EXCEPT !.pc = "patch", !.found = {d.name}] \in CancelStates
      BY <1>0, <3>2 DEF TypeOK, CancelStates
    <3> QED
      BY <1>0, <2>1, <2>3, <3>1, <3>3 DEF TypeOK
  <2> QED
    BY <1>3, <2>2, <2>3 DEF CancelLookup, WithOperationID
<1>4. ASSUME NEW i \in Items, patchDataDownloadCancel(i)
      PROVE  VeleroType' /\ BudgetStep
  <2>1. UNCHANGED <<calls, cached>> /\ BudgetStep
    BY <1>4 DEF patchDataDownloadCancel, BudgetStep, FaultKinds
  <2>2. CASE CancelReturns(i)
    BY <1>0, <2>1, <2>2, CancelReturnsType DEF TypeOK
  <2>3. ASSUME NEW cost \in Nat, AttemptFails(i, cost)
        PROVE  VeleroType'
    <3>1. CASE /\ cancels[i].tries + 1 < PatchSteps
               /\ cancels' = [cancels EXCEPT ![i] =
                     [@ EXCEPT !.tries = cancels[i].tries + 1,
                               !.spent = cancels[i].spent + cost]]
               /\ UNCHANGED ops
      <4>1. /\ cancels[i] \in CancelStates
            /\ cancels[i].tries + 1 \in 0..(PatchSteps - 1)
            /\ cancels[i].spent + cost \in Nat
        BY <1>0, <3>1, BoundsAssumption DEF TypeOK, CancelStates
      <4>2. [cancels[i] EXCEPT !.tries = cancels[i].tries + 1,
                               !.spent = cancels[i].spent + cost]
                \in CancelStates
        BY <4>1 DEF CancelStates
      <4> QED
        BY <1>0, <2>1, <3>1, <4>2 DEF TypeOK
    <3> QED
      BY <1>0, <2>1, <2>2, <2>3, <3>1 DEF AttemptFails
  <2>4. 0 \in Nat /\ CallTimeout \in Nat
    BY BoundsAssumption
  <2> QED
    BY <1>4, <2>1, <2>2, <2>3, <2>4 DEF patchDataDownloadCancel
<1> QED
  BY <1>1, <1>2, <1>3, <1>4 DEF OperationSteps, CancelSteps

LEMMA VolumeType ==
    ASSUME NEW o \in PVCObjects, NEW u \in {0, Provisioner} \cup UIDs, NEW p \in PVCs
    PROVE  [o EXCEPT !.volume = {<<u, p>>}] \in PVCObjects
  BY DEF PVCObjects

LEMMA EnvironmentTypes ==
    ASSUME IInv, EnvironmentSteps
    PROVE  VeleroType' /\ ClusterType' /\ PVCsType' /\ BudgetType'
<1> USE DEF VeleroType, ClusterType, PVCsType
<1>0. TypeOK /\ VeleroType /\ ClusterType /\ PVCsType /\ BudgetType
  BY DEF IInv, TypeOK, BudgetType
<1>1. ASSUME NEW c \in Calls, Abandon(c)
      PROVE  VeleroType' /\ ClusterType' /\ PVCsType' /\ BudgetStep
  <2>1. [calls[c] EXCEPT !.abandoned = TRUE] \in CallStates
    BY <1>0 DEF CallStates
  <2> QED
    BY <1>0, <1>1, <2>1 DEF Abandon, objects, BudgetStep
<1>2. CASE Crash
  <2>1. calls' \in [Calls -> CallStates] /\ cancels' \in [Items -> CancelStates]
    BY <1>0, <1>2, NoCallType, NoCancelType DEF Crash
  <2>2. cached' \in [UIDs -> Locations \cup {"unset", "absent"}]
    BY <1>2 DEF Crash
  <2> QED
    BY <1>0, <1>2, <2>1, <2>2 DEF Crash, objects, BudgetType
<1>3. CASE DeleteRestore \/ RecreateRestore
  <2>1. epoch' \in UIDs /\ alive' \in BOOLEAN
    <3>1. CASE DeleteRestore
      BY <1>0, <3>1 DEF DeleteRestore
    <3>2. CASE RecreateRestore
      BY <1>0, <3>2, BoundsAssumption DEF RecreateRestore, UIDs
    <3> QED
      BY <1>3, <3>1, <3>2
  <2> QED
    BY <1>0, <1>3, <2>1, BudgetKept
    DEF DeleteRestore, RecreateRestore, velero, BudgetStep
<1>4. CASE BackupChanges
  <2>1. location' \in Locations \cup {"unset", "absent"}
    BY <1>4 DEF BackupChanges
  <2> QED
    BY <1>0, <1>4, <2>1 DEF BackupChanges, velero, BudgetType
<1>5. ASSUME NEW o \in pvcs, Provision(o)
      PROVE  VeleroType' /\ ClusterType' /\ PVCsType' /\ BudgetStep
  <2>1. o \in PVCObjects /\ o.from \in PVCs
    BY <1>0 DEF PVCObjects
  <2>2. [o EXCEPT !.volume = {<<Provisioner, o.from>>}] \in PVCObjects
    BY <2>1, VolumeType
  <2> QED
    BY <1>0, <1>5, <2>2 DEF Provision, velero, BudgetStep
<1>6. ASSUME NEW d \in downloads, ControllerBinds(d)
      PROVE  VeleroType' /\ ClusterType' /\ PVCsType' /\ BudgetStep
  <2>1. d.owner \in {0, Provisioner} \cup UIDs /\ d.pvc \in PVCs
    BY <1>0 DEF TypeOK, Downloads
  <2>2. \A o \in pvcs : [o EXCEPT !.volume = {<<d.owner, d.pvc>>}] \in PVCObjects
    BY <1>0, <2>1, VolumeType
  <2> QED
    BY <1>0, <1>6, <2>2 DEF ControllerBinds, Stored, velero, BudgetStep
<1>7. CASE \/ \E p \in PVCs, l \in Locations : ForeignCreate(p, l)
           \/ \E d \in downloads : \/ GarbageCollect(d) \/ ForeignDelete(d)
                                   \/ ControllerWorks(d) \/ ControllerCancels(d)
                                   \/ VMCancels(d)
  <2>1. UNCHANGED <<epoch, alive, location, pvcs, cached, velero>> /\ BudgetStep
    BY <1>7 DEF ForeignCreate, GarbageCollect, ForeignDelete, ControllerWorks,
                ControllerCancels, VMCancels, BudgetStep
  <2> QED
    BY <1>0, <2>1, BudgetKept DEF velero
<1> QED
  BY <1>0, <1>1, <1>2, <1>3, <1>4, <1>5, <1>6, <1>7, BudgetKept
  DEF EnvironmentSteps, ClusterSteps, ControllerSteps

LEMMA TypeStep ==
    ASSUME IInv, [Next]_vars
    PROVE  TypeOK'
<1>0. VeleroType /\ ClusterType /\ PVCsType /\ BudgetType
  BY DEF IInv, TypeOK, VeleroType, ClusterType, PVCsType, BudgetType
<1>1. downloads' \subseteq Downloads /\ nextId' \in Nat
  BY NextDownloads
  DEF IInv, TypeOK, DownloadsStep, NothingAdded, OneChanged, OneCreated, Replace
<1>2. VeleroType' /\ ClusterType' /\ PVCsType' /\ BudgetType'
  <2>1. CASE UNCHANGED vars
    BY <1>0, <2>1 DEF vars, objects, velero, budget, VeleroType, ClusterType,
                      PVCsType, BudgetType
  <2>2. CASE ExecuteSteps
    <3>1. UNCHANGED <<epoch, alive, location>>
      BY <2>2 DEF ExecuteSteps, ItemSteps, CallSteps, ExecuteOther, Execute,
                  getBackup,
                  createDataDownloadResource, getDataDownloadByName, Return,
                  objects
    <3> QED
      BY <1>0, <2>2, <3>1, ExecuteTypes, BudgetKept DEF ClusterType
  <2>3. CASE OperationSteps
    <3>1. UNCHANGED <<epoch, alive, location, pvcs>>
      BY <2>3 DEF OperationSteps, CancelSteps, Progress, Timeout, CancelLookup,
                  patchDataDownloadCancel, objects
    <3> QED
      BY <1>0, <2>3, <3>1, OperationTypes, BudgetKept DEF ClusterType, PVCsType
  <2> QED
    BY <2>1, <2>2, <2>3, EnvironmentTypes DEF Next
<1> QED
  BY <1>1, <1>2 DEF TypeOK, VeleroType, ClusterType, PVCsType, BudgetType

-------------------------------------------------------------------------------
(* Calls and operations stay bound to their downloads.                         *)

LEMMA CallFrame ==
    ASSUME IInv, DownloadsStep, NEW c \in Calls,
           \/ calls'[c] = NoCall
           \/ /\ calls'[c].pc = calls[c].pc /\ calls'[c].uid = calls[c].uid
              /\ calls'[c].pvc = calls[c].pvc /\ calls'[c].opID = calls[c].opID
              /\ calls'[c].id = calls[c].id
              /\ calls'[c].location = calls[c].location
    PROVE  CallInv(c)'
<1>1. CASE calls'[c] = NoCall
  BY <1>1, NoCallType DEF CallInv
<1>2. CASE calls'[c].pc = "return" /\ calls[c].pc = "return"
  <2>1. /\ Bound(calls[c].id, calls[c].uid, calls[c].pvc, calls[c].opID)
        /\ calls[c].id \in Nat /\ calls[c].uid \in UIDs
        /\ calls[c].opID.pvc = calls[c].pvc
    BY <1>2 DEF IInv, CallsInv, CallInv, TypeOK, CallStates
  <2>2. /\ calls[c].id < nextId'
        /\ \A d \in downloads' : d.id = calls[c].id =>
              Trackable(d, calls[c].uid, calls[c].pvc, calls[c].opID)
    BY <2>1, BoundStep DEF IInv
  <2>3. /\ calls'[c].uid = calls[c].uid /\ calls'[c].pvc = calls[c].pvc
        /\ calls'[c].opID = calls[c].opID /\ calls'[c].id = calls[c].id
    BY <1>2, NoCallType
  <2> QED
    BY <1>2, <2>1, <2>2, <2>3 DEF CallInv, Bound, Trackable
<1> QED
  BY <1>1, <1>2 DEF IInv, CallsInv, CallInv

LEMMA OpFrame ==
    ASSUME IInv, DownloadsStep, NEW i \in Items,
           \/ ops'[i].status = "none"
           \/ /\ ops[i].status # "none"
              /\ ops'[i].id = ops[i].id /\ ops'[i].opID = ops[i].opID
    PROVE  OpInv(i)'
<1>1. CASE /\ ops[i].status # "none"
           /\ ops'[i].id = ops[i].id /\ ops'[i].opID = ops[i].opID
  <2>1. /\ Bound(ops[i].id, i[1], i[2], ops[i].opID) /\ ops[i].id \in Nat
        /\ ops[i].opID.pvc = i[2]
    BY <1>1 DEF IInv, OpsInv, OpInv, TypeOK, OperationStates
  <2> QED
    BY <1>1, <2>1, BoundStep DEF IInv, OpInv, Bound, Trackable
<1> QED
  BY <1>1 DEF OpInv

LEMMA BackupCall ==
    ASSUME IInv, DownloadsStep, NEW c \in Calls, getBackup(c)
    PROVE  CallInv(c)'
<1>0. /\ calls \in [Calls -> CallStates] /\ CallInv(c) /\ calls[c].pc = "backup"
  BY DEF IInv, TypeOK, CallsInv, getBackup
<1>1. CASE FailCall(c)
  BY <1>0, <1>1, CallFrame DEF FailCall
<1>2. ASSUME NEW l \in Locations,
             calls' = [calls EXCEPT ![c] =
                 [@ EXCEPT !.pc = "create", !.location = l]]
      PROVE  CallInv(c)'
  <2>1. /\ calls'[c].pc = "create" /\ calls'[c].location = l
        /\ calls'[c].uid = calls[c].uid /\ calls'[c].pvc = calls[c].pvc
        /\ calls'[c].opID = calls[c].opID
    BY <1>0, <1>2 DEF CallStates
  <2> QED
    BY <1>0, <2>1 DEF CallInv
<1> QED
  BY <1>1, <1>2 DEF getBackup, UseLocation

LEMMA CreateCall ==
    ASSUME IInv, DownloadsStep, NEW c \in Calls, createDataDownloadResource(c)
    PROVE  CallInv(c)'
<1>0. /\ calls \in [Calls -> CallStates] /\ nextId \in Nat /\ CallInv(c)
      /\ calls[c].pc = "create"
  BY DEF IInv, TypeOK, CallsInv, createDataDownloadResource
<1>1. CASE FailCall(c)
  BY <1>0, <1>1, CallFrame DEF FailCall
<1>2. CASE calls' = [calls EXCEPT ![c].pc = "get"]
  <2>1. /\ calls'[c].pc = "get" /\ calls'[c].location = calls[c].location
        /\ calls'[c].uid = calls[c].uid /\ calls'[c].pvc = calls[c].pvc
        /\ calls'[c].opID = calls[c].opID
    BY <1>0, <1>2 DEF CallStates
  <2> QED
    BY <1>0, <2>1 DEF CallInv
<1>3. CASE /\ calls' = [calls EXCEPT ![c] =
                  [@ EXCEPT !.pc = "return", !.id = nextId]]
           /\ downloads' = downloads \cup
                  {NewDownload(nextId, calls[c].uid, calls[c].pvc,
                               calls[c].location)}
           /\ nextId' = nextId + 1
  <2> DEFINE e == NewDownload(nextId, calls[c].uid, calls[c].pvc,
                              calls[c].location)
  <2>1. /\ calls[c].uid \in UIDs /\ calls[c].pvc \in PVCs
        /\ calls[c].location \in Locations
        /\ calls[c].opID = generateOperationID(calls[c].pvc)
        /\ calls[c].opID.pvc = calls[c].pvc
    BY <1>0 DEF CallInv, CallStates
  <2>2. Trackable(e, calls[c].uid, calls[c].pvc, calls[c].opID)
    BY <1>0, <2>1, NewDownloadType
  <2>3. \A d \in downloads : d.id # nextId
    <3>1. nextId \in Nat /\ \A d \in downloads : d.id < nextId
      BY <1>0 DEF IInv, DownloadsInv, TypeOK
    <3> QED
      BY <3>1
  <2>4. \A d \in downloads' : d.id = nextId => d = e
    BY <1>3, <2>3
  <2>5. /\ calls'[c].pc = "return" /\ calls'[c].uid = calls[c].uid
        /\ calls'[c].pvc = calls[c].pvc /\ calls'[c].opID = calls[c].opID
        /\ calls'[c].id = nextId
    BY <1>0, <1>3 DEF CallStates
  <2>6. nextId < nextId'
    BY <1>0, <1>3
  <2> QED
    BY <2>1, <2>2, <2>4, <2>5, <2>6 DEF CallInv, Bound, Trackable
<1> QED
  BY <1>1, <1>2, <1>3 DEF createDataDownloadResource

LEMMA AdoptCall ==
    ASSUME IInv, DownloadsStep, NEW c \in Calls, getDataDownloadByName(c)
    PROVE  CallInv(c)'
<1>0. /\ calls \in [Calls -> CallStates] /\ CallInv(c) /\ calls[c].pc = "get"
      /\ downloads' = downloads /\ nextId' = nextId
  BY DEF IInv, TypeOK, CallsInv, getDataDownloadByName, objects
<1>1. CASE FailCall(c)
  BY <1>0, <1>1, CallFrame DEF FailCall
<1>2. CASE calls' = [calls EXCEPT ![c] =
               [@ EXCEPT !.pc = "create", !.attempt = calls[c].attempt + 1]]
  <2>1. /\ calls'[c].pc = "create" /\ calls'[c].location = calls[c].location
        /\ calls'[c].uid = calls[c].uid /\ calls'[c].pvc = calls[c].pvc
        /\ calls'[c].opID = calls[c].opID
    BY <1>0, <1>2 DEF CallStates
  <2> QED
    BY <1>0, <2>1 DEF CallInv
<1>3. ASSUME NEW d \in Named(generateDataDownloadName(calls[c].pvc)),
             validateAdoptableDataDownload(d, calls[c]),
             calls' = [calls EXCEPT ![c] =
                 [@ EXCEPT !.pc = "return", !.id = d.id, !.opID = d.opID]]
      PROVE  CallInv(c)'
  <2>1. Trackable(d, calls[c].uid, calls[c].pvc, d.opID)
    BY <1>3 DEF Named, validateAdoptableDataDownload, hasOwnerUID, Trackable
  <2>2. Bound(d.id, calls[c].uid, calls[c].pvc, d.opID)
    BY <1>3, <2>1 DEF IInv, DownloadsInv, Bound, Named
  <2>3. d.opID.pvc = calls[c].pvc
    BY <1>3 DEF IInv, DownloadsInv, Named, generateDataDownloadName
  <2>4. /\ calls'[c].pc = "return" /\ calls'[c].uid = calls[c].uid
        /\ calls'[c].pvc = calls[c].pvc /\ calls'[c].opID = d.opID
        /\ calls'[c].id = d.id
    BY <1>0, <1>3 DEF CallStates
  <2> QED
    BY <1>0, <2>2, <2>3, <2>4 DEF CallInv, Bound, Trackable
<1> QED
  BY <1>1, <1>2, <1>3 DEF getDataDownloadByName

LEMMA CallsStep ==
    ASSUME IInv, [Next]_vars, DownloadsStep
    PROVE  CallsInv'
<1> SUFFICES ASSUME NEW e \in Calls PROVE CallInv(e)'
  BY DEF CallsInv
<1>0. calls \in [Calls -> CallStates]
  BY DEF IInv, TypeOK
<1>1. CASE calls'[e] = calls[e]
  BY <1>1, CallFrame
<1>2. ASSUME NEW c \in Calls, NEW p \in PVCs, Execute(c, p)
      PROVE  CallInv(e)'
  <2>1. CASE e = c
    <3>1. /\ calls'[c].pc = "backup" /\ calls'[c].uid = epoch
          /\ calls'[c].pvc = p /\ calls'[c].opID = generateOperationID(p)
      BY <1>0, <1>2 DEF Execute, NoCall
    <3>2. epoch \in UIDs
      BY DEF IInv, TypeOK
    <3> QED
      BY <2>1, <3>1, <3>2, IdType DEF CallInv
  <2> QED
    BY <1>0, <1>1, <1>2, <2>1 DEF Execute
<1>3. ASSUME NEW c \in Calls,
             \/ getBackup(c)
             \/ createDataDownloadResource(c)
             \/ getDataDownloadByName(c)
      PROVE  CallInv(e)'
  <2>1. e # c => calls'[e] = calls[e]
    BY <1>0, <1>3 DEF getBackup, UseLocation, createDataDownloadResource,
                      getDataDownloadByName, FailCall
  <2> QED
    BY <1>1, <1>3, <2>1, BackupCall, CreateCall, AdoptCall
<1>4. ASSUME NEW c \in Calls, Return(c)
      PROVE  CallInv(e)'
  <2>1. calls'[e] = calls[e] \/ calls'[e] = NoCall
    BY <1>0, <1>4 DEF Return
  <2> QED
    BY <2>1, CallFrame
<1>5. CASE ExecuteSteps
  BY <1>1, <1>2, <1>3, <1>4, <1>5 DEF ExecuteSteps, ItemSteps, CallSteps,
                                      ExecuteOther, velero
<1>6. CASE OperationSteps
  BY <1>1, <1>6 DEF OperationSteps, CancelSteps, Progress, Timeout, CancelLookup,
                    patchDataDownloadCancel
<1>7. CASE EnvironmentSteps
  <2>1. ASSUME NEW c \in Calls, Abandon(c)
        PROVE  CallInv(e)'
    <3>1. /\ calls'[e].pc = calls[e].pc /\ calls'[e].uid = calls[e].uid
          /\ calls'[e].pvc = calls[e].pvc /\ calls'[e].opID = calls[e].opID
          /\ calls'[e].id = calls[e].id
          /\ calls'[e].location = calls[e].location
      BY <1>0, <2>1 DEF Abandon, CallStates
    <3> QED
      BY <3>1, CallFrame
  <2>2. CASE Crash
    BY <2>2, CallFrame DEF Crash
  <2>3. CASE UNCHANGED calls
    BY <1>1, <2>3
  <2> QED
    BY <1>7, <2>1, <2>2, <2>3
    DEF EnvironmentSteps, ClusterSteps, VMCancels, DeleteRestore,
        RecreateRestore, BackupChanges,
        ForeignCreate, GarbageCollect, ForeignDelete, ControllerSteps,
        ControllerWorks, ControllerBinds, ControllerCancels, Provision, velero
<1>8. CASE UNCHANGED vars
  BY <1>1, <1>8 DEF vars, velero
<1> QED
  BY <1>5, <1>6, <1>7, <1>8 DEF Next

LEMMA OpsStep ==
    ASSUME IInv, [Next]_vars, DownloadsStep
    PROVE  OpsInv'
<1> SUFFICES ASSUME NEW j \in Items PROVE OpInv(j)'
  BY DEF OpsInv
<1>0. ops \in [Items -> OperationStates]
  BY DEF IInv, TypeOK
<1>1. CASE ops'[j] = ops[j]
  BY <1>1, OpFrame
<1>2. ASSUME NEW i \in Items, ops[i].status # "none",
             NEW st, ops' = [ops EXCEPT ![i].status = st]
      PROVE  OpInv(j)'
  <2>1. CASE i = j
    <3>1. ops'[j].id = ops[j].id /\ ops'[j].opID = ops[j].opID
      BY <1>0, <1>2, <2>1 DEF OperationStates
    <3> QED
      BY <1>2, <2>1, <3>1, OpFrame
  <2> QED
    BY <1>0, <1>1, <1>2, <2>1
<1>3. ASSUME NEW c \in Calls, Return(c)
      PROVE  OpInv(j)'
  <2> DEFINE item == <<calls[c].uid, calls[c].pvc>>
  <2>1. /\ Bound(calls[c].id, calls[c].uid, calls[c].pvc, calls[c].opID)
        /\ item[1] = calls[c].uid /\ item[2] = calls[c].pvc
        /\ calls[c].opID.pvc = calls[c].pvc
        /\ downloads' = downloads /\ nextId' = nextId
    BY <1>3 DEF Return, IInv, CallsInv, CallInv
  <2>2. CASE /\ j = item
             /\ ops' = [ops EXCEPT ![item] =
                   [status |-> "InProgress", opID |-> calls[c].opID,
                    id |-> calls[c].id]]
    <3>1. ops'[j].id = calls[c].id /\ ops'[j].opID = calls[c].opID
      BY <1>0, <2>2
    <3> QED
      BY <2>1, <2>2, <3>1 DEF OpInv, Bound, Trackable
  <2> QED
    BY <1>0, <1>1, <1>3, <2>2 DEF Return
<1>4. CASE ExecuteSteps
  <2>1. CASE UNCHANGED ops
    BY <1>1, <2>1
  <2> QED
    BY <1>3, <1>4, <2>1
    DEF ExecuteSteps, ItemSteps, CallSteps, ExecuteOther, Execute, getBackup,
        createDataDownloadResource, getDataDownloadByName, velero
<1>5. CASE EnvironmentSteps
  BY <1>1, <1>5
  DEF EnvironmentSteps, ClusterSteps, VMCancels, Abandon, Crash,
      DeleteRestore, RecreateRestore,
      BackupChanges, ForeignCreate, GarbageCollect, ForeignDelete,
      ControllerSteps, ControllerWorks, ControllerBinds, ControllerCancels,
      Provision, velero
<1>6. CASE OperationSteps
  <2>1. ASSUME NEW i \in Items, Progress(i)
        PROVE  OpInv(j)'
    <3>1. ops[i].status # "none"
      BY <2>1 DEF Progress, Polled
    <3> QED
      BY <1>2, <2>1, <3>1 DEF Progress
  <2>2. ASSUME NEW i \in Items, CancelSteps(i)
        PROVE  OpInv(j)'
    <3>1. ops[i].status # "none"
      BY <2>2 DEF IInv, CancelsInv, CancelInv, CancelSteps, CancelLookup,
                  patchDataDownloadCancel
    <3>2. CASE UNCHANGED ops
      BY <1>1, <3>2
    <3>3. CASE CancelReturns(i)
      BY <1>2, <3>1, <3>3 DEF CancelReturns
    <3> QED
      BY <2>2, <3>2, <3>3
      DEF CancelSteps, CancelLookup, patchDataDownloadCancel, AttemptFails
  <2>3. CASE \E i \in Items : Timeout(i)
    BY <1>1, <2>3 DEF Timeout
  <2> QED
    BY <1>6, <2>1, <2>2, <2>3 DEF OperationSteps
<1>7. CASE UNCHANGED vars
  BY <1>1, <1>7 DEF vars, velero
<1> QED
  BY <1>4, <1>5, <1>6, <1>7 DEF Next

LEMMA CancelsStep ==
    ASSUME IInv, [Next]_vars
    PROVE  CancelsInv'
<1> SUFFICES ASSUME NEW j \in Items PROVE CancelInv(j)'
  BY DEF CancelsInv
<1>0. /\ ops \in [Items -> OperationStates]
      /\ cancels \in [Items -> CancelStates]
      /\ CancelInv(j)
  BY DEF IInv, TypeOK, CancelsInv
<1>1. CASE ops'[j] = ops[j] /\ cancels'[j] = cancels[j]
  BY <1>0, <1>1 DEF CancelInv
<1>2. CASE ExecuteSteps
  <2>1. cancels' = cancels
    BY <1>2 DEF ExecuteSteps, ItemSteps, CallSteps, ExecuteOther, Execute,
                getBackup,
                createDataDownloadResource, getDataDownloadByName, Return, velero
  <2>2. CASE UNCHANGED ops
    BY <1>1, <2>1, <2>2
  <2>3. ASSUME NEW c \in Calls, Return(c)
        PROVE  ops'[j] = ops[j] \/ ops'[j].status = "InProgress"
    BY <1>0, <2>3 DEF Return
  <2>4. CASE ops'[j].status = "InProgress"
    BY <2>4 DEF CancelInv
  <2> QED
    BY <1>1, <1>2, <2>1, <2>2, <2>3, <2>4
    DEF ExecuteSteps, ItemSteps, CallSteps, ExecuteOther, Execute, getBackup,
        createDataDownloadResource, getDataDownloadByName, velero
<1>3. CASE OperationSteps
  <2>1. ASSUME NEW i \in Items, Progress(i)
        PROVE  CancelInv(j)'
    <3>1. CASE i = j
      BY <2>1, <3>1 DEF Progress, Polled, CancelInv
    <3> QED
      BY <1>0, <1>1, <2>1, <3>1 DEF Progress
  <2>2. ASSUME NEW i \in Items, Timeout(i)
        PROVE  CancelInv(j)'
    <3>1. CASE i = j
      BY <2>2, <3>1 DEF Timeout, Polled, CancelInv
    <3> QED
      BY <1>0, <1>1, <2>2, <3>1 DEF Timeout
  <2>3. ASSUME NEW i \in Items, CancelSteps(i)
        PROVE  CancelInv(j)'
    <3>1. CASE CancelReturns(i)
      <4>1. CASE i = j
        BY <1>0, <3>1, <4>1, NoCancelType DEF CancelReturns, CancelStates, CancelInv
      <4> QED
        BY <1>0, <1>1, <3>1, <4>1 DEF CancelReturns
    <3>2. CASE UNCHANGED ops
      <4>1. cancels[i].pc \in {"list", "patch"}
        BY <2>3 DEF CancelSteps, CancelLookup, patchDataDownloadCancel
      <4>2. CASE i = j
        BY <1>0, <3>2, <4>1, <4>2 DEF CancelInv
      <4>3. CASE i # j /\ ~CancelReturns(i)
        <5>1. cancels'[j] = cancels[j]
          BY <1>0, <2>3, <4>3 DEF CancelSteps, CancelLookup,
                 patchDataDownloadCancel, AttemptFails
        <5> QED
          BY <1>1, <3>2, <5>1
      <4> QED
        BY <3>1, <4>2, <4>3
    <3> QED
      BY <2>3, <3>1, <3>2
      DEF CancelSteps, CancelLookup, patchDataDownloadCancel, AttemptFails
  <2> QED
    BY <1>3, <2>1, <2>2, <2>3 DEF OperationSteps
<1>4. CASE EnvironmentSteps
  <2>1. CASE Crash
    BY <1>0, <2>1, NoCancelType DEF Crash, CancelInv
  <2>2. CASE UNCHANGED <<ops, cancels>>
    BY <1>1, <2>2
  <2> QED
    BY <1>4, <2>1, <2>2
    DEF EnvironmentSteps, ClusterSteps, VMCancels, Abandon,
        DeleteRestore, RecreateRestore,
        BackupChanges, ForeignCreate, GarbageCollect, ForeignDelete,
        ControllerSteps, ControllerWorks, ControllerBinds, ControllerCancels,
        Provision, velero
<1>5. CASE UNCHANGED vars
  BY <1>1, <1>5 DEF vars, velero
<1> QED
  BY <1>2, <1>3, <1>4, <1>5 DEF Next

-------------------------------------------------------------------------------
(* The theorems that rest on the invariant.                                    *)

LEMMA Inductive == IInv /\ [Next]_vars => IInv'
<1> SUFFICES ASSUME IInv, [Next]_vars PROVE IInv'
  OBVIOUS
<1>1. DownloadsStep
  BY NextDownloads
<1>2. DownloadsInv'
  BY <1>1, DownloadsInvStep DEF IInv
<1> QED
  BY <1>1, <1>2, TypeStep, CallsStep, OpsStep, CancelsStep DEF IInv

LEMMA Invariance == Spec => []IInv
  BY InitIInv, Inductive, PTL DEF Spec

\* The variables keep their types whatever the calls, the cluster and Velero do.
THEOREM TypeCorrect == Spec => []TypeOK
<1>1. IInv => TypeOK
  BY DEF IInv
<1> QED
  BY <1>1, Invariance, PTL

LEMMA OwnIsTracked ==
    ASSUME IInv, NEW i \in Items, NEW d \in Own(i)
    PROVE  /\ d \in downloads /\ Trackable(d, i[1], i[2], ops[i].opID)
           /\ ops[i].status # "none" /\ d.id = ops[i].id
           /\ \A e \in downloads : e.opID = ops[i].opID => e = d
<1>1. d \in downloads /\ ops[i].status # "none" /\ d.id = ops[i].id
  BY DEF Own, WithId
<1>2. Trackable(d, i[1], i[2], ops[i].opID)
  BY <1>1 DEF IInv, OpsInv, OpInv, Bound
<1>3. ASSUME NEW e \in downloads, e.opID = ops[i].opID
      PROVE  e = d
  <2>1. e.name.pvc = d.name.pvc
    BY <1>1, <1>2, <1>3 DEF IInv, DownloadsInv, Trackable
  <2>2. e.name \in [kind : {"dd"}, pvc : PVCs] /\ d.name \in [kind : {"dd"}, pvc : PVCs]
    BY <1>1 DEF IInv, TypeOK, Downloads
  <2>3. e.name = d.name
    BY <2>1, <2>2
  <2> QED
    BY <1>1, <2>3 DEF IInv, DownloadsInv
<1> QED
  BY <1>1, <1>2, <1>3

\* Execute's create-or-adopt loop hands Velero an operation ID by which Progress
\* and Cancel find the PVC's own download and nothing else: for any number of
\* PVCs, also if all labels collide and the mapping sends them to one place.
THEOREM Trackability == Spec => []RegisteredOperationTracksItsDownload
<1>1. ASSUME IInv PROVE RegisteredOperationTracksItsDownload
  <2> SUFFICES ASSUME NEW i \in Items, NEW d \in Own(i)
               PROVE  /\ WithOperationID(ops[i].opID) = {d}
                      /\ d.owner = i[1] /\ d.pvc = i[2]
                      /\ d.target = target(i[2])
                      /\ d.vm = VMOf[i[2]] /\ d.mover = "kubevirt"
    BY DEF RegisteredOperationTracksItsDownload
  <2>1. /\ d \in downloads /\ Trackable(d, i[1], i[2], ops[i].opID)
        /\ \A e \in downloads : e.opID = ops[i].opID => e = d
    BY <1>1, OwnIsTracked
  <2>2. WithOperationID(ops[i].opID) = {d}
    BY <2>1 DEF WithOperationID, Trackable
  <2> QED
    BY <2>1, <2>2 DEF Trackable
<1> QED
  BY <1>1, Invariance, PTL

-------------------------------------------------------------------------------
(* A stripped PVC has an operation.                                            *)

\* The binding was cleared, and the operation that fills the PVC is known.
OperationsStay ==
    \A i \in Items : ops[i].status # "none" => ops'[i].status # "none"

LEMMA NextOperations ==
    ASSUME IInv, [Next]_vars
    PROVE  OperationsStay
<1>0. /\ ops \in [Items -> OperationStates]
      /\ \A d \in downloads : d \in Downloads
  BY DEF IInv, TypeOK
<1>1. CASE UNCHANGED ops
  BY <1>1 DEF OperationsStay
<1>2. ASSUME NEW i \in Items, NEW st, st # "none",
             ops' = [ops EXCEPT ![i].status = st]
      PROVE  OperationsStay
  BY <1>0, <1>2 DEF OperationsStay, OperationStates
<1>3. CASE ExecuteSteps
  <2>1. ASSUME NEW c \in Calls, Return(c)
        PROVE  OperationsStay
    BY <1>0, <2>1 DEF Return, OperationsStay
  <2> QED
    BY <1>1, <1>3, <2>1
    DEF ExecuteSteps, ItemSteps, CallSteps, ExecuteOther, Execute, getBackup,
        createDataDownloadResource, getDataDownloadByName, velero
<1>4. CASE OperationSteps
  <2>1. ASSUME NEW i \in Items, Progress(i)
        PROVE  OperationsStay
    <3>1. PICK st : /\ st = "Failed" \/ \E d \in downloads : st = ProgressOf(d)
                    /\ ops' = [ops EXCEPT ![i].status = st]
      BY <2>1 DEF Progress, WithOperationID
    <3>2. st # "none"
      BY <1>0, <3>1 DEF ProgressOf, Downloads, Terminal
    <3> QED
      BY <1>2, <3>1, <3>2
  <2>2. ASSUME NEW i \in Items, CancelSteps(i)
        PROVE  OperationsStay
    BY <1>1, <1>2, <2>2
    DEF CancelSteps, CancelLookup, patchDataDownloadCancel, AttemptFails,
        CancelReturns
  <2> QED
    BY <1>1, <1>4, <2>1, <2>2 DEF OperationSteps, Timeout
<1>5. CASE EnvironmentSteps
  BY <1>1, <1>5
  DEF EnvironmentSteps, ClusterSteps, VMCancels, Abandon, Crash,
      DeleteRestore, RecreateRestore,
      BackupChanges, ForeignCreate, GarbageCollect, ForeignDelete,
      ControllerSteps, ControllerWorks, ControllerBinds, ControllerCancels,
      Provision, velero
<1>6. CASE UNCHANGED vars
  BY <1>1, <1>6 DEF vars, velero
<1> QED
  BY <1>3, <1>4, <1>5, <1>6 DEF Next

LEMMA StrippedStep ==
    ASSUME IInv, StrippedPVCHasOperation, [Next]_vars
    PROVE  StrippedPVCHasOperation'
<1>0. /\ OperationsStay
      /\ \A o \in pvcs : o \in PVCObjects /\ <<o.by, o.from>> \in Items
  BY NextOperations DEF IInv, TypeOK, PVCObjects, Items
<1>1. ASSUME \A n \in pvcs' :
                \/ n.selector = FALSE
                \/ ops'[<<n.by, n.from>>].status # "none"
                \/ \E o \in pvcs : /\ o.by = n.by /\ o.from = n.from
                                   /\ o.selector = n.selector
      PROVE  StrippedPVCHasOperation'
  BY <1>0, <1>1 DEF StrippedPVCHasOperation, OperationsStay
<1>2. CASE pvcs' = pvcs
  BY <1>1, <1>2
<1>3. ASSUME NEW p \in PVCs, ExecuteOther(p)
      PROVE  StrippedPVCHasOperation'
  <2> DEFINE n == [name |-> target(p), from |-> p, by |-> epoch,
                   bindAnnotations |-> ItemFromBackup.bindAnnotations
                                       /\ ~ItemFromBackup.volumeName,
                   selector |-> ItemFromBackup.selector, volume |-> {}]
  <2>1. n.selector = FALSE
    BY DEF ItemFromBackup
  <2>2. pvcs' = pvcs \/ pvcs' = pvcs \cup {n}
    BY <1>3 DEF ExecuteOther, StorePVC
  <2> HIDE DEF n
  <2>3. \A m \in pvcs' : m \in pvcs \/ m = n
    BY <2>2
  <2> QED
    BY <1>1, <2>1, <2>3
<1>4. ASSUME NEW c \in Calls, Return(c)
      PROVE  StrippedPVCHasOperation'
  <2>1. CASE pvcs' = pvcs
    BY <1>2, <2>1
  <2>2. CASE StorePVC(calls[c].uid, calls[c].pvc, clearPVCBinding(ItemFromBackup))
             /\ ops' = [ops EXCEPT ![<<calls[c].uid, calls[c].pvc>>] =
                    [status |-> "InProgress", opID |-> calls[c].opID,
                     id |-> calls[c].id]]
    <3>1. /\ <<calls[c].uid, calls[c].pvc>> \in Items
          /\ ops \in [Items -> OperationStates]
      BY <1>4 DEF Return, IInv, CallsInv, CallInv, TypeOK, CallStates, Items
    <3>2. ops'[<<calls[c].uid, calls[c].pvc>>].status = "InProgress"
      BY <2>2, <3>1
    <3>3. \A n \in pvcs' : n \in pvcs \/ (n.by = calls[c].uid
                                          /\ n.from = calls[c].pvc)
      BY <2>2 DEF StorePVC
    <3> QED
      BY <1>1, <3>2, <3>3
  <2> QED
    BY <1>4, <2>1, <2>2 DEF Return
<1>5. ASSUME NEW o \in pvcs, NEW v, pvcs' = (pvcs \ {o}) \cup {[o EXCEPT !.volume = v]}
      PROVE  StrippedPVCHasOperation'
  <2>1. /\ [o EXCEPT !.volume = v].by = o.by
        /\ [o EXCEPT !.volume = v].from = o.from
        /\ [o EXCEPT !.volume = v].selector = o.selector
    BY <1>0 DEF PVCObjects
  <2> QED
    BY <1>1, <1>5, <2>1
<1>6. CASE ExecuteSteps
  BY <1>2, <1>3, <1>4, <1>6
  DEF ExecuteSteps, ItemSteps, CallSteps, Execute, getBackup,
      createDataDownloadResource,
      getDataDownloadByName, objects
<1>7. CASE OperationSteps
  BY <1>2, <1>7
  DEF OperationSteps, CancelSteps, Progress, Timeout, CancelLookup,
      patchDataDownloadCancel, objects
<1>8. CASE EnvironmentSteps
  <2>1. ASSUME NEW o \in pvcs, Provision(o)
        PROVE  StrippedPVCHasOperation'
    BY <1>5, <2>1 DEF Provision
  <2>2. ASSUME NEW d \in downloads, ControllerBinds(d)
        PROVE  StrippedPVCHasOperation'
    BY <1>2, <1>5, <2>2 DEF ControllerBinds, Stored
  <2> QED
    BY <1>2, <1>8, <2>1, <2>2
    DEF EnvironmentSteps, ClusterSteps, VMCancels, Abandon, Crash,
        DeleteRestore, RecreateRestore,
        BackupChanges, ForeignCreate, GarbageCollect, ForeignDelete,
        ControllerSteps, ControllerWorks, ControllerCancels, objects
<1>9. CASE UNCHANGED vars
  BY <1>2, <1>9 DEF vars, objects
<1> QED
  BY <1>6, <1>7, <1>8, <1>9 DEF Next

\* No PVC is left without its old binding and without the operation that would
\* fill it, wherever an Execute call fails, is abandoned or crashes.
THEOREM NoneStranded == Spec => []StrippedPVCHasOperation
<1>1. Init => StrippedPVCHasOperation
  BY DEF Init, StrippedPVCHasOperation
<1>2. IInv /\ StrippedPVCHasOperation /\ [Next]_vars => StrippedPVCHasOperation'
  BY StrippedStep
<1> QED
  BY <1>1, <1>2, Invariance, PTL DEF Spec

-------------------------------------------------------------------------------
(* What a step does to the PVCs.                                               *)

Moved(p) == VMOf[p] # "none"

\* A PVC without a volume gets one, under u from the disk of q.
Filled(o, u, q) ==
    /\ o.volume = {}
    /\ pvcs' = (pvcs \ {o}) \cup {[o EXCEPT !.volume = {<<u, q>>}]}

\* What Velero stores for a PVC of the data mover is stripped.
PVCsStep ==
    \/ pvcs' = pvcs
    \/ \E uid \in UIDs, p \in PVCs, m \in Manifests :
          /\ StorePVC(uid, p, m)
          /\ Moved(p) => m = clearPVCBinding(ItemFromBackup)
    \/ \E o \in pvcs : Filled(o, Provisioner, o.from) /\ ~o.selector
    \/ \E o \in pvcs, u \in {0} \cup UIDs, q \in PVCs : Filled(o, u, q)

LEMMA NextPVCs ==
    ASSUME IInv, [Next]_vars
    PROVE  PVCsStep
<1>1. CASE pvcs' = pvcs
  BY <1>1 DEF PVCsStep
<1>2. ASSUME NEW p \in PVCs, ExecuteOther(p)
      PROVE  PVCsStep
  <2>1. epoch \in UIDs /\ ~Moved(p) /\ StorePVC(epoch, p, ItemFromBackup)
    BY <1>2 DEF IInv, TypeOK, ExecuteOther, Moved
  <2> QED
    BY <2>1, ManifestTypes DEF PVCsStep
<1>3. ASSUME NEW c \in Calls, Return(c)
      PROVE  PVCsStep
  <2>1. calls[c].uid \in UIDs /\ calls[c].pvc \in PVCs
    BY <1>3 DEF Return, IInv, TypeOK, CallsInv, CallInv, CallStates
  <2>2. \/ pvcs' = pvcs
        \/ StorePVC(calls[c].uid, calls[c].pvc, clearPVCBinding(ItemFromBackup))
    BY <1>3 DEF Return
  <2> QED
    BY <2>1, <2>2, ManifestTypes DEF PVCsStep
<1>4. ASSUME NEW o \in pvcs, Provision(o)
      PROVE  PVCsStep
  BY <1>4 DEF Provision, PVCsStep, Filled
<1>5. ASSUME NEW d \in downloads, ControllerBinds(d)
      PROVE  PVCsStep
  <2>1. d.owner \in {0} \cup UIDs /\ d.pvc \in PVCs
    BY DEF IInv, TypeOK, Downloads
  <2> QED
    BY <1>5, <2>1 DEF ControllerBinds, Stored, PVCsStep, Filled
<1>6. CASE ExecuteSteps
  BY <1>1, <1>2, <1>3, <1>6
  DEF ExecuteSteps, ItemSteps, CallSteps, Execute, getBackup,
      createDataDownloadResource,
      getDataDownloadByName, objects
<1>7. CASE OperationSteps
  BY <1>1, <1>7
  DEF OperationSteps, CancelSteps, Progress, Timeout, CancelLookup,
      patchDataDownloadCancel, objects
<1>8. CASE EnvironmentSteps
  BY <1>1, <1>4, <1>5, <1>8
  DEF EnvironmentSteps, ClusterSteps, VMCancels, Abandon, Crash,
      DeleteRestore, RecreateRestore,
      BackupChanges, ForeignCreate, GarbageCollect, ForeignDelete,
      ControllerSteps, ControllerWorks, ControllerCancels, objects
<1>9. CASE UNCHANGED vars
  BY <1>1, <1>9 DEF vars, objects
<1> QED
  BY <1>6, <1>7, <1>8, <1>9 DEF Next

\* A stored PVC stays, and so does its volume once it has one.
PVCsStay ==
    \A o \in pvcs : \E n \in pvcs' :
        /\ n.name = o.name /\ n.from = o.from
        /\ o.volume = {} \/ n.volume = o.volume

LEMMA FilledKeeps ==
    ASSUME NEW o \in PVCObjects, NEW w
    PROVE  /\ [o EXCEPT !.volume = w].name = o.name
           /\ [o EXCEPT !.volume = w].from = o.from
           /\ [o EXCEPT !.volume = w].selector = o.selector
           /\ [o EXCEPT !.volume = w].bindAnnotations = o.bindAnnotations
           /\ [o EXCEPT !.volume = w].volume = w
  BY DEF PVCObjects

LEMMA PVCsKept ==
    ASSUME IInv, PVCsStep
    PROVE  PVCsStay
<1>0. \A o \in pvcs : o \in PVCObjects
  BY DEF IInv, TypeOK
<1>1. CASE pvcs \subseteq pvcs'
  BY <1>1 DEF PVCsStay
<1>2. ASSUME NEW o \in pvcs, NEW u, NEW q, Filled(o, u, q)
      PROVE  PVCsStay
  <2> DEFINE n == [o EXCEPT !.volume = {<<u, q>>}]
  <2>1. n.name = o.name /\ n.from = o.from /\ o.volume = {}
    BY <1>0, <1>2, FilledKeeps DEF Filled
  <2>2. pvcs' = (pvcs \ {o}) \cup {n}
    BY <1>2 DEF Filled
  <2> HIDE DEF n
  <2> QED
    BY <2>1, <2>2 DEF PVCsStay
<1> QED
  BY <1>1, <1>2 DEF PVCsStep, StorePVC

-------------------------------------------------------------------------------
(* Only PVCs of the data mover have calls and downloads, and their objects are *)
(* stripped: the provisioner keeps off.                                        *)

CallsMoved == \A c \in Calls : calls[c].pc # "idle" => Moved(calls[c].pvc)

DownloadsMoved == \A d \in downloads : Moved(d.pvc)

StrippedInv ==
    \A o \in pvcs : Moved(o.from) =>
        /\ o.selector /\ ~o.bindAnnotations
        /\ \A v \in o.volume : v[1] # Provisioner

LEMMA CallsMovedStep ==
    ASSUME IInv, CallsMoved, [Next]_vars
    PROVE  CallsMoved'
<1>0. calls \in [Calls -> CallStates]
  BY DEF IInv, TypeOK
<1>1. ASSUME \A c \in Calls : \/ calls'[c].pc = "idle"
                              \/ calls[c].pc # "idle" /\ calls'[c].pvc = calls[c].pvc
                              \/ Moved(calls'[c].pvc)
      PROVE  CallsMoved'
  BY <1>1 DEF CallsMoved, Moved
<1>2. CASE UNCHANGED calls
  BY <1>2 DEF CallsMoved, Moved
<1>3. ASSUME NEW c \in Calls, NEW p \in PVCs, Execute(c, p)
      PROVE  CallsMoved'
  <2>1. Moved(p) /\ \A e \in Calls \ {c} : calls'[e] = calls[e]
    BY <1>0, <1>3 DEF Execute, Moved
  <2>2. calls'[c].pvc = p
    BY <1>0, <1>3 DEF Execute, NoCall
  <2> QED
    BY <1>1, <2>1, <2>2
<1>4. ASSUME NEW c \in Calls, calls[c].pc # "idle",
             \/ FailCall(c)
             \/ \E l : calls' = [calls EXCEPT ![c] =
                    [@ EXCEPT !.pc = "create", !.location = l]]
             \/ \E id, opID : calls' = [calls EXCEPT ![c] =
                    [@ EXCEPT !.pc = "return", !.id = id, !.opID = opID]]
             \/ \E id : calls' = [calls EXCEPT ![c] =
                    [@ EXCEPT !.pc = "return", !.id = id]]
             \/ calls' = [calls EXCEPT ![c].pc = "get"]
             \/ \E n : calls' = [calls EXCEPT ![c] =
                    [@ EXCEPT !.pc = "create", !.attempt = n]]
             \/ calls' = [calls EXCEPT ![c].abandoned = TRUE]
      PROVE  CallsMoved'
  <2>1. \A e \in Calls \ {c} : calls'[e] = calls[e]
    BY <1>0, <1>4 DEF FailCall
  <2>2. calls'[c].pc = "idle" \/ calls'[c].pvc = calls[c].pvc
    BY <1>0, <1>4, NoCallType DEF FailCall, CallStates
  <2> QED
    BY <1>1, <1>4, <2>1, <2>2
<1>5. CASE ExecuteSteps
  <2>1. ASSUME NEW c \in Calls, getBackup(c)
        PROVE  CallsMoved'
    BY <1>4, <2>1 DEF getBackup, UseLocation
  <2>2. ASSUME NEW c \in Calls, createDataDownloadResource(c)
        PROVE  CallsMoved'
    BY <1>4, <2>2 DEF createDataDownloadResource
  <2>3. ASSUME NEW c \in Calls, getDataDownloadByName(c)
        PROVE  CallsMoved'
    BY <1>4, <2>3 DEF getDataDownloadByName
  <2>4. ASSUME NEW c \in Calls, Return(c)
        PROVE  CallsMoved'
    BY <1>4, <2>4 DEF Return, FailCall
  <2> QED
    BY <1>2, <1>3, <1>5, <2>1, <2>2, <2>3, <2>4
    DEF ExecuteSteps, ItemSteps, CallSteps, ExecuteOther, velero
<1>6. CASE OperationSteps
  BY <1>2, <1>6
  DEF OperationSteps, CancelSteps, Progress, Timeout, CancelLookup,
      patchDataDownloadCancel
<1>7. CASE EnvironmentSteps
  <2>1. ASSUME NEW c \in Calls, Abandon(c)
        PROVE  CallsMoved'
    BY <1>4, <2>1 DEF Abandon
  <2>2. CASE Crash
    BY <1>1, <2>2, NoCallType DEF Crash
  <2> QED
    BY <1>2, <1>7, <2>1, <2>2
    DEF EnvironmentSteps, ClusterSteps, VMCancels, DeleteRestore,
        RecreateRestore, BackupChanges,
        ForeignCreate, GarbageCollect, ForeignDelete, ControllerSteps,
        ControllerWorks, ControllerBinds, ControllerCancels, Provision, velero
<1>8. CASE UNCHANGED vars
  BY <1>2, <1>8 DEF vars, velero
<1> QED
  BY <1>5, <1>6, <1>7, <1>8 DEF Next

LEMMA StrippedInvStep ==
    ASSUME IInv, StrippedInv, PVCsStep
    PROVE  StrippedInv'
<1>0. \A o \in pvcs : o \in PVCObjects
  BY DEF IInv, TypeOK
<1>1. CASE pvcs' = pvcs
  BY <1>1 DEF StrippedInv, Moved, Provisioner
<1>2. ASSUME NEW uid \in UIDs, NEW p \in PVCs, NEW m \in Manifests,
             StorePVC(uid, p, m),
             Moved(p) => m = clearPVCBinding(ItemFromBackup)
      PROVE  StrippedInv'
  <2> DEFINE n == [name |-> target(p), from |-> p, by |-> uid,
                   bindAnnotations |-> m.bindAnnotations /\ ~m.volumeName,
                   selector |-> m.selector, volume |-> {}]
  <2>1. n.from = p /\ n.volume = {}
    OBVIOUS
  <2>2. Moved(p) => n.selector /\ ~n.bindAnnotations
    BY <1>2 DEF clearPVCBinding, ItemFromBackup
  <2>3. pvcs' = pvcs \/ pvcs' = pvcs \cup {n}
    BY <1>2 DEF StorePVC
  <2> HIDE DEF n
  <2> QED
    BY <2>1, <2>2, <2>3 DEF StrippedInv, Moved, Provisioner
<1>3. ASSUME NEW o \in pvcs, NEW u, NEW q, Filled(o, u, q),
             u = Provisioner => ~o.selector
      PROVE  StrippedInv'
  <2> DEFINE n == [o EXCEPT !.volume = {<<u, q>>}]
  <2>1. /\ n.from = o.from /\ n.selector = o.selector
        /\ n.bindAnnotations = o.bindAnnotations /\ n.volume = {<<u, q>>}
    BY <1>0, FilledKeeps
  <2>2. pvcs' = (pvcs \ {o}) \cup {n}
    BY <1>3 DEF Filled
  <2> HIDE DEF n
  <2>3. Moved(o.from) => u # Provisioner
    BY <1>3 DEF StrippedInv
  <2> QED
    BY <2>1, <2>2, <2>3 DEF StrippedInv, Moved, Provisioner
<1>4. \A u \in {0} \cup UIDs : u # Provisioner
  BY BoundsAssumption DEF UIDs, Provisioner
<1> QED
  BY <1>1, <1>2, <1>3, <1>4 DEF PVCsStep

-------------------------------------------------------------------------------
(* Where the downloads of the next state come from.                            *)

Kept(d, e) ==
    /\ SameObject(d, e)
    /\ e.phase = "Completed" => d.phase = "Completed"
    /\ e.message = "conflict" => d.message = "conflict"

\* Created by a call, or by a third party.
Begun(e) ==
    /\ Moved(e.pvc) /\ e.phase = "New" /\ e.message = "none"
    /\ e.owner = 0 => meddled' # 0

\* Completed, or refused because of what the target PVC has already.
Rebound(d, e) ==
    /\ SameObject(d, e)
    /\ e.message = "conflict" => d.message = "conflict" \/ e.phase = "Failed"
    /\ \E o \in Stored(d.target) :
          \/ e.phase = "Completed" /\ Filled(o, d.owner, d.pvc)
          \/ /\ e.phase = "Failed" /\ pvcs' = pvcs
             /\ o.volume # {} \/ o.bindAnnotations

Origins ==
    \A e \in downloads' : \/ Begun(e)
                          \/ \E d \in downloads : Kept(d, e) \/ Rebound(d, e)

LEMMA MeddledStep ==
    ASSUME IInv, [Next]_vars
    PROVE  meddled' = 0 => meddled = 0
<1>0. meddled \in Nat
  BY DEF IInv, TypeOK
<1>1. \/ meddled' = meddled \/ Meddle
      \/ \E k \in FaultKinds : Spend(k)
  <2>1. CASE UNCHANGED vars
    BY <2>1 DEF vars, budget
  <2>2. CASE ExecuteSteps
    BY <2>2, ExecuteTypes DEF BudgetStep, budget
  <2>3. CASE OperationSteps
    BY <2>3, OperationTypes DEF BudgetStep, budget
  <2>4. CASE EnvironmentSteps
    BY <2>4
    DEF EnvironmentSteps, ClusterSteps, VMCancels, Abandon, Crash,
        DeleteRestore, RecreateRestore,
        BackupChanges, ForeignCreate, GarbageCollect, ForeignDelete,
        ControllerSteps, ControllerWorks, ControllerBinds, ControllerCancels,
        Provision, budget
  <2> QED
    BY <2>1, <2>2, <2>3, <2>4 DEF Next
<1> QED
  BY <1>0, <1>1 DEF Meddle, Spend

LEMMA NewDownloadShape ==
    ASSUME NEW id, NEW uid, NEW p, NEW l
    PROVE  LET e == NewDownload(id, uid, p, l) IN
           /\ e.pvc = p /\ e.phase = "New" /\ e.message = "none"
           /\ e.owner = uid /\ e.bsl = l
  BY DEF NewDownload

LEMMA CreateOrigins ==
    ASSUME IInv, CallsMoved, NEW c \in Calls, createDataDownloadResource(c)
    PROVE  Origins
<1> DEFINE e == NewDownload(nextId, calls[c].uid, calls[c].pvc, calls[c].location)
<1>1. Moved(calls[c].pvc) /\ calls[c].uid \in UIDs
  BY DEF CallsMoved, createDataDownloadResource, IInv, CallsInv, CallInv
<1>2. Begun(e)
  BY <1>1, NewDownloadShape, BoundsAssumption DEF Begun, UIDs
<1>3. \A d \in downloads : Kept(d, d)
  BY DEF Kept, SameObject
<1>4. downloads' = downloads \/ downloads' = downloads \cup {e}
  BY DEF createDataDownloadResource
<1> HIDE DEF e
<1> QED
  BY <1>2, <1>3, <1>4 DEF Origins

LEMMA ForeignOrigins ==
    ASSUME IInv, NEW p \in PVCs, NEW l \in Locations, ForeignCreate(p, l)
    PROVE  Origins
<1> DEFINE base == NewDownload(nextId, epoch, p, l)
<1>1. PICK e \in ForeignDownloads(p, l) : downloads' = downloads \cup {e}
  BY DEF ForeignCreate
<1>2. /\ base \in Downloads /\ base.pvc = p /\ base.phase = "New"
      /\ base.message = "none"
  <2>1. nextId \in Nat /\ epoch \in UIDs
    BY DEF IInv, TypeOK
  <2> QED
    BY <2>1, NewDownloadType, NewDownloadShape
<1>3. e.pvc = base.pvc /\ e.phase = base.phase /\ e.message = base.message
  <2>1. \/ \E s \in {"older", "none"} :
              e = [base EXCEPT !.opID.scheme = s, !.opLabel = s]
        \/ e = [base EXCEPT !.owner = 0]
        \/ e = [base EXCEPT !.vm = "other"]
        \/ e = [base EXCEPT !.mover = "other"]
        \/ e = [base EXCEPT !.label = "other"]
        \/ e = [base EXCEPT !.opLabel = "older"]
    BY <1>1 DEF ForeignDownloads
  <2> HIDE DEF base
  <2> QED
    BY <1>2, <2>1 DEF Downloads
<1>4. Moved(p) /\ meddled' # 0
  BY DEF ForeignCreate, Meddle, Moved, IInv, TypeOK
<1>5. Begun(e)
  BY <1>2, <1>3, <1>4 DEF Begun
<1>6. \A d \in downloads : Kept(d, d)
  BY DEF Kept, SameObject
<1> QED
  BY <1>1, <1>5, <1>6 DEF Origins

LEMMA ReplacedOrigins ==
    ASSUME NEW d \in downloads, NEW e, Replace(d, e), Kept(d, e) \/ Rebound(d, e)
    PROVE  Origins
<1>1. \A f \in downloads : Kept(f, f)
  BY DEF Kept, SameObject
<1> QED
  BY <1>1 DEF Replace, Origins

LEMMA ControllerOrigins ==
    ASSUME IInv, NEW d \in downloads, ControllerSteps(d)
    PROVE  Origins
<1>0. d \in Downloads
  BY DEF IInv, TypeOK
<1>1. CASE ControllerWorks(d)
  <2>1. PICK e : /\ Replace(d, e)
                 /\ \/ e = [d EXCEPT !.phase = "InProgress"]
                    \/ \E m \in {"none", "other"} :
                          e = [d EXCEPT !.phase = "Failed", !.message = m]
    BY <1>1 DEF ControllerWorks
  <2>2. Kept(d, e)
    BY <1>0, <2>1 DEF Kept, SameObject, Downloads
  <2> QED
    BY <2>1, <2>2, ReplacedOrigins
<1>2. CASE ControllerCancels(d)
  <2>1. Kept(d, [d EXCEPT !.phase = "Canceled"])
    BY <1>0 DEF Kept, SameObject, Downloads
  <2> QED
    BY <1>2, <2>1, ReplacedOrigins DEF ControllerCancels
<1>3. CASE ControllerBinds(d)
  <2>1. PICK o \in Stored(d.target) :
           \/ /\ o.volume = {} /\ Replace(d, [d EXCEPT !.phase = "Completed"])
              /\ pvcs' = (pvcs \ {o}) \cup
                     {[o EXCEPT !.volume = {<<d.owner, d.pvc>>}]}
           \/ /\ o.volume # {} \/ o.bindAnnotations
              /\ Replace(d, [d EXCEPT !.phase = "Failed",
                                      !.message = "conflict"])
              /\ pvcs' = pvcs
    BY <1>3 DEF ControllerBinds
  <2>2. CASE /\ o.volume = {} /\ Replace(d, [d EXCEPT !.phase = "Completed"])
             /\ pvcs' = (pvcs \ {o}) \cup
                    {[o EXCEPT !.volume = {<<d.owner, d.pvc>>}]}
    <3> DEFINE e == [d EXCEPT !.phase = "Completed"]
    <3>1. SameObject(d, e) /\ e.phase = "Completed" /\ e.message = d.message
      BY <1>0 DEF SameObject, Downloads
    <3>2. Filled(o, d.owner, d.pvc)
      BY <2>2 DEF Filled
    <3>3. Rebound(d, e)
      BY <3>1, <3>2 DEF Rebound
    <3> QED
      BY <2>2, <3>3, ReplacedOrigins
  <2>3. CASE /\ o.volume # {} \/ o.bindAnnotations
             /\ Replace(d, [d EXCEPT !.phase = "Failed",
                                     !.message = "conflict"])
             /\ pvcs' = pvcs
    <3> DEFINE e == [d EXCEPT !.phase = "Failed", !.message = "conflict"]
    <3>1. SameObject(d, e) /\ e.phase = "Failed"
      BY <1>0 DEF SameObject, Downloads
    <3>2. Rebound(d, e)
      BY <2>3, <3>1 DEF Rebound
    <3> QED
      BY <2>3, <3>2, ReplacedOrigins
  <2> QED
    BY <2>1, <2>2, <2>3
<1> QED
  BY <1>1, <1>2, <1>3 DEF ControllerSteps

LEMMA NextOrigins ==
    ASSUME IInv, CallsMoved, [Next]_vars
    PROVE  Origins
<1>1. CASE downloads' \subseteq downloads
  BY <1>1 DEF Origins, Kept, SameObject
<1>2. CASE ExecuteSteps
  BY <1>1, <1>2, CreateOrigins
  DEF ExecuteSteps, ItemSteps, CallSteps, ExecuteOther, Execute, getBackup,
      getDataDownloadByName,
      Return, objects
<1>3. CASE OperationSteps
  <2>1. ASSUME NEW i \in Items, patchDataDownloadCancel(i)
        PROVE  Origins
    <3>1. \/ downloads' = downloads
          \/ \E d \in downloads : Replace(d, PatchedCancel(d))
      BY <2>1, PatchDownloads
    <3>2. \A d \in downloads : Kept(d, PatchedCancel(d))
      BY DEF IInv, TypeOK, PatchedCancel, Downloads, Kept, SameObject
    <3> QED
      BY <1>1, <3>1, <3>2, ReplacedOrigins
  <2> QED
    BY <1>1, <1>3, <2>1
    DEF OperationSteps, CancelSteps, Progress, Timeout, CancelLookup, objects
<1>4. CASE EnvironmentSteps
  <2>1. ASSUME NEW d \in downloads, VMCancels(d)
        PROVE  Origins
    <3>1. Replace(d, PatchedCancel(d)) /\ Kept(d, PatchedCancel(d))
      BY <2>1 DEF VMCancels, IInv, TypeOK, PatchedCancel, Downloads, Kept,
                  SameObject
    <3> QED
      BY <3>1, ReplacedOrigins
  <2> QED
    BY <1>1, <1>4, <2>1, ForeignOrigins, ControllerOrigins
    DEF EnvironmentSteps, ClusterSteps, Abandon, Crash, DeleteRestore,
        RecreateRestore, BackupChanges, GarbageCollect, ForeignDelete,
        Provision, objects
<1>5. CASE UNCHANGED vars
  BY <1>1, <1>5 DEF vars, objects
<1> QED
  BY <1>2, <1>3, <1>4, <1>5 DEF Next

-------------------------------------------------------------------------------
(* What downloads have done to the PVCs.                                       *)

FilledInv ==
    \A d \in downloads : d.phase = "Completed" =>
        \E o \in Stored(d.target) : o.volume = {<<d.owner, d.pvc>>}

OwnersInv == meddled = 0 => \A d \in downloads : d.owner # 0

DataInv ==
    /\ CallsMoved /\ DownloadsMoved /\ StrippedInv /\ FilledInv /\ OwnersInv
    /\ RebindIsNotPreempted

LEMMA StoredStays ==
    ASSUME PVCsStay, NEW t, NEW o \in Stored(t)
    PROVE  \E n \in Stored(t)' : /\ n.from = o.from
                                 /\ o.volume = {} \/ n.volume = o.volume
BY DEF PVCsStay, Stored

LEMMA FilledInvStep ==
    ASSUME IInv, FilledInv, Origins, PVCsStep
    PROVE  FilledInv'
<1> SUFFICES ASSUME NEW e \in downloads', e.phase = "Completed"
             PROVE  \E n \in Stored(e.target)' : n.volume = {<<e.owner, e.pvc>>}
  BY DEF FilledInv
<1>1. PVCsStay
  BY PVCsKept
<1>2. ~Begun(e)
  BY DEF Begun
<1>3. PICK d \in downloads : Kept(d, e) \/ Rebound(d, e)
  BY <1>2 DEF Origins
<1>4. /\ SameObject(d, e) /\ e.target = d.target
      /\ e.owner = d.owner /\ e.pvc = d.pvc
  BY <1>3 DEF Kept, Rebound, SameObject
<1>5. CASE d.phase = "Completed"
  <2>1. PICK o \in Stored(d.target) : o.volume = {<<d.owner, d.pvc>>}
    BY <1>5 DEF FilledInv
  <2>2. o.volume # {}
    BY <2>1
  <2>3. PICK n \in Stored(d.target)' : n.volume = o.volume
    BY <1>1, <2>2, StoredStays
  <2> QED
    BY <1>4, <2>1, <2>3
<1>6. CASE Rebound(d, e)
  <2>1. PICK o \in Stored(d.target) : Filled(o, d.owner, d.pvc)
    BY <1>6 DEF Rebound
  <2> DEFINE n == [o EXCEPT !.volume = {<<d.owner, d.pvc>>}]
  <2>2. o \in PVCObjects /\ o.name = d.target
    BY DEF Stored, IInv, TypeOK
  <2>3. n.name = d.target /\ n.volume = {<<d.owner, d.pvc>>}
    BY <2>2, FilledKeeps
  <2>4. n \in pvcs'
    BY <2>1 DEF Filled
  <2> HIDE DEF n
  <2> QED
    BY <1>4, <2>3, <2>4 DEF Stored
<1> QED
  BY <1>3, <1>5, <1>6 DEF Kept

LEMMA RebindStep ==
    ASSUME IInv, DataInv, Origins, PVCsStep
    PROVE  RebindIsNotPreempted'
<1> SUFFICES ASSUME NEW e \in downloads', e.message = "conflict"
             PROVE  \E n \in Stored(e.target)' :
                        \/ n.from # e.pvc
                        \/ \E v \in n.volume : v[1] # Provisioner
  BY DEF RebindIsNotPreempted, Provisioner
<1>1. PVCsStay
  BY PVCsKept
<1>2. ~Begun(e)
  BY DEF Begun
<1>3. PICK d \in downloads : Kept(d, e) \/ Rebound(d, e)
  BY <1>2 DEF Origins
<1>4. e.target = d.target /\ e.pvc = d.pvc
  BY <1>3 DEF Kept, Rebound, SameObject
<1>5. CASE d.message = "conflict"
  <2>1. PICK o \in Stored(d.target) :
           o.from # d.pvc \/ \E v \in o.volume : v[1] # Provisioner
    BY <1>5 DEF DataInv, RebindIsNotPreempted
  <2>2. PICK n \in Stored(d.target)' : /\ n.from = o.from
                                       /\ o.volume = {} \/ n.volume = o.volume
    BY <1>1, StoredStays
  <2> QED
    BY <1>4, <2>1, <2>2
<1>6. CASE Rebound(d, e) /\ e.phase = "Failed"
  <2>1. PICK o \in Stored(d.target) : /\ pvcs' = pvcs
                                      /\ o.volume # {} \/ o.bindAnnotations
    BY <1>6 DEF Rebound
  <2>2. o \in Stored(d.target)' /\ o \in pvcs
    BY <2>1 DEF Stored
  <2>3. CASE o.from = d.pvc
    <3>1. Moved(o.from)
      BY <2>3 DEF DataInv, DownloadsMoved
    <3>2. ~o.bindAnnotations /\ \A v \in o.volume : v[1] # Provisioner
      BY <2>2, <3>1 DEF DataInv, StrippedInv
    <3> QED
      BY <1>4, <2>1, <2>2, <3>2
  <2> QED
    BY <1>4, <2>2, <2>3
<1> QED
  BY <1>3, <1>5, <1>6 DEF Kept, Rebound

LEMMA DataStep ==
    ASSUME IInv, DataInv, [Next]_vars
    PROVE  DataInv'
<1>1. Origins /\ PVCsStep /\ CallsMoved' /\ StrippedInv'
  BY NextOrigins, NextPVCs, CallsMovedStep, StrippedInvStep DEF DataInv
<1>2. DownloadsMoved'
  BY <1>1
  DEF DataInv, DownloadsMoved, Origins, Begun, Kept, Rebound, SameObject, Moved
<1>3. OwnersInv'
  BY <1>1, MeddledStep
  DEF DataInv, OwnersInv, Origins, Begun, Kept, Rebound, SameObject
<1> QED
  BY <1>1, <1>2, <1>3, FilledInvStep, RebindStep DEF DataInv

LEMMA DataInvariance == Spec => [](IInv /\ DataInv)
<1>1. Init => DataInv
  <2> SUFFICES ASSUME Init PROVE DataInv
    OBVIOUS
  <2>1. downloads = {} /\ pvcs = {} /\ \A c \in Calls : calls[c].pc = "idle"
    BY NoCallType DEF Init
  <2> QED
    BY <2>1 DEF DataInv, CallsMoved, DownloadsMoved, StrippedInv, FilledInv,
                OwnersInv, RebindIsNotPreempted
<1> QED
  BY <1>1, InitIInv, Inductive, DataStep, PTL DEF Spec

\* A download is refused only where another one was, or where another PVC is
\* stored under the target's name: what clearPVCBinding removes and sets keeps
\* the old binding and the provisioner out of its way, for any mapping.
THEOREM RebindIsSafe == Spec => []RebindIsNotPreempted
<1>1. DataInv => RebindIsNotPreempted
  BY DEF DataInv
<1> QED
  BY <1>1, DataInvariance, PTL

-------------------------------------------------------------------------------
(* Success is the success of the PVC's own data.                               *)

\* No call and no operation is ahead of the Restore.
EpochInv ==
    /\ \A c \in Calls : calls[c].pc # "idle" => calls[c].uid <= epoch
    /\ \A i \in Items : ops[i].status # "none" => i[1] <= epoch

Exists(id) == \E d \in downloads : d.id = id

\* If third parties keep off, what the living Restore was promised exists.
PresentInv ==
    meddled = 0 /\ alive =>
        /\ \A c \in Calls : calls[c].pc = "return" /\ calls[c].uid = epoch
                                => Exists(calls[c].id)
        /\ \A i \in Items : ops[i].status # "none" /\ i[1] = epoch
                                => Exists(ops[i].id)

\* What a step does to the calls and operations, as far as this is concerned.
CallsFollow ==
    \A c \in Calls :
        \/ calls'[c].pc = "idle"
        \/ /\ calls'[c].pc # "return" \/ Exists(calls[c].id)'
           /\ calls'[c].uid = epoch \/ (/\ calls[c].pc # "idle"
                                        /\ calls'[c].uid = calls[c].uid)
        \/ /\ calls[c].pc = "return" /\ calls'[c].id = calls[c].id
           /\ calls'[c].uid = calls[c].uid

OpsFollow ==
    \A i \in Items :
        \/ ops'[i].status = "none"
        \/ ops[i].status # "none" /\ ops'[i].id = ops[i].id
        \/ \E c \in Calls : /\ calls[c].pc = "return" /\ calls[c].uid = i[1]
                            /\ ops'[i].id = calls[c].id

LEMMA NextCallsFollow ==
    ASSUME IInv, [Next]_vars
    PROVE  CallsFollow
<1>0. calls \in [Calls -> CallStates]
  BY DEF IInv, TypeOK
<1>1. CASE UNCHANGED calls
  BY <1>1 DEF CallsFollow
<1>2. ASSUME NEW c \in Calls, \A e \in Calls \ {c} : calls'[e] = calls[e],
             \/ calls'[c].pc = "idle"
             \/ /\ calls'[c].pc # "return" \/ Exists(calls[c].id)'
                /\ calls'[c].uid = epoch \/ (/\ calls[c].pc # "idle"
                                             /\ calls'[c].uid = calls[c].uid)
             \/ /\ calls[c].pc = "return" /\ calls'[c].id = calls[c].id
                /\ calls'[c].uid = calls[c].uid
      PROVE  CallsFollow
  BY <1>2 DEF CallsFollow
<1>3. ASSUME NEW c \in Calls, FailCall(c)
      PROVE  CallsFollow
  BY <1>0, <1>2, <1>3, NoCallType DEF FailCall
<1>4. CASE ExecuteSteps
  <2>1. ASSUME NEW c \in Calls, NEW p \in PVCs, Execute(c, p)
        PROVE  CallsFollow
    BY <1>0, <1>2, <2>1 DEF Execute, NoCall
  <2>2. ASSUME NEW c \in Calls, getBackup(c)
        PROVE  CallsFollow
    <3>1. ASSUME NEW l, calls' = [calls EXCEPT ![c] =
                     [@ EXCEPT !.pc = "create", !.location = l]]
          PROVE  CallsFollow
      BY <1>0, <1>2, <2>2, <3>1 DEF CallStates, getBackup
    <3> QED
      BY <1>3, <2>2, <3>1 DEF getBackup, UseLocation
  <2>3. ASSUME NEW c \in Calls, createDataDownloadResource(c)
        PROVE  CallsFollow
    <3>1. calls[c].pc = "create"
      BY <2>3 DEF createDataDownloadResource
    <3>2. CASE calls' = [calls EXCEPT ![c].pc = "get"]
      BY <1>0, <1>2, <3>1, <3>2 DEF CallStates
    <3>3. CASE /\ calls' = [calls EXCEPT ![c] =
                      [@ EXCEPT !.pc = "return", !.id = nextId]]
               /\ downloads' = downloads \cup
                      {NewDownload(nextId, calls[c].uid, calls[c].pvc,
                                   calls[c].location)}
      <4>1. NewDownload(nextId, calls[c].uid, calls[c].pvc,
                        calls[c].location).id = nextId
        BY DEF NewDownload
      <4>2. \E d \in downloads' : d.id = nextId
        BY <3>3, <4>1
      <4>3. calls'[c].id = nextId /\ calls'[c].uid = calls[c].uid
            /\ \A e \in Calls \ {c} : calls'[e] = calls[e]
        BY <1>0, <3>3 DEF CallStates
      <4>4. Exists(calls[c].id)'
        BY <4>2, <4>3 DEF Exists
      <4> QED
        BY <1>2, <3>1, <4>3, <4>4
    <3> QED
      BY <1>3, <2>3, <3>2, <3>3 DEF createDataDownloadResource
  <2>4. ASSUME NEW c \in Calls, getDataDownloadByName(c)
        PROVE  CallsFollow
    <3>1. calls[c].pc = "get" /\ downloads' = downloads
      BY <2>4 DEF getDataDownloadByName, objects
    <3>2. ASSUME NEW n, calls' = [calls EXCEPT ![c] =
                     [@ EXCEPT !.pc = "create", !.attempt = n]]
          PROVE  CallsFollow
      BY <1>0, <1>2, <3>1, <3>2 DEF CallStates
    <3>3. ASSUME NEW d \in downloads, calls' = [calls EXCEPT ![c] =
                     [@ EXCEPT !.pc = "return", !.id = d.id, !.opID = d.opID]]
          PROVE  CallsFollow
      <4>1. calls'[c].id = d.id /\ calls'[c].uid = calls[c].uid
            /\ \A e \in Calls \ {c} : calls'[e] = calls[e]
        BY <1>0, <3>3 DEF CallStates
      <4>2. Exists(calls[c].id)'
        BY <3>1, <4>1 DEF Exists
      <4> QED
        BY <1>2, <3>1, <4>1, <4>2
    <3> QED
      BY <1>3, <2>4, <3>2, <3>3 DEF getDataDownloadByName, Named
  <2>5. ASSUME NEW c \in Calls, Return(c)
        PROVE  CallsFollow
    BY <1>3, <2>5 DEF Return, FailCall
  <2> QED
    BY <1>1, <1>4, <2>1, <2>2, <2>3, <2>4, <2>5
    DEF ExecuteSteps, ItemSteps, CallSteps, ExecuteOther, velero
<1>5. CASE OperationSteps
  BY <1>1, <1>5
  DEF OperationSteps, CancelSteps, Progress, Timeout, CancelLookup,
      patchDataDownloadCancel
<1>6. CASE EnvironmentSteps
  <2>1. ASSUME NEW c \in Calls, Abandon(c)
        PROVE  CallsFollow
    <3>1. /\ calls'[c].pc = calls[c].pc /\ calls'[c].uid = calls[c].uid
          /\ calls'[c].id = calls[c].id
          /\ \A e \in Calls \ {c} : calls'[e] = calls[e]
          /\ calls[c].pc # "idle"
      BY <1>0, <2>1 DEF Abandon, CallStates
    <3> QED
      BY <1>2, <3>1
  <2>2. CASE Crash
    BY <2>2, NoCallType DEF Crash, CallsFollow
  <2> QED
    BY <1>1, <1>6, <2>1, <2>2
    DEF EnvironmentSteps, ClusterSteps, VMCancels, DeleteRestore,
        RecreateRestore, BackupChanges,
        ForeignCreate, GarbageCollect, ForeignDelete, ControllerSteps,
        ControllerWorks, ControllerBinds, ControllerCancels, Provision, velero
<1>7. CASE UNCHANGED vars
  BY <1>1, <1>7 DEF vars, velero
<1> QED
  BY <1>4, <1>5, <1>6, <1>7 DEF Next

LEMMA NextOpsFollow ==
    ASSUME IInv, [Next]_vars
    PROVE  OpsFollow
<1>0. ops \in [Items -> OperationStates]
  BY DEF IInv, TypeOK
<1>1. CASE UNCHANGED ops
  BY <1>1 DEF OpsFollow
<1>2. ASSUME NEW i \in Items, ops[i].status # "none",
             NEW st, ops' = [ops EXCEPT ![i].status = st]
      PROVE  OpsFollow
  <2>1. /\ \A j \in Items \ {i} : ops'[j] = ops[j]
        /\ ops'[i].id = ops[i].id
    BY <1>0, <1>2 DEF OperationStates
  <2> QED
    BY <1>2, <2>1 DEF OpsFollow
<1>3. ASSUME NEW c \in Calls, Return(c)
      PROVE  OpsFollow
  <2> DEFINE item == <<calls[c].uid, calls[c].pvc>>
  <2>1. calls[c].pc = "return" /\ item[1] = calls[c].uid
    BY <1>3 DEF Return
  <2>2. ASSUME NEW i \in Items, i = item,
               ops' = [ops EXCEPT ![item] =
                   [status |-> "InProgress", opID |-> calls[c].opID,
                    id |-> calls[c].id]]
        PROVE  ops'[i].id = calls[c].id
    BY <1>0, <2>2
  <2>3. ASSUME NEW i \in Items, i # item
        PROVE  ops'[i] = ops[i]
    BY <1>0, <1>3, <2>3 DEF Return
  <2> QED
    BY <1>1, <1>3, <2>1, <2>2, <2>3 DEF Return, OpsFollow
<1>4. CASE ExecuteSteps
  BY <1>1, <1>3, <1>4
  DEF ExecuteSteps, ItemSteps, CallSteps, ExecuteOther, Execute, getBackup,
      createDataDownloadResource, getDataDownloadByName, velero
<1>5. CASE OperationSteps
  <2>1. ASSUME NEW i \in Items, Progress(i)
        PROVE  OpsFollow
    BY <1>2, <2>1 DEF Progress, Polled
  <2>2. ASSUME NEW i \in Items, CancelSteps(i)
        PROVE  OpsFollow
    <3>1. ops[i].status # "none"
      BY <2>2 DEF IInv, CancelsInv, CancelInv, CancelSteps, CancelLookup,
                  patchDataDownloadCancel
    <3>2. CASE CancelReturns(i)
      BY <1>2, <3>1, <3>2 DEF CancelReturns
    <3> QED
      BY <1>1, <2>2, <3>2
      DEF CancelSteps, CancelLookup, patchDataDownloadCancel, AttemptFails
  <2> QED
    BY <1>1, <1>5, <2>1, <2>2 DEF OperationSteps, Timeout
<1>6. CASE EnvironmentSteps
  BY <1>1, <1>6
  DEF EnvironmentSteps, ClusterSteps, VMCancels, Abandon, Crash,
      DeleteRestore, RecreateRestore,
      BackupChanges, ForeignCreate, GarbageCollect, ForeignDelete,
      ControllerSteps, ControllerWorks, ControllerBinds, ControllerCancels,
      Provision, velero
<1>7. CASE UNCHANGED vars
  BY <1>1, <1>7 DEF vars, velero
<1> QED
  BY <1>4, <1>5, <1>6, <1>7 DEF Next

LEMMA EpochStep ==
    ASSUME IInv, [Next]_vars
    PROVE  /\ epoch \in Nat /\ epoch' \in Nat
           /\ \/ epoch' = epoch /\ (alive' => alive)
              \/ epoch' = epoch + 1 /\ ~alive
<1>1. \/ epoch' = epoch /\ alive' = alive
      \/ DeleteRestore \/ RecreateRestore
  BY DEF Next, vars, ExecuteSteps, ItemSteps, CallSteps, ExecuteOther,
         Execute, getBackup,
         createDataDownloadResource, getDataDownloadByName, Return,
         OperationSteps, CancelSteps, Progress, Timeout, CancelLookup,
         patchDataDownloadCancel, EnvironmentSteps, ClusterSteps, VMCancels,
         Abandon, Crash,
         BackupChanges, ForeignCreate, GarbageCollect, ForeignDelete,
         ControllerSteps, ControllerWorks, ControllerBinds, ControllerCancels,
         Provision, objects
<1>2. epoch \in Nat
  BY BoundsAssumption DEF IInv, TypeOK, UIDs
<1> QED
  BY <1>1, <1>2 DEF DeleteRestore, RecreateRestore

\* A download of the living Restore goes only if a third party deletes it.
LEMMA ExistsStays ==
    ASSUME IInv, [Next]_vars, meddled' = 0, alive, NEW d \in downloads,
           d.owner = epoch
    PROVE  \E e \in downloads' : e.id = d.id
<1>0. DownloadsStep
  BY NextDownloads
<1>1. CASE downloads \subseteq downloads'
  BY <1>1
<1>2. CASE OneChanged
  BY <1>2 DEF OneChanged, Replace, SameObject
<1>3. CASE OneCreated
  BY <1>3 DEF OneCreated
<1>4. CASE \E f \in downloads : GarbageCollect(f)
  <2>1. PICK f \in downloads : GarbageCollect(f)
    BY <1>4
  <2>2. f # d /\ downloads' = downloads \ {f}
    BY <2>1 DEF GarbageCollect
  <2> QED
    BY <2>2
<1>5. CASE \E f \in downloads : ForeignDelete(f)
  BY <1>5 DEF ForeignDelete, Meddle, IInv, TypeOK
<1>6. CASE ExecuteSteps
  BY <1>1, <1>6
  DEF ExecuteSteps, ItemSteps, CallSteps, ExecuteOther, Execute, getBackup,
      getDataDownloadByName,
      createDataDownloadResource, Return, objects
<1>7. CASE OperationSteps
  <2> QED
    BY <1>1, <1>2, <1>7, PatchDownloads
    DEF OperationSteps, CancelSteps, Progress, Timeout, CancelLookup, objects
<1>8. CASE EnvironmentSteps
  BY <1>1, <1>2, <1>4, <1>5, <1>8, ControllerDownloads, FlagDownloads
  DEF EnvironmentSteps, ClusterSteps, Abandon, Crash, DeleteRestore,
      RecreateRestore, BackupChanges, ForeignCreate, Provision, objects
<1>9. CASE UNCHANGED vars
  BY <1>1, <1>9 DEF vars, objects
<1> QED
  BY <1>6, <1>7, <1>8, <1>9 DEF Next

LEMMA EpochInvStep ==
    ASSUME IInv, EpochInv, [Next]_vars
    PROVE  EpochInv'
<1>0. /\ CallsFollow /\ OpsFollow
      /\ epoch \in Nat /\ epoch' \in Nat /\ epoch <= epoch'
  <2>1. CallsFollow /\ OpsFollow
    BY NextCallsFollow, NextOpsFollow
  <2>2. epoch \in Nat /\ (epoch' = epoch \/ epoch' = epoch + 1)
    BY EpochStep
  <2> QED
    BY <2>1, <2>2
<1>1. ASSUME NEW c \in Calls, calls'[c].pc # "idle"
      PROVE  calls'[c].uid <= epoch'
  <2>1. calls'[c].uid = epoch \/ (/\ calls[c].pc # "idle"
                                  /\ calls'[c].uid = calls[c].uid)
    BY <1>0, <1>1 DEF CallsFollow
  <2>2. calls[c].pc # "idle" => calls[c].uid \in Nat /\ calls[c].uid <= epoch
    BY DEF EpochInv, IInv, TypeOK, CallsInv, CallInv, UIDs
  <2> QED
    BY <1>0, <2>1, <2>2
<1>2. ASSUME NEW i \in Items, ops'[i].status # "none"
      PROVE  i[1] <= epoch'
  <2>1. \/ ops[i].status # "none"
        \/ \E c \in Calls : calls[c].pc # "idle" /\ calls[c].uid = i[1]
    BY <1>0, <1>2 DEF OpsFollow
  <2>2. i[1] \in Nat /\ i[1] <= epoch
    BY <2>1 DEF EpochInv, Items, UIDs
  <2> QED
    BY <1>0, <2>2
<1> QED
  BY <1>1, <1>2 DEF EpochInv

LEMMA PresentInvStep ==
    ASSUME IInv, EpochInv, PresentInv, [Next]_vars
    PROVE  PresentInv'
<1> SUFFICES ASSUME meddled' = 0, alive'
             PROVE  /\ \A c \in Calls :
                          calls'[c].pc = "return" /\ calls'[c].uid = epoch'
                              => Exists(calls[c].id)'
                    /\ \A i \in Items :
                          ops'[i].status # "none" /\ i[1] = epoch'
                              => Exists(ops[i].id)'
  BY DEF PresentInv
<1>0. /\ CallsFollow /\ OpsFollow /\ meddled = 0 /\ epoch \in Nat
      /\ (alive /\ epoch' = epoch) \/ (epoch' = epoch + 1)
  <2>1. CallsFollow /\ OpsFollow /\ meddled = 0
    BY NextCallsFollow, NextOpsFollow, MeddledStep
  <2>2. epoch \in Nat /\ ((alive /\ epoch' = epoch) \/ epoch' = epoch + 1)
    BY EpochStep
  <2> QED
    BY <2>1, <2>2
<1>1. ASSUME NEW c \in Calls, calls[c].pc = "return", calls[c].uid = epoch'
      PROVE  \E d \in downloads' : d.id = calls[c].id
  <2>1. calls[c].uid <= epoch /\ calls[c].uid \in Nat
    BY <1>1 DEF EpochInv, IInv, TypeOK, CallsInv, CallInv, UIDs
  <2>2. alive /\ epoch' = epoch
    BY <1>0, <1>1, <2>1
  <2>3. PICK d \in downloads : d.id = calls[c].id
    BY <1>0, <1>1, <2>2 DEF PresentInv, Exists
  <2>4. d.owner = epoch
    BY <1>1, <2>2, <2>3 DEF IInv, CallsInv, CallInv, Bound, Trackable
  <2> QED
    BY <2>2, <2>3, <2>4, ExistsStays
<1>2. ASSUME NEW i \in Items, ops[i].status # "none", i[1] = epoch'
      PROVE  \E d \in downloads' : d.id = ops[i].id
  <2>1. i[1] <= epoch /\ i[1] \in Nat
    BY <1>2 DEF EpochInv, Items, UIDs
  <2>2. alive /\ epoch' = epoch
    BY <1>0, <1>2, <2>1
  <2>3. PICK d \in downloads : d.id = ops[i].id
    BY <1>0, <1>2, <2>2 DEF PresentInv, Exists
  <2>4. d.owner = epoch
    BY <1>2, <2>2, <2>3 DEF IInv, OpsInv, OpInv, Bound, Trackable
  <2> QED
    BY <2>2, <2>3, <2>4, ExistsStays
<1>3. ASSUME NEW c \in Calls, calls'[c].pc = "return", calls'[c].uid = epoch'
      PROVE  Exists(calls[c].id)'
  BY <1>0, <1>1, <1>3 DEF CallsFollow, Exists
<1>4. ASSUME NEW i \in Items, ops'[i].status # "none", i[1] = epoch'
      PROVE  Exists(ops[i].id)'
  BY <1>0, <1>1, <1>2, <1>4 DEF OpsFollow, Exists
<1> QED
  BY <1>3, <1>4

\* Success is reported by a Progress that finds a completed download.
LEMMA SuccessStep ==
    ASSUME IInv, [Next]_vars, NEW j \in Items, ops'[j].status = "Completed"
    PROVE  \/ ops[j].status = "Completed"
           \/ /\ Polled(j)
              /\ \E d \in WithOperationID(ops[j].opID) : d.phase = "Completed"
<1>0. ops \in [Items -> OperationStates] /\ \A d \in downloads : d \in Downloads
  BY DEF IInv, TypeOK
<1>1. CASE UNCHANGED ops
  BY <1>1
<1>2. ASSUME NEW i \in Items, NEW st, st # "Completed",
             ops' = [ops EXCEPT ![i].status = st]
      PROVE  ops[j].status = "Completed"
  BY <1>0, <1>2 DEF OperationStates
<1>3. ASSUME NEW c \in Calls, Return(c)
      PROVE  ops[j].status = "Completed"
  BY <1>0, <1>3 DEF Return
<1>4. CASE ExecuteSteps
  BY <1>1, <1>3, <1>4
  DEF ExecuteSteps, ItemSteps, CallSteps, ExecuteOther, Execute, getBackup,
      createDataDownloadResource, getDataDownloadByName, velero
<1>5. CASE OperationSteps
  <2>1. ASSUME NEW i \in Items, Progress(i)
        PROVE  \/ ops[j].status = "Completed"
               \/ /\ Polled(j)
                  /\ \E d \in WithOperationID(ops[j].opID) : d.phase = "Completed"
    <3>1. CASE ops' = [ops EXCEPT ![i].status = "Failed"]
      BY <1>2, <3>1
    <3>2. ASSUME NEW d \in WithOperationID(ops[i].opID),
                 ops' = [ops EXCEPT ![i].status = ProgressOf(d)]
          PROVE  \/ ops[j].status = "Completed"
                 \/ /\ Polled(j)
                    /\ \E e \in WithOperationID(ops[j].opID) :
                          e.phase = "Completed"
      <4>1. CASE i = j
        <5>1. ProgressOf(d) = "Completed"
          BY <1>0, <3>2, <4>1 DEF OperationStates
        <5>2. d \in Downloads
          BY <1>0 DEF WithOperationID
        <5>3. d.phase = "Completed"
          BY <5>1, <5>2 DEF ProgressOf, Running, Terminal, Downloads
        <5> QED
          BY <2>1, <4>1, <5>3 DEF Progress
      <4> QED
        BY <1>0, <3>2, <4>1
    <3> QED
      BY <2>1, <3>1, <3>2 DEF Progress
  <2>2. ASSUME NEW i \in Items, CancelSteps(i)
        PROVE  ops[j].status = "Completed"
    BY <1>1, <1>2, <2>2
    DEF CancelSteps, CancelLookup, patchDataDownloadCancel, AttemptFails,
        CancelReturns
  <2> QED
    BY <1>1, <1>5, <2>1, <2>2 DEF OperationSteps, Timeout
<1>6. CASE EnvironmentSteps
  BY <1>1, <1>6
  DEF EnvironmentSteps, ClusterSteps, VMCancels, Abandon, Crash,
      DeleteRestore, RecreateRestore,
      BackupChanges, ForeignCreate, GarbageCollect, ForeignDelete,
      ControllerSteps, ControllerWorks, ControllerBinds, ControllerCancels,
      Provision, velero
<1>7. CASE UNCHANGED vars
  BY <1>1, <1>7 DEF vars, velero
<1> QED
  BY <1>4, <1>5, <1>6, <1>7 DEF Next

LEMMA OwnDataStep ==
    ASSUME IInv, DataInv, PresentInv, SuccessMeansOwnData, [Next]_vars
    PROVE  SuccessMeansOwnData'
<1> SUFFICES ASSUME NEW i \in Items, meddled' = 0, ops'[i].status = "Completed"
             PROVE  \E n \in Stored(target(i[2]))' : n.volume = {i}
  BY DEF SuccessMeansOwnData, target, targetNamespace
<1>1. \E o \in Stored(target(i[2])) : o.volume = {i}
  <2>1. meddled = 0
    BY MeddledStep
  <2>2. CASE ops[i].status = "Completed"
    BY <2>1, <2>2 DEF SuccessMeansOwnData
  <2>3. ASSUME Polled(i), NEW d \in WithOperationID(ops[i].opID),
               d.phase = "Completed"
        PROVE  \E o \in Stored(target(i[2])) : o.volume = {i}
    <3>1. alive /\ i[1] = epoch /\ ops[i].status # "none"
      BY <2>3 DEF Polled
    <3>2. PICK e \in downloads : e.id = ops[i].id
      BY <2>1, <3>1 DEF PresentInv, Exists
    <3>3. e \in Own(i)
      BY <3>1, <3>2 DEF Own, WithId
    <3>4. d = e /\ Trackable(e, i[1], i[2], ops[i].opID)
      BY <2>3, <3>3, OwnIsTracked DEF WithOperationID
    <3>5. PICK o \in Stored(d.target) : o.volume = {<<d.owner, d.pvc>>}
      BY <2>3 DEF DataInv, FilledInv, WithOperationID
    <3>6. d.owner = i[1] /\ d.pvc = i[2] /\ d.target = target(i[2])
      BY <3>4 DEF Trackable
    <3>7. <<d.owner, d.pvc>> = i
      BY <3>6 DEF Items
    <3> QED
      BY <3>5, <3>6, <3>7
  <2> QED
    BY <2>2, <2>3, SuccessStep
<1>2. PICK o \in Stored(target(i[2])) : o.volume = {i}
  BY <1>1
<1>3. PVCsStay /\ o.volume # {}
  BY <1>2, NextPVCs, PVCsKept
<1>4. PICK n \in Stored(target(i[2]))' : n.volume = o.volume
  BY <1>3, StoredStays
<1> QED
  BY <1>2, <1>4

LEMMA PresentInvariance == Spec => [](IInv /\ DataInv /\ EpochInv /\ PresentInv)
<1>1. Init => EpochInv /\ PresentInv
  <2> SUFFICES ASSUME Init PROVE EpochInv /\ PresentInv
    OBVIOUS
  <2>1. /\ \A c \in Calls : calls[c].pc = "idle"
        /\ \A i \in Items : ops[i].status = "none"
    BY NoCallType, NoOperationType DEF Init
  <2> QED
    BY <2>1 DEF EpochInv, PresentInv
<1>2. ASSUME IInv, EpochInv, PresentInv, [Next]_vars
      PROVE  (EpochInv /\ PresentInv)'
  BY <1>2, EpochInvStep, PresentInvStep
<1> QED
  BY <1>1, <1>2, DataInvariance, PTL DEF Spec

\* Velero records success only for a PVC that holds its own data: not those of a
\* PVC mapped to the same place, nor of an earlier Restore, for any mapping and
\* any number of Restores, calls and restarts.
THEOREM SuccessIsOwn == Spec => []SuccessMeansOwnData
<1>1. Init => SuccessMeansOwnData
  <2> SUFFICES ASSUME Init PROVE SuccessMeansOwnData
    OBVIOUS
  <2>1. \A i \in Items : ops[i].status = "none"
    BY NoOperationType DEF Init
  <2> QED
    BY <2>1 DEF SuccessMeansOwnData
<1>2. ASSUME IInv, DataInv, PresentInv, SuccessMeansOwnData, [Next]_vars
      PROVE  SuccessMeansOwnData'
  BY <1>2, OwnDataStep
<1> QED
  BY <1>1, <1>2, PresentInvariance, PTL DEF Spec

-------------------------------------------------------------------------------
(* One Restore, one location.                                                  *)

\* What carries this id is stored where the process looks for that Restore.
Located(id, uid) ==
    /\ cached[uid] \in Locations
    /\ \A d \in downloads : d.id = id => d.bsl = cached[uid]

CallLocated(c) ==
    /\ calls[c].pc \in {"create", "get"} =>
          calls[c].location = cached[calls[c].uid]
    /\ calls[c].pc = "return" => Located(calls[c].id, calls[c].uid)

OpLocated(i) == ops[i].status # "none" => Located(ops[i].id, i[1])

LocatedInv ==
    crashes = 0 => /\ \A c \in Calls : CallLocated(c)
                   /\ \A i \in Items : OpLocated(i)

\* A location, once cached, is kept until the process restarts.
LEMMA CachedStep ==
    ASSUME IInv, [Next]_vars, crashes' = 0
    PROVE  /\ crashes = 0
           /\ \A u \in UIDs : cached[u] \in Locations => cached'[u] = cached[u]
<1>0. crashes \in Nat /\ "absent" \notin Locations
      /\ cached \in [UIDs -> Locations \cup {"unset", "absent"}]
  BY ItemsAssumption DEF IInv, TypeOK
<1>1. CASE UNCHANGED <<crashes, cached>>
  BY <1>1
<1>2. ASSUME NEW c \in Calls, getBackup(c)
      PROVE  /\ crashes = 0
             /\ \A u \in UIDs : cached[u] \in Locations => cached'[u] = cached[u]
  BY <1>0, <1>2 DEF getBackup, budget, Spend
<1>3. CASE ExecuteSteps
  BY <1>1, <1>2, <1>3
  DEF ExecuteSteps, ItemSteps, CallSteps, ExecuteOther, Execute,
      createDataDownloadResource,
      getDataDownloadByName, Return, budget, Spend
<1>4. CASE OperationSteps
  BY <1>1, <1>4
  DEF OperationSteps, CancelSteps, Progress, Timeout, CancelLookup,
      patchDataDownloadCancel, budget, Spend
<1>5. CASE EnvironmentSteps
  <2>1. ~Crash
    BY <1>0 DEF Crash
  <2> QED
    BY <1>1, <1>5, <2>1
    DEF EnvironmentSteps, ClusterSteps, VMCancels, Abandon,
        DeleteRestore, RecreateRestore,
        BackupChanges, ForeignCreate, GarbageCollect, ForeignDelete,
        ControllerSteps, ControllerWorks, ControllerBinds, ControllerCancels,
        Provision, Meddle, budget
<1>6. CASE UNCHANGED vars
  BY <1>1, <1>6 DEF vars, budget
<1> QED
  BY <1>3, <1>4, <1>5, <1>6 DEF Next

LEMMA LocatedStays ==
    ASSUME IInv, [Next]_vars, crashes' = 0,
           NEW id \in Nat, id < nextId, NEW uid \in UIDs, Located(id, uid)
    PROVE  Located(id, uid)'
<1>1. cached'[uid] = cached[uid] /\ cached[uid] \in Locations
  BY CachedStep DEF Located
<1>2. DownloadsStep /\ nextId \in Nat
  BY NextDownloads DEF IInv, TypeOK
<1>3. ASSUME NEW e \in downloads', e.id = id
      PROVE  \E d \in downloads : d.id = id /\ d.bsl = e.bsl
  <2>1. CASE NothingAdded
    BY <1>3, <2>1 DEF NothingAdded
  <2>2. CASE OneChanged
    BY <1>3, <2>2 DEF OneChanged, Replace, SameObject
  <2>3. CASE OneCreated
    BY <1>2, <1>3, <2>3 DEF OneCreated
  <2> QED
    BY <1>2, <2>1, <2>2, <2>3 DEF DownloadsStep
<1> QED
  BY <1>1, <1>3 DEF Located

LEMMA CallLocatedFrame ==
    ASSUME IInv, [Next]_vars, crashes' = 0, NEW c \in Calls, CallLocated(c),
           \/ calls'[c].pc \in {"idle", "backup"}
           \/ /\ calls'[c].pc = calls[c].pc /\ calls'[c].uid = calls[c].uid
              /\ calls'[c].id = calls[c].id
              /\ calls'[c].location = calls[c].location
           \/ /\ calls[c].pc \in {"create", "get"}
              /\ calls'[c].pc \in {"create", "get"}
              /\ calls'[c].uid = calls[c].uid
              /\ calls'[c].location = calls[c].location
    PROVE  CallLocated(c)'
<1>1. CASE calls'[c].pc \in {"idle", "backup"}
  BY <1>1 DEF CallLocated
<1>2. CASE /\ calls'[c].pc = "return" /\ calls[c].pc = "return"
           /\ calls'[c].uid = calls[c].uid /\ calls'[c].id = calls[c].id
  <2>1. /\ calls[c].id \in Nat /\ calls[c].id < nextId /\ calls[c].uid \in UIDs
        /\ Located(calls[c].id, calls[c].uid)
    BY <1>2 DEF IInv, CallsInv, CallInv, Bound, TypeOK, CallStates, CallLocated
  <2>2. /\ cached'[calls[c].uid] \in Locations
        /\ \A d \in downloads' : d.id = calls[c].id =>
              d.bsl = cached'[calls[c].uid]
    BY <2>1, LocatedStays DEF Located
  <2> QED
    BY <1>2, <2>2 DEF CallLocated, Located
<1>3. CASE /\ calls[c].pc \in {"create", "get"}
           /\ calls'[c].pc \in {"create", "get"}
           /\ calls'[c].uid = calls[c].uid
           /\ calls'[c].location = calls[c].location
  <2>1. calls[c].uid \in UIDs /\ calls[c].location \in Locations
    BY <1>3 DEF IInv, CallsInv, CallInv
  <2>2. cached'[calls[c].uid] = calls[c].location
    BY <1>3, <2>1, CachedStep DEF CallLocated
  <2> QED
    BY <1>3, <2>2 DEF CallLocated
<1>4. calls[c].pc \in {"idle", "backup", "create", "get", "return"}
  BY DEF IInv, TypeOK, CallStates
<1> QED
  BY <1>1, <1>2, <1>3, <1>4

LEMMA BackupLocated ==
    ASSUME IInv, [Next]_vars, crashes' = 0, NEW c \in Calls, CallLocated(c),
           getBackup(c)
    PROVE  CallLocated(c)'
<1>0. /\ calls \in [Calls -> CallStates] /\ calls[c].uid \in UIDs
      /\ cached \in [UIDs -> Locations \cup {"unset", "absent"}]
  BY DEF IInv, TypeOK, CallsInv, CallInv, getBackup
<1>1. CASE FailCall(c)
  BY <1>0, <1>1, NoCallType, CallLocatedFrame DEF FailCall
<1>2. ASSUME NEW l \in Locations, cached'[calls[c].uid] = l,
             calls' = [calls EXCEPT ![c] =
                 [@ EXCEPT !.pc = "create", !.location = l]]
      PROVE  CallLocated(c)'
  <2>1. /\ calls'[c].pc = "create" /\ calls'[c].location = l
        /\ calls'[c].uid = calls[c].uid
    BY <1>0, <1>2 DEF CallStates
  <2> QED
    BY <1>2, <2>1 DEF CallLocated
<1>3. ASSUME NEW l, UseLocation(c, l), cached'[calls[c].uid] = l
      PROVE  CallLocated(c)'
  BY <1>1, <1>2, <1>3 DEF UseLocation
<1>4. \/ FailCall(c)
      \/ \E l : UseLocation(c, l) /\ cached'[calls[c].uid] = l
  BY <1>0 DEF getBackup
<1> QED
  BY <1>1, <1>3, <1>4

LEMMA CreateLocated ==
    ASSUME IInv, [Next]_vars, crashes' = 0, NEW c \in Calls, CallLocated(c),
           createDataDownloadResource(c)
    PROVE  CallLocated(c)'
<1>0. /\ calls \in [Calls -> CallStates] /\ calls[c].pc = "create"
      /\ calls[c].uid \in UIDs /\ calls[c].location \in Locations
      /\ cached' = cached /\ cached[calls[c].uid] = calls[c].location
  BY DEF IInv, TypeOK, CallsInv, CallInv, CallLocated, createDataDownloadResource
<1>1. CASE FailCall(c)
  BY <1>0, <1>1, NoCallType, CallLocatedFrame DEF FailCall
<1>2. CASE calls' = [calls EXCEPT ![c].pc = "get"]
  <2>1. /\ calls'[c].pc = "get" /\ calls'[c].uid = calls[c].uid
        /\ calls'[c].location = calls[c].location
    BY <1>0, <1>2 DEF CallStates
  <2> QED
    BY <1>0, <2>1, CallLocatedFrame
<1>3. CASE /\ calls' = [calls EXCEPT ![c] =
                  [@ EXCEPT !.pc = "return", !.id = nextId]]
           /\ downloads' = downloads \cup
                  {NewDownload(nextId, calls[c].uid, calls[c].pvc,
                               calls[c].location)}
  <2> DEFINE e == NewDownload(nextId, calls[c].uid, calls[c].pvc,
                              calls[c].location)
  <2>1. e.bsl = calls[c].location
    BY DEF NewDownload
  <2>2. \A d \in downloads : d.id # nextId
    <3>1. nextId \in Nat /\ \A d \in downloads : d.id < nextId
      BY DEF IInv, DownloadsInv, TypeOK
    <3> QED
      BY <3>1
  <2>3. \A d \in downloads' : d.id = nextId => d = e
    BY <1>3, <2>2
  <2>4. /\ calls'[c].pc = "return" /\ calls'[c].uid = calls[c].uid
        /\ calls'[c].id = nextId
    BY <1>0, <1>3 DEF CallStates
  <2> QED
    BY <1>0, <2>1, <2>3, <2>4 DEF CallLocated, Located
<1> QED
  BY <1>1, <1>2, <1>3 DEF createDataDownloadResource

LEMMA AdoptLocated ==
    ASSUME IInv, [Next]_vars, crashes' = 0, NEW c \in Calls, CallLocated(c),
           getDataDownloadByName(c)
    PROVE  CallLocated(c)'
<1>0. /\ calls \in [Calls -> CallStates] /\ calls[c].pc = "get"
      /\ calls[c].uid \in UIDs /\ calls[c].location \in Locations
      /\ cached' = cached /\ cached[calls[c].uid] = calls[c].location
      /\ downloads' = downloads
  BY DEF IInv, TypeOK, CallsInv, CallInv, CallLocated, getDataDownloadByName,
         objects
<1>1. CASE FailCall(c)
  BY <1>0, <1>1, NoCallType, CallLocatedFrame DEF FailCall
<1>2. CASE calls' = [calls EXCEPT ![c] =
               [@ EXCEPT !.pc = "create", !.attempt = calls[c].attempt + 1]]
  <2>1. /\ calls'[c].pc = "create" /\ calls'[c].uid = calls[c].uid
        /\ calls'[c].location = calls[c].location
    BY <1>0, <1>2 DEF CallStates
  <2> QED
    BY <1>0, <2>1, CallLocatedFrame
<1>3. ASSUME NEW d \in downloads, validateAdoptableDataDownload(d, calls[c]),
             calls' = [calls EXCEPT ![c] =
                 [@ EXCEPT !.pc = "return", !.id = d.id, !.opID = d.opID]]
      PROVE  CallLocated(c)'
  <2>1. d.bsl = calls[c].location
    BY <1>3 DEF validateAdoptableDataDownload
  <2>2. \A e \in downloads : e.id = d.id => e = d
    BY <1>3 DEF IInv, DownloadsInv
  <2>3. /\ calls'[c].pc = "return" /\ calls'[c].uid = calls[c].uid
        /\ calls'[c].id = d.id
    BY <1>0, <1>3 DEF CallStates
  <2> QED
    BY <1>0, <2>1, <2>2, <2>3 DEF CallLocated, Located
<1> QED
  BY <1>1, <1>2, <1>3 DEF getDataDownloadByName, Named

LEMMA CallsLocatedStep ==
    ASSUME IInv, LocatedInv, [Next]_vars, crashes' = 0, NEW e \in Calls
    PROVE  CallLocated(e)'
<1>0. calls \in [Calls -> CallStates] /\ CallLocated(e)
  BY CachedStep DEF IInv, TypeOK, LocatedInv
<1>1. CASE calls'[e] = calls[e]
  BY <1>0, <1>1, CallLocatedFrame
<1>2. CASE calls'[e].pc \in {"idle", "backup"}
  BY <1>0, <1>2, CallLocatedFrame
<1>3. ASSUME NEW c \in Calls,
             \/ getBackup(c)
             \/ createDataDownloadResource(c)
             \/ getDataDownloadByName(c)
      PROVE  CallLocated(e)'
  <2>1. e # c => calls'[e] = calls[e]
    BY <1>0, <1>3 DEF getBackup, UseLocation, createDataDownloadResource,
                      getDataDownloadByName, FailCall
  <2> QED
    BY <1>0, <1>1, <1>3, <2>1, BackupLocated, CreateLocated, AdoptLocated
<1>4. ASSUME NEW c \in Calls,
             Return(c) \/ \E p \in PVCs : Execute(c, p)
      PROVE  CallLocated(e)'
  <2>1. e # c => calls'[e] = calls[e]
    BY <1>0, <1>4 DEF Return, Execute
  <2>2. Return(c) => calls'[c].pc = "idle"
    BY <1>0, NoCallType DEF Return
  <2>3. ASSUME NEW p \in PVCs, Execute(c, p)
        PROVE  calls'[c].pc = "backup"
    BY <1>0, <2>3 DEF Execute, NoCall
  <2> QED
    BY <1>1, <1>2, <1>4, <2>1, <2>2, <2>3
<1>5. CASE ExecuteSteps
  BY <1>1, <1>3, <1>4, <1>5 DEF ExecuteSteps, ItemSteps, CallSteps,
                                ExecuteOther, velero
<1>6. CASE OperationSteps
  BY <1>1, <1>6 DEF OperationSteps, CancelSteps, Progress, Timeout,
                    CancelLookup, patchDataDownloadCancel
<1>7. CASE EnvironmentSteps
  <2>1. ASSUME NEW c \in Calls, Abandon(c)
        PROVE  CallLocated(e)'
    <3>1. /\ calls'[e].pc = calls[e].pc /\ calls'[e].uid = calls[e].uid
          /\ calls'[e].id = calls[e].id
          /\ calls'[e].location = calls[e].location
      BY <1>0, <2>1 DEF Abandon, CallStates
    <3> QED
      BY <1>0, <3>1, CallLocatedFrame
  <2>2. CASE Crash
    BY <1>2, <2>2, NoCallType DEF Crash
  <2>3. CASE UNCHANGED calls
    BY <1>1, <2>3
  <2> QED
    BY <1>7, <2>1, <2>2, <2>3
    DEF EnvironmentSteps, ClusterSteps, VMCancels, DeleteRestore,
        RecreateRestore, BackupChanges,
        ForeignCreate, GarbageCollect, ForeignDelete, ControllerSteps,
        ControllerWorks, ControllerBinds, ControllerCancels, Provision, velero
<1>8. CASE UNCHANGED vars
  BY <1>1, <1>8 DEF vars, velero
<1> QED
  BY <1>5, <1>6, <1>7, <1>8 DEF Next

LEMMA OpsLocatedStep ==
    ASSUME IInv, LocatedInv, [Next]_vars, crashes' = 0, NEW i \in Items
    PROVE  OpLocated(i)'
<1>0. /\ \A c \in Calls : CallLocated(c)
      /\ OpLocated(i) /\ OpsFollow /\ i[1] \in UIDs
  BY CachedStep, NextOpsFollow DEF LocatedInv, Items
<1>1. CASE ops[i].status # "none" /\ ops'[i].id = ops[i].id
  <2>1. ops[i].id \in Nat /\ ops[i].id < nextId /\ Located(ops[i].id, i[1])
    BY <1>0, <1>1 DEF IInv, OpsInv, OpInv, Bound, TypeOK, OperationStates,
                      OpLocated
  <2>2. /\ cached'[i[1]] \in Locations
        /\ \A d \in downloads' : d.id = ops[i].id => d.bsl = cached'[i[1]]
    BY <1>0, <2>1, LocatedStays DEF Located
  <2> QED
    BY <1>1, <2>2 DEF OpLocated, Located
<1>2. ASSUME NEW c \in Calls, calls[c].pc = "return", calls[c].uid = i[1],
             ops'[i].id = calls[c].id
      PROVE  OpLocated(i)'
  <2>1. /\ calls[c].id \in Nat /\ calls[c].id < nextId
        /\ Located(calls[c].id, i[1])
    BY <1>0, <1>2 DEF IInv, CallsInv, CallInv, Bound, TypeOK, CallStates,
                      CallLocated
  <2>2. /\ cached'[i[1]] \in Locations
        /\ \A d \in downloads' : d.id = calls[c].id => d.bsl = cached'[i[1]]
    BY <1>0, <2>1, LocatedStays DEF Located
  <2> QED
    BY <1>2, <2>2 DEF OpLocated, Located
<1>3. CASE ops'[i].status = "none"
  BY <1>3 DEF OpLocated
<1> QED
  BY <1>0, <1>1, <1>2, <1>3 DEF OpsFollow

\* All PVCs of a Restore are read from one storage location, whatever becomes of
\* the Backup meanwhile, for as long as the process with its cached copy lives.
THEOREM LocationIsOne == Spec => []OneLocationPerRestore
<1>1. Init => LocatedInv
  <2> SUFFICES ASSUME Init PROVE LocatedInv
    OBVIOUS
  <2>1. /\ \A c \in Calls : calls[c].pc = "idle"
        /\ \A i \in Items : ops[i].status = "none"
    BY NoCallType, NoOperationType DEF Init
  <2> QED
    BY <2>1 DEF LocatedInv, CallLocated, OpLocated
<1>2. ASSUME IInv, LocatedInv, [Next]_vars PROVE LocatedInv'
  BY <1>2, CallsLocatedStep, OpsLocatedStep DEF LocatedInv
<1>3. LocatedInv => OneLocationPerRestore
  BY DEF LocatedInv, OpLocated, Located, OneLocationPerRestore, Own, WithId
<1> QED
  BY <1>1, <1>2, <1>3, Invariance, PTL DEF Spec

-------------------------------------------------------------------------------
(* Cancel persists.                                                            *)

\* What Cancel has found is one object; its attempts and its time went to
\* requests that failed.
PatchInv(i) ==
    /\ cancels[i].pc = "patch" => \E n : cancels[i].found = {n}
    /\ cancels[i].tries <= faults["patch"] + faults["hang"]
    /\ cancels[i].spent <= faults["hang"] * CallTimeout

\* A step in which no attempt of the call fails.
NothingSpent(i) ==
    /\ \/ /\ cancels'[i].tries = cancels[i].tries
          /\ cancels'[i].spent = cancels[i].spent
       \/ cancels'[i].tries = 0 /\ cancels'[i].spent = 0
    /\ cancels'[i].pc = "patch" => \/ cancels'[i] = cancels[i]
                                   \/ \E n : cancels'[i].found = {n}

LEMMA MoreHangs ==
    ASSUME NEW m \in Nat, NEW n \in Nat, m <= n
    PROVE  /\ m * CallTimeout \in Nat
           /\ m * CallTimeout <= n * CallTimeout
           /\ (m + 1) * CallTimeout = m * CallTimeout + CallTimeout
<1>1. CallTimeout \in Nat
  BY BoundsAssumption
<1>2. PICK k \in Nat : n = m + k
  <2>1. n - m \in Nat /\ n = m + (n - m)
    OBVIOUS
  <2> QED
    BY <2>1
<1>3. n * CallTimeout = m * CallTimeout + k * CallTimeout
  BY <1>1, <1>2
<1>4. k * CallTimeout \in Nat /\ m * CallTimeout \in Nat
  BY <1>1
<1> QED
  BY <1>1, <1>3, <1>4

LEMMA FaultsGrow ==
    ASSUME IInv, [Next]_vars
    PROVE  \A k \in FaultKinds :
               faults[k] \in Nat /\ faults'[k] \in Nat /\ faults[k] <= faults'[k]
<1>0. faults \in [FaultKinds -> Nat]
  BY DEF IInv, TypeOK
<1>1. BudgetStep \/ UNCHANGED faults
  <2>1. CASE ExecuteSteps
    BY <2>1, ExecuteTypes
  <2>2. CASE OperationSteps
    BY <2>2, OperationTypes
  <2>3. CASE EnvironmentSteps
    BY <2>3
    DEF EnvironmentSteps, ClusterSteps, VMCancels, Abandon, Crash,
        DeleteRestore, RecreateRestore,
        BackupChanges, ForeignCreate, GarbageCollect, ForeignDelete,
        ControllerSteps, ControllerWorks, ControllerBinds, ControllerCancels,
        Provision, Meddle, budget
  <2>4. CASE UNCHANGED vars
    BY <2>4 DEF vars, budget
  <2> QED
    BY <2>1, <2>2, <2>3, <2>4 DEF Next
<1> QED
  BY <1>0, <1>1 DEF BudgetStep, budget, Spend, Meddle

LEMMA PatchStays ==
    ASSUME IInv, [Next]_vars, NEW i \in Items, PatchInv(i), NothingSpent(i)
    PROVE  PatchInv(i)'
<1>1. /\ faults["hang"] \in Nat /\ faults'["hang"] \in Nat
      /\ faults["hang"] <= faults'["hang"]
      /\ faults["patch"] \in Nat /\ faults'["patch"] \in Nat
      /\ faults["patch"] <= faults'["patch"]
  BY FaultsGrow DEF FaultKinds
<1>2. /\ faults["hang"] * CallTimeout <= faults'["hang"] * CallTimeout
      /\ faults["hang"] * CallTimeout \in Nat
      /\ faults'["hang"] * CallTimeout \in Nat
  BY <1>1, MoreHangs
<1>3. cancels[i].tries \in Nat /\ cancels[i].spent \in Nat
  BY BoundsAssumption DEF IInv, TypeOK, CancelStates
<1>4. cancels'[i].tries <= faults'["patch"] + faults'["hang"]
  BY <1>1, <1>3 DEF PatchInv, NothingSpent
<1>5. cancels'[i].spent <= faults'["hang"] * CallTimeout
  BY <1>2, <1>3 DEF PatchInv, NothingSpent
<1>6. cancels'[i].pc = "patch" => \E n : cancels'[i].found = {n}
  BY DEF PatchInv, NothingSpent
<1> QED
  BY <1>4, <1>5, <1>6 DEF PatchInv

\* An attempt that fails, in which h requests hang.
LEMMA AttemptStep ==
    ASSUME IInv, NEW i \in Items, PatchInv(i), cancels[i].pc = "patch",
           \/ AttemptFails(i, 0) /\ Spend("patch")
           \/ AttemptFails(i, CallTimeout) /\ Spend("hang")
    PROVE  /\ PatchInv(i)'
           /\ CancelReturns(i) => faults'["patch"] + faults'["hang"] >= PatchSteps
<1>0. /\ cancels \in [Items -> CancelStates] /\ faults \in [FaultKinds -> Nat]
      /\ cancels[i].tries \in Nat /\ cancels[i].spent \in Nat
      /\ CallTimeout \in Nat /\ PatchSteps \in Nat
  BY BoundsAssumption DEF IInv, TypeOK, CancelStates
<1>1. /\ faults["patch"] \in Nat /\ faults["hang"] \in Nat
      /\ faults'["patch"] + faults'["hang"] = faults["patch"] + faults["hang"] + 1
      /\ \/ faults'["hang"] = faults["hang"] /\ AttemptFails(i, 0)
         \/ faults'["hang"] = faults["hang"] + 1 /\ AttemptFails(i, CallTimeout)
  <2>1. CASE AttemptFails(i, 0) /\ Spend("patch")
    BY <1>0, <2>1 DEF Spend, FaultKinds
  <2>2. CASE AttemptFails(i, CallTimeout) /\ Spend("hang")
    BY <1>0, <2>2 DEF Spend, FaultKinds
  <2> QED
    BY <2>1, <2>2
<1>2. cancels[i].tries + 1 <= faults'["patch"] + faults'["hang"]
  BY <1>0, <1>1 DEF PatchInv
<1>3. CASE cancels[i].tries + 1 >= PatchSteps
  <2>1. CancelReturns(i)
    BY <1>0, <1>1, <1>3 DEF AttemptFails
  <2>2. /\ cancels'[i].pc = "done"
        /\ cancels'[i].tries = 0 /\ cancels'[i].spent = 0
    BY <1>0, <2>1 DEF CancelReturns, NoCancel
  <2>3. /\ faults'["patch"] + faults'["hang"] \in Nat
        /\ faults'["hang"] \in Nat
    BY <1>1
  <2>4. faults'["hang"] * CallTimeout \in Nat
    BY <2>3, MoreHangs
  <2> QED
    BY <1>0, <1>2, <1>3, <2>2, <2>3, <2>4 DEF PatchInv
<1>4. CASE cancels[i].tries + 1 < PatchSteps
  <2>1. /\ cancels'[i].pc = "patch" /\ cancels'[i].found = cancels[i].found
        /\ cancels'[i].tries = cancels[i].tries + 1
        /\ \/ /\ faults'["hang"] = faults["hang"]
              /\ cancels'[i].spent = cancels[i].spent
           \/ /\ faults'["hang"] = faults["hang"] + 1
              /\ cancels'[i].spent = cancels[i].spent + CallTimeout
    <3>1. ASSUME NEW cost \in {0, CallTimeout}, AttemptFails(i, cost)
          PROVE  /\ cancels'[i].pc = "patch"
                 /\ cancels'[i].found = cancels[i].found
                 /\ cancels'[i].tries = cancels[i].tries + 1
                 /\ cancels'[i].spent = cancels[i].spent + cost
      BY <1>0, <1>4, <3>1 DEF AttemptFails, CancelStates
    <3>2. cancels[i].spent + 0 = cancels[i].spent
      BY <1>0
    <3> QED
      BY <1>1, <3>1, <3>2
  <2>2. /\ (faults["hang"] + 1) * CallTimeout
               = faults["hang"] * CallTimeout + CallTimeout
        /\ faults["hang"] * CallTimeout \in Nat
    BY <1>1, MoreHangs
  <2>3. cancels'[i].spent <= faults'["hang"] * CallTimeout
    BY <1>0, <2>1, <2>2 DEF PatchInv
  <2>4. ~CancelReturns(i)
    BY <1>0, <2>1 DEF CancelReturns, NoCancel
  <2> QED
    BY <1>2, <2>1, <2>3, <2>4 DEF PatchInv
<1> QED
  BY <1>0, <1>3, <1>4

LEMMA CancelsFrame ==
    ASSUME IInv, [Next]_vars, NEW j \in Items,
           ~CancelLookup(j), ~patchDataDownloadCancel(j)
    PROVE  /\ NothingSpent(j)
           /\ cancels[j].pc = "patch" => cancels'[j].pc # "done"
<1>0. cancels \in [Items -> CancelStates]
  BY DEF IInv, TypeOK
<1>1. CASE cancels'[j] = cancels[j]
  BY <1>1 DEF NothingSpent
<1>2. CASE ExecuteSteps
  BY <1>1, <1>2
  DEF ExecuteSteps, ItemSteps, CallSteps, ExecuteOther, Execute, getBackup,
      createDataDownloadResource, getDataDownloadByName, Return, velero
<1>3. CASE OperationSteps
  <2>1. ASSUME NEW i \in Items, Progress(i)
        PROVE  cancels'[j] = cancels[j]
    BY <2>1 DEF Progress
  <2>2. ASSUME NEW i \in Items, Timeout(i)
        PROVE  \/ cancels'[j] = cancels[j]
               \/ /\ NothingSpent(j) /\ cancels[j].pc = "idle"
    BY <1>0, <2>2 DEF Timeout, Polled, CancelStates, NothingSpent
  <2>3. ASSUME NEW i \in Items, CancelSteps(i)
        PROVE  cancels'[j] = cancels[j]
    <3>1. i # j
      BY <2>3 DEF CancelSteps
    <3> QED
      BY <1>0, <2>3, <3>1
      DEF CancelSteps, CancelLookup, patchDataDownloadCancel, CancelReturns,
          AttemptFails
  <2> QED
    BY <1>1, <1>3, <2>1, <2>2, <2>3 DEF OperationSteps
<1>4. CASE EnvironmentSteps
  <2>1. CASE Crash
    BY <1>0, <2>1 DEF Crash, NoCancel, NothingSpent
  <2> QED
    BY <1>1, <1>4, <2>1
    DEF EnvironmentSteps, ClusterSteps, VMCancels, Abandon,
        DeleteRestore, RecreateRestore,
        BackupChanges, ForeignCreate, GarbageCollect, ForeignDelete,
        ControllerSteps, ControllerWorks, ControllerBinds, ControllerCancels,
        Provision, velero
<1>5. CASE UNCHANGED vars
  BY <1>1, <1>5 DEF vars, velero
<1> QED
  BY <1>2, <1>3, <1>4, <1>5 DEF Next

LEMMA PatchInvStep ==
    ASSUME IInv, [Next]_vars, NEW i \in Items, PatchInv(i)
    PROVE  PatchInv(i)'
<1>0. cancels \in [Items -> CancelStates]
  BY DEF IInv, TypeOK
<1>1. CASE CancelReturns(i)
  BY <1>0, <1>1, PatchStays DEF CancelReturns, NoCancel, NothingSpent
<1>2. CASE CancelLookup(i)
  <2>1. ASSUME NEW n,
               cancels' = [cancels EXCEPT ![i] =
                   [@ EXCEPT !.pc = "patch", !.found = {n}]]
        PROVE  NothingSpent(i)
    BY <1>0, <2>1 DEF CancelStates, NothingSpent
  <2> QED
    BY <1>1, <1>2, <2>1, PatchStays DEF CancelLookup
<1>3. CASE patchDataDownloadCancel(i)
  BY <1>1, <1>3, AttemptStep DEF patchDataDownloadCancel
<1> QED
  BY <1>2, <1>3, CancelsFrame, PatchStays

\* Cancel gives up a download it has found only when its attempts or its time
\* are used up by requests that failed (patchDataDownloadCancel), for any number
\* of operations, and third parties that delete and create what it looks for.
THEOREM CancelKeepsTrying == Spec => CancelIsPersistent
<1> DEFINE Inv  == \A i \in Items : PatchInv(i)
           Ends == \A i \in Items :
                      cancels[i].pc = "patch" /\ cancels'[i].pc = "done" =>
                         \/ \A d \in downloads' :
                               d.name \in cancels[i].found => d.cancel
                         \/ faults'["patch"] + faults'["hang"] >= PatchSteps
                         \/ faults'["hang"] * CallTimeout >= TotalTimeout
<1>1. Init => Inv
  <2> SUFFICES ASSUME Init, NEW i \in Items PROVE PatchInv(i)
    OBVIOUS
  <2>1. /\ cancels[i] = NoCancel
        /\ faults["patch"] = 0 /\ faults["hang"] = 0
    BY DEF Init, FaultKinds
  <2>2. 0 * CallTimeout \in Nat
    BY MoreHangs
  <2> QED
    BY <2>1, <2>2 DEF PatchInv, NoCancel
<1>2. IInv /\ Inv /\ [Next]_vars => Inv'
  BY PatchInvStep
<1>3. ASSUME IInv, Inv, [Next]_vars PROVE Ends
  <2> SUFFICES ASSUME NEW i \in Items,
                      cancels[i].pc = "patch", cancels'[i].pc = "done"
               PROVE  \/ \A d \in downloads' :
                            d.name \in cancels[i].found => d.cancel
                      \/ faults'["patch"] + faults'["hang"] >= PatchSteps
                      \/ faults'["hang"] * CallTimeout >= TotalTimeout
    OBVIOUS
  <2>0. cancels \in [Items -> CancelStates] /\ PatchInv(i)
    BY <1>3 DEF IInv, TypeOK
  <2>1. patchDataDownloadCancel(i)
    BY <1>3, CancelsFrame DEF CancelLookup
  <2>2. PICK n : cancels[i].found = {n}
    BY <2>0 DEF PatchInv
  <2>3. CASE Named(n) = {} /\ UNCHANGED downloads
    BY <2>2, <2>3 DEF Named
  <2>4. ASSUME NEW d \in Named(n), Replace(d, PatchedCancel(d))
        PROVE  \A e \in downloads' : e.name = n => e.cancel
    <3>1. d \in Downloads /\ PatchedCancel(d).cancel
      BY <1>3, <2>4 DEF IInv, TypeOK, Named, PatchedCancel, Downloads
    <3>2. \A e \in downloads : e.name = n => e = d
      BY <1>3, <2>4 DEF IInv, DownloadsInv, Named
    <3> QED
      BY <2>4, <3>1, <3>2 DEF Replace, Named
  <2>5. CASE UNCHANGED budget /\ cancels[i].spent >= TotalTimeout
    <3>1. /\ faults["hang"] \in Nat /\ faults'["hang"] = faults["hang"]
      BY <1>3, <2>5, FaultsGrow DEF FaultKinds, budget
    <3>2. faults["hang"] * CallTimeout \in Nat
      BY <3>1, MoreHangs
    <3>3. cancels[i].spent \in Nat /\ TotalTimeout \in Nat
      BY <2>0, BoundsAssumption DEF CancelStates
    <3> QED
      BY <2>0, <2>5, <3>1, <3>2, <3>3 DEF PatchInv
  <2>6. CASE \/ AttemptFails(i, 0) /\ Spend("patch")
             \/ AttemptFails(i, CallTimeout) /\ Spend("hang")
    <3>1. CancelReturns(i)
      BY <2>0, <2>6 DEF AttemptFails, CancelStates
    <3> QED
      BY <1>3, <2>0, <2>6, <3>1, AttemptStep
  <2>7. UNION {Named(m) : m \in cancels[i].found} = Named(n)
    BY <2>2
  <2> QED
    BY <2>1, <2>2, <2>3, <2>4, <2>5, <2>6, <2>7 DEF patchDataDownloadCancel
<1> QED
  <2>1. IInv /\ Inv /\ [Next]_vars => Ends \/ UNCHANGED vars
    BY <1>3
  <2> QED
    BY <1>1, <1>2, <2>1, Invariance, PTL DEF Spec, CancelIsPersistent

-------------------------------------------------------------------------------
(* PVCRestore implements AsyncOperation.  Under the mapping of its Promise a   *)
(* step of the plugin, of Velero, of the controller or of anyone else is a     *)
(* step of AsyncOperation or changes nothing there.  Unlike for VMBackup no    *)
(* assumption about the controller is needed: a failed download is a failed    *)
(* operation whether it tells why or not.                                      *)

Tasks   == [i \in Items |-> TaskOf(i)]
Reports == [i \in Items |-> ReportOf(i)]

-------------------------------------------------------------------------------
(* Velero listens to one call per item, and only before it has an operation.   *)

Listening(c) == calls[c].pc # "idle" /\ ~calls[c].abandoned

ListenInv ==
    /\ \A c \in Calls :
          Listening(c) => ops[<<calls[c].uid, calls[c].pvc>>].status = "none"
    /\ \A c, e \in Calls :
          (/\ Listening(c) /\ Listening(e)
           /\ calls[c].uid = calls[e].uid /\ calls[c].pvc = calls[e].pvc)
              => c = e

LEMMA InitListens == Init => ListenInv
<1>1. NoCall.pc = "idle"
  BY DEF NoCall
<1> QED
  BY <1>1 DEF Init, ListenInv, Listening

\* Calls that go on, or end, while no operation they lead to is registered.
LEMMA ListenFrame ==
    ASSUME ListenInv,
           \A c \in Calls : Listening(c)' =>
               /\ Listening(c)
               /\ calls'[c].uid = calls[c].uid /\ calls'[c].pvc = calls[c].pvc
               /\ ops[<<calls[c].uid, calls[c].pvc>>].status = "none" =>
                     ops'[<<calls[c].uid, calls[c].pvc>>].status = "none"
    PROVE  ListenInv'
<1>1. ASSUME NEW c \in Calls, Listening(c)'
      PROVE  ops'[<<calls'[c].uid, calls'[c].pvc>>].status = "none"
  BY <1>1 DEF ListenInv
<1>2. ASSUME NEW c \in Calls, NEW e \in Calls, Listening(c)', Listening(e)',
             calls'[c].uid = calls'[e].uid, calls'[c].pvc = calls'[e].pvc
      PROVE  c = e
  <2>1. /\ Listening(c) /\ Listening(e)
        /\ calls[c].uid = calls[e].uid /\ calls[c].pvc = calls[e].pvc
    BY <1>2
  <2> QED
    BY <2>1 DEF ListenInv
<1> QED
  BY <1>1, <1>2 DEF ListenInv

LEMMA ExecuteListens ==
    ASSUME IInv, ListenInv, NEW c \in Calls, NEW p \in PVCs,
           Execute(c, p)
    PROVE  ListenInv'
<1>0. calls \in [Calls -> CallStates] /\ ops' = ops
  BY DEF IInv, TypeOK, Execute
<1>1. /\ calls'[c].uid = epoch /\ calls'[c].pvc = p
      /\ ops[<<epoch, p>>].status = "none"
      /\ \A e \in Calls \ {c} : calls'[e] = calls[e]
  BY <1>0 DEF Execute, NoCall
<1>2. \A e \in Calls \ {c} : Listening(e)' =>
          /\ Listening(e) /\ ~(calls[e].uid = epoch /\ calls[e].pvc = p)
  BY <1>1 DEF Execute, Listening
<1>3. ASSUME NEW e \in Calls, Listening(e)'
      PROVE  ops'[<<calls'[e].uid, calls'[e].pvc>>].status = "none"
  BY <1>0, <1>1, <1>2, <1>3 DEF ListenInv
<1>4. ASSUME NEW d \in Calls, NEW e \in Calls, Listening(d)', Listening(e)',
             calls'[d].uid = calls'[e].uid, calls'[d].pvc = calls'[e].pvc
      PROVE  d = e
  BY <1>1, <1>2, <1>4 DEF ListenInv
<1> QED
  BY <1>3, <1>4 DEF ListenInv

LEMMA ReturnListens ==
    ASSUME IInv, ListenInv, NEW c \in Calls, Return(c)
    PROVE  ListenInv'
<1>0. calls \in [Calls -> CallStates] /\ ops \in [Items -> OperationStates]
  BY DEF IInv, TypeOK
<1>1. ~Listening(c)' /\ \A e \in Calls \ {c} : calls'[e] = calls[e]
  BY <1>0 DEF Return, Listening, NoCall
<1>2. SUFFICES ASSUME NEW e \in Calls, e # c, Listening(e),
                      ops[<<calls[e].uid, calls[e].pvc>>].status = "none"
               PROVE  ops'[<<calls[e].uid, calls[e].pvc>>].status = "none"
  BY <1>1, ListenFrame DEF Listening
<1>3. CASE ops' = ops
  BY <1>2, <1>3
<1>4. CASE /\ ~calls[c].abandoned
           /\ ops' = [ops EXCEPT ![<<calls[c].uid, calls[c].pvc>>] =
                  [status |-> "InProgress", opID |-> calls[c].opID,
                   id |-> calls[c].id]]
  <2>1. Listening(c)
    BY <1>4 DEF Return, Listening
  <2>2. <<calls[e].uid, calls[e].pvc>> # <<calls[c].uid, calls[c].pvc>>
    BY <1>2, <2>1 DEF ListenInv
  <2> QED
    BY <1>0, <1>2, <1>4, <2>2
<1> QED
  BY <1>3, <1>4 DEF Return

\* Before it returns, a call fails or goes on for the same item.
LEMMA CallGoesOn ==
    ASSUME IInv, NEW c \in Calls,
           \/ getBackup(c) \/ createDataDownloadResource(c)
           \/ getDataDownloadByName(c)
    PROVE  /\ ops' = ops /\ calls[c].pc # "idle"
           /\ \/ FailCall(c)
              \/ /\ \A e \in Calls \ {c} : calls'[e] = calls[e]
                 /\ calls'[c].abandoned = calls[c].abandoned
                 /\ calls'[c].uid = calls[c].uid /\ calls'[c].pvc = calls[c].pvc
<1>0. calls \in [Calls -> CallStates]
  BY DEF IInv, TypeOK
<1>1. ops' = ops /\ calls[c].pc # "idle"
  BY DEF getBackup, createDataDownloadResource, getDataDownloadByName
<1>2. CASE getBackup(c)
  <2>1. \/ FailCall(c)
        \/ \E l : calls' = [calls EXCEPT ![c] =
               [@ EXCEPT !.pc = "create", !.location = l]]
    BY <1>2 DEF getBackup, UseLocation
  <2> QED
    BY <1>0, <1>1, <2>1 DEF CallStates
<1>3. CASE createDataDownloadResource(c)
  <2>1. \/ FailCall(c)
        \/ calls' = [calls EXCEPT ![c] = [@ EXCEPT !.pc = "return", !.id = nextId]]
        \/ calls' = [calls EXCEPT ![c].pc = "get"]
    BY <1>3 DEF createDataDownloadResource
  <2> QED
    BY <1>0, <1>1, <2>1 DEF CallStates
<1>4. CASE getDataDownloadByName(c)
  <2>1. ASSUME NEW n, calls' = [calls EXCEPT ![c] = [@ EXCEPT !.pc = "create",
                                                              !.attempt = n]]
        PROVE  /\ \A e \in Calls \ {c} : calls'[e] = calls[e]
               /\ calls'[c].abandoned = calls[c].abandoned
               /\ calls'[c].uid = calls[c].uid /\ calls'[c].pvc = calls[c].pvc
    BY <1>0, <2>1 DEF CallStates
  <2>2. ASSUME NEW id, NEW o,
               calls' = [calls EXCEPT ![c] =
                   [@ EXCEPT !.pc = "return", !.id = id, !.opID = o]]
        PROVE  /\ \A e \in Calls \ {c} : calls'[e] = calls[e]
               /\ calls'[c].abandoned = calls[c].abandoned
               /\ calls'[c].uid = calls[c].uid /\ calls'[c].pvc = calls[c].pvc
    BY <1>0, <2>2 DEF CallStates
  <2>3. \/ FailCall(c)
        \/ calls' = [calls EXCEPT ![c] = [@ EXCEPT !.pc = "create",
                                          !.attempt = calls[c].attempt + 1]]
        \/ \E d \in downloads : calls' = [calls EXCEPT ![c] =
               [@ EXCEPT !.pc = "return", !.id = d.id, !.opID = d.opID]]
    BY <1>4 DEF getDataDownloadByName, Named
  <2> QED
    BY <1>1, <2>1, <2>2, <2>3
<1> QED
  BY <1>2, <1>3, <1>4

LEMMA ListenStep ==
    ASSUME IInv, ListenInv, [Next]_vars
    PROVE  ListenInv'
<1>0. calls \in [Calls -> CallStates] /\ ops \in [Items -> OperationStates]
  BY DEF IInv, TypeOK
<1>1. ASSUME UNCHANGED ops, NEW c \in Calls,
             \/ calls' = [calls EXCEPT ![c] = NoCall]
             \/ /\ \A e \in Calls \ {c} : calls'[e] = calls[e]
                /\ calls[c].pc # "idle"
                /\ calls'[c].abandoned = calls[c].abandoned
                /\ calls'[c].uid = calls[c].uid /\ calls'[c].pvc = calls[c].pvc
      PROVE  ListenInv'
  BY <1>0, <1>1, ListenFrame DEF Listening, NoCall
<1>2. CASE UNCHANGED <<calls, ops>>
  BY <1>2, ListenFrame DEF Listening
<1>3. ASSUME UNCHANGED calls, NEW i \in Items, ops[i].status = "InProgress",
             \A j \in Items \ {i} : ops'[j] = ops[j]
      PROVE  ListenInv'
  <2>1. \A c \in Calls : Listening(c) => <<calls[c].uid, calls[c].pvc>> # i
    BY <1>3 DEF ListenInv
  <2>2. \A c \in Calls : Listening(c) => <<calls[c].uid, calls[c].pvc>> \in Items
    BY <1>0 DEF IInv, CallsInv, CallInv, Listening, Items, CallStates
  <2> QED
    BY <1>3, <2>1, <2>2, ListenFrame DEF Listening
<1>4. CASE ExecuteSteps
  <2>1. ASSUME NEW c \in Calls,
               \/ getBackup(c) \/ createDataDownloadResource(c)
               \/ getDataDownloadByName(c)
        PROVE  ListenInv'
    BY <1>1, <2>1, CallGoesOn DEF FailCall
  <2>2. CASE \E p \in PVCs : ExecuteOther(p)
    BY <1>2, <2>2 DEF ExecuteOther, velero
  <2> QED
    BY <1>4, <2>1, <2>2, ExecuteListens, ReturnListens
    DEF ExecuteSteps, ItemSteps, CallSteps
<1>5. CASE OperationSteps
  <2>1. UNCHANGED calls
    BY <1>5 DEF OperationSteps, CancelSteps, Progress, Timeout, CancelLookup,
                patchDataDownloadCancel
  <2>2. ASSUME NEW i \in Items, Progress(i)
        PROVE  ListenInv'
    BY <1>0, <1>3, <2>1, <2>2 DEF Progress, Polled
  <2>3. ASSUME NEW i \in Items, CancelLookup(i) \/ patchDataDownloadCancel(i)
        PROVE  ListenInv'
    <3>1. ops[i].status = "InProgress"
      BY <2>3 DEF IInv, CancelsInv, CancelInv, CancelLookup,
                  patchDataDownloadCancel
    <3>2. CASE CancelReturns(i)
      BY <1>0, <1>3, <2>1, <3>1, <3>2 DEF CancelReturns
    <3>3. CASE UNCHANGED ops
      BY <1>2, <2>1, <3>3
    <3> QED
      BY <2>3, <3>2, <3>3 DEF CancelLookup, patchDataDownloadCancel, AttemptFails
  <2>4. CASE \E i \in Items : Timeout(i)
    BY <1>2, <2>4 DEF Timeout
  <2> QED
    BY <1>5, <2>2, <2>3, <2>4 DEF OperationSteps, CancelSteps
<1>6. CASE EnvironmentSteps
  <2>1. ASSUME NEW c \in Calls, Abandon(c)
        PROVE  ListenInv'
    <3>1. ops' = ops /\ ~Listening(c)'
          /\ \A e \in Calls \ {c} : calls'[e] = calls[e]
      BY <1>0, <2>1 DEF Abandon, Listening, CallStates
    <3> QED
      BY <3>1, ListenFrame DEF Listening
  <2>2. CASE Crash
    BY <2>2, ListenFrame DEF Crash, Listening, NoCall
  <2>3. CASE UNCHANGED velero
    BY <1>2, <2>3 DEF velero
  <2> QED
    BY <1>6, <2>1, <2>2, <2>3
    DEF EnvironmentSteps, ClusterSteps, VMCancels, DeleteRestore,
        RecreateRestore, BackupChanges,
        ForeignCreate, GarbageCollect, ForeignDelete, ControllerSteps,
        ControllerWorks, ControllerBinds, ControllerCancels, Provision
<1>7. CASE UNCHANGED vars
  BY <1>2, <1>7 DEF vars, velero
<1> QED
  BY <1>4, <1>5, <1>6, <1>7 DEF Next

-------------------------------------------------------------------------------
(* The tasks: downloads seen through the operations that own them.               *)

\* An operation's download, while it exists, belongs to no other operation.
LEMMA OwnIsMine ==
    ASSUME IInv, NEW i \in Items, NEW d \in Own(i)
    PROVE  /\ d \in downloads /\ d.id = ops[i].id /\ ops[i].status # "none"
           /\ Own(i) = {d}
           /\ i = <<d.owner, d.pvc>>
<1>1. d \in downloads /\ d.id = ops[i].id /\ ops[i].status # "none"
  BY DEF Own, WithId
<1>2. Own(i) = {d}
  BY <1>1 DEF Own, WithId, IInv, DownloadsInv
<1>3. Trackable(d, i[1], i[2], ops[i].opID)
  BY <1>1 DEF IInv, OpsInv, OpInv, Bound
<1> QED
  BY <1>1, <1>2, <1>3 DEF Trackable, Items

LEMMA AnItem == \E i \in Items : TRUE
<1>1. 1 \in UIDs
  BY BoundsAssumption DEF UIDs
<1>2. PICK v \in PVCs : TRUE
  BY ItemsAssumption
<1>3. <<1, v>> \in Items
  BY <1>1 DEF Items
<1> QED
  BY <1>3

\* How one step may move a task.
Moves(t, u) ==
    \/ u = t
    \/ t = "running" /\ u \in {"succeeded", "failed"}
    \/ t # "absent" /\ u = "lost"

SameOperations ==
    \A i \in Items : /\ ops'[i].id = ops[i].id
                     /\ ops'[i].status = "none" <=> ops[i].status = "none"

LEMMA TaskOfNone ==
    ASSUME NEW i \in Items, Own(i) = {}
    PROVE  TaskOf(i) = IF ops[i].status = "none" THEN "absent" ELSE "lost"
  BY DEF TaskOf

LEMMA TaskOfOne ==
    ASSUME NEW i \in Items, NEW d, Own(i) = {d}
    PROVE  TaskOf(i) = IF d.phase = "Completed" THEN "succeeded"
                       ELSE IF d.phase \in Terminal THEN "failed"
                       ELSE "running"
<1>1. ops[i].status # "none" /\ Own(i) # {}
  BY DEF Own
<1> QED
  BY <1>1 DEF TaskOf

LEMMA OwnNext ==
    ASSUME SameOperations
    PROVE  \A i \in Items :
              /\ Own(i)' = IF ops[i].status = "none" THEN {}
                           ELSE {d \in downloads' : d.id = ops[i].id}
              /\ Own(i)' = Own(i) => TaskOf(i)' = TaskOf(i)
<1>1. \A i \in Items : Own(i)' = IF ops[i].status = "none" THEN {}
                                 ELSE {d \in downloads' : d.id = ops[i].id}
  BY DEF SameOperations, Own, WithId
<1>2. \A i \in Items : Own(i)' = Own(i) => TaskOf(i)' = TaskOf(i)
  BY DEF TaskOf, SameOperations
<1> QED
  BY <1>1, <1>2

\* While no operation starts, a step moves at most one task.
LEMMA OneTaskMoves ==
    ASSUME IInv, DownloadsStep, SameOperations
    PROVE  \E j \in Items : /\ Moves(TaskOf(j), TaskOf(j)')
                            /\ \A i \in Items \ {j} : TaskOf(i)' = TaskOf(i)
<1> DEFINE Goal == \E j \in Items :
                      /\ Moves(TaskOf(j), TaskOf(j)')
                      /\ \A i \in Items \ {j} : TaskOf(i)' = TaskOf(i)
<1>1. \A i \in Items :
          Own(i)' = IF ops[i].status = "none" THEN {}
                    ELSE {d \in downloads' : d.id = ops[i].id}
  BY OwnNext
<1>2. \A i \in Items : Own(i)' = Own(i) => TaskOf(i)' = TaskOf(i)
  BY OwnNext
<1>3. ASSUME \A i \in Items : Own(i)' = Own(i)
      PROVE  Goal
  BY <1>2, <1>3, AnItem DEF Moves
<1>4. ASSUME NEW d \in downloads,
             \A i \in Items : d \notin Own(i) => Own(i)' = Own(i),
             \A i \in Items : d \in Own(i) => Moves(TaskOf(i), TaskOf(i)')
      PROVE  Goal
  <2>1. CASE \E j \in Items : d \in Own(j)
    <3>1. PICK j \in Items : d \in Own(j)
      BY <2>1
    <3>2. \A i \in Items \ {j} : d \notin Own(i)
      BY <3>1, OwnIsMine
    <3> QED
      BY <1>2, <1>4, <3>1, <3>2
  <2> QED
    BY <1>3, <1>4, <2>1
<1>5. CASE NothingAdded
  <2>1. CASE downloads' = downloads
    BY <1>1, <1>3, <2>1 DEF Own, WithId
  <2>2. ASSUME NEW d \in downloads, downloads' = downloads \ {d}
        PROVE  Goal
    <3>1. \A i \in Items : d \notin Own(i) => Own(i)' = Own(i)
      BY <1>1, <2>2 DEF Own, WithId
    <3>2. ASSUME NEW i \in Items, d \in Own(i)
          PROVE  Moves(TaskOf(i), TaskOf(i)')
      <4>1. Own(i) = {d} /\ ops[i].status # "none"
        BY <3>2, OwnIsMine
      <4>2. Own(i)' = {} /\ ops'[i].status # "none"
        BY <1>1, <2>2, <4>1 DEF Own, WithId, SameOperations
      <4>3. TaskOf(i)' = "lost" /\ TaskOf(i) # "absent"
        BY <4>1, <4>2 DEF TaskOf
      <4> QED
        BY <4>3 DEF Moves
    <3> QED
      BY <1>4, <3>1, <3>2
  <2> QED
    BY <1>5, <2>1, <2>2 DEF NothingAdded
<1>6. CASE OneChanged
  <2>1. PICK d \in downloads, e \in Downloads :
            /\ SameObject(d, e) /\ OutcomeKept(d, e)
            /\ downloads' = (downloads \ {d}) \cup {e}
    BY <1>6 DEF OneChanged, Replace
  <2>2. \A i \in Items : d \notin Own(i) => Own(i)' = Own(i)
    BY <1>1, <2>1 DEF Own, WithId, SameObject
  <2>3. ASSUME NEW i \in Items, d \in Own(i)
        PROVE  Moves(TaskOf(i), TaskOf(i)')
    <3>1. Own(i) = {d} /\ ops[i].status # "none"
      BY <2>3, OwnIsMine
    <3>2. Own(i)' = {e} /\ ops'[i].status # "none"
      BY <1>1, <2>1, <3>1 DEF Own, WithId, SameObject, SameOperations
    <3>3. TaskOf(i)' = IF e.phase = "Completed" THEN "succeeded"
                       ELSE IF e.phase \in Terminal THEN "failed"
                       ELSE "running"
      BY <3>2 DEF TaskOf
    <3>4. TaskOf(i) = IF d.phase = "Completed" THEN "succeeded"
                      ELSE IF d.phase \in Terminal THEN "failed"
                      ELSE "running"
      BY <3>1, TaskOfOne
    <3> QED
      BY <2>1, <3>3, <3>4 DEF Moves, OutcomeKept, Terminal
  <2> QED
    BY <1>4, <2>1, <2>2, <2>3
<1>7. CASE OneCreated
  <2>1. PICK e \in Downloads : e.id = nextId /\ downloads' = downloads \cup {e}
    BY <1>7 DEF OneCreated
  <2>2. \A i \in Items : ops[i].status # "none" => ops[i].id < nextId
    BY DEF IInv, OpsInv, OpInv, Bound
  <2>3. nextId \in Nat /\ \A i \in Items : ops[i].id \in Nat
    BY DEF IInv, TypeOK, OperationStates
  <2>4. \A i \in Items : ops[i].status # "none" => ops[i].id # nextId
    BY <2>2, <2>3
  <2>5. \A i \in Items : Own(i)' = Own(i)
    BY <1>1, <2>1, <2>4 DEF Own, WithId
  <2> QED
    BY <1>3, <2>5
<1> QED
  BY <1>5, <1>6, <1>7 DEF DownloadsStep

-------------------------------------------------------------------------------
(* Every step is a step of the promise.                                        *)

LEMMA StatusKnown ==
    ASSUME TypeOK, NEW i \in Items
    PROVE  ops[i].status \in {"none", "InProgress", "Completed", "Failed"}
  BY DEF TypeOK, OperationStates

\* A step that reports nothing moves at most one task.
LEMMA SilentStep ==
    ASSUME IInv, DownloadsStep, UNCHANGED ops
    PROVE  [Promise!Next]_<<Tasks, Reports>>
<1>1. Reports' = Reports
  BY DEF Reports, ReportOf
<1>2. PICK j \in Items : /\ Moves(TaskOf(j), TaskOf(j)')
                         /\ \A i \in Items \ {j} : TaskOf(i)' = TaskOf(i)
  BY OneTaskMoves DEF SameOperations
<1>3. Tasks' = [Tasks EXCEPT ![j] = TaskOf(j)']
  BY <1>2 DEF Tasks
<1>4. Tasks[j] = TaskOf(j) /\ Reports[j] = ReportOf(j)
  BY DEF Tasks, Reports
<1>5. CASE TaskOf(j)' = TaskOf(j)
  BY <1>1, <1>3, <1>4, <1>5 DEF Tasks
<1>6. CASE TaskOf(j) = "running" /\ TaskOf(j)' \in {"succeeded", "failed"}
  <2>1. Promise!TaskEnds(j)
    BY <1>1, <1>3, <1>4, <1>6 DEF Promise!TaskEnds, Promise!Finished, Tasks, Reports
  <2> QED
    BY <2>1 DEF Promise!Next
<1>7. CASE TaskOf(j) # "absent" /\ TaskOf(j)' = "lost"
  <2>1. ops[j].status # "none"
    BY <1>7 DEF TaskOf
  <2>2. ReportOf(j) # "none"
    BY <2>1, StatusKnown DEF ReportOf, IInv
  <2>3. Promise!TaskIsLost(j)
    BY <1>1, <1>3, <1>4, <1>7, <2>2 DEF Promise!TaskIsLost, Tasks, Reports
  <2> QED
    BY <2>3 DEF Promise!Next
<1> QED
  BY <1>2, <1>5, <1>6, <1>7 DEF Moves

\* The report of operation i becomes the one of status st; no task moves.
LEMMA ReportStep ==
    ASSUME IInv, NEW i \in Items, ops[i].status = "InProgress",
           NEW st \in {"InProgress", "Completed", "Failed"},
           ops' = [ops EXCEPT ![i].status = st],
           \A j \in Items : TaskOf(j)' = TaskOf(j),
           st = "Completed" => TaskOf(i) \in {"succeeded", "lost"}
    PROVE  [Promise!Next]_<<Tasks, Reports>>
<1>0. ops \in [Items -> OperationStates]
  BY DEF IInv, TypeOK
<1>1. Tasks' = Tasks
  BY DEF Tasks
<1>2. /\ \A j \in Items \ {i} : ReportOf(j)' = ReportOf(j)
      /\ ReportOf(i) = "pending"
      /\ ReportOf(i)' = CASE st = "InProgress" -> "pending"
                          [] st = "Completed"  -> "success"
                          [] st = "Failed"     -> "failure"
  BY <1>0 DEF ReportOf, OperationStates
<1>3. Reports' = [Reports EXCEPT ![i] = ReportOf(i)']
  BY <1>2 DEF Reports
<1>4. Reports[i] = "pending" /\ Tasks[i] = TaskOf(i)
  BY <1>2 DEF Reports, Tasks
<1>5. CASE st = "InProgress"
  BY <1>1, <1>2, <1>3, <1>4, <1>5 DEF Reports
<1>6. CASE st = "Completed"
  <2>1. Promise!ReportSuccess(i)
    BY <1>1, <1>2, <1>3, <1>4, <1>6 DEF Promise!ReportSuccess, Tasks, Reports
  <2> QED
    BY <2>1 DEF Promise!Next
<1>7. CASE st = "Failed"
  <2>1. Promise!ReportFailure(i)
    BY <1>1, <1>2, <1>3, <1>4, <1>7 DEF Promise!ReportFailure, Tasks, Reports
  <2> QED
    BY <2>1 DEF Promise!Next
<1> QED
  BY <1>5, <1>6, <1>7

LEMMA TasksStay ==
    ASSUME NEW i \in Items, downloads' = downloads, ops[i].status # "none",
           NEW st, st # "none", ops \in [Items -> OperationStates],
           ops' = [ops EXCEPT ![i].status = st]
    PROVE  \A j \in Items : TaskOf(j)' = TaskOf(j)
<1>1. \A j \in Items : ops'[j].id = ops[j].id
                        /\ (ops'[j].status = "none" <=> ops[j].status = "none")
  BY DEF OperationStates
<1>2. \A j \in Items : Own(j)' = Own(j)
  BY <1>1 DEF Own, WithId
<1> QED
  BY <1>1, <1>2 DEF TaskOf

\* Progress reports a success only for the operation's own completed download.
LEMMA ProgressStep ==
    ASSUME IInv, NEW i \in Items, Progress(i)
    PROVE  [Promise!Next]_<<Tasks, Reports>>
<1>0. /\ ops \in [Items -> OperationStates] /\ downloads' = downloads
      /\ ops[i].status = "InProgress"
  BY DEF IInv, TypeOK, Progress, Polled, objects
<1>1. CASE ops' = [ops EXCEPT ![i].status = "Failed"]
  BY <1>0, <1>1, TasksStay, ReportStep
<1>2. ASSUME NEW d \in WithOperationID(ops[i].opID),
             ops' = [ops EXCEPT ![i].status = ProgressOf(d)]
      PROVE  [Promise!Next]_<<Tasks, Reports>>
  <2>1. d \in downloads /\ d.opID = ops[i].opID /\ d \in Downloads
    BY <1>2 DEF WithOperationID, IInv, TypeOK
  <2>2. ProgressOf(d) \in {"InProgress", "Completed", "Failed"}
    BY <2>1 DEF ProgressOf, Downloads, Terminal
  <2>3. ASSUME ProgressOf(d) = "Completed"
        PROVE  TaskOf(i) \in {"succeeded", "lost"}
    <3>1. d.phase = "Completed"
      BY <2>1, <2>3 DEF ProgressOf, Downloads, Terminal, Running, IInv, DownloadsInv
    <3>2. CASE Own(i) = {}
      BY <1>0, <3>2 DEF TaskOf
    <3>3. ASSUME NEW o \in Own(i)
          PROVE  o = d
      <4>1. o \in downloads /\ Trackable(o, i[1], i[2], ops[i].opID)
        BY <3>3 DEF IInv, OpsInv, OpInv, Bound, Own, WithId
      <4>2. o.name.pvc = d.name.pvc
        BY <2>1, <4>1 DEF IInv, DownloadsInv, Trackable
      <4>3. o.name \in [kind : {"dd"}, pvc : PVCs]
            /\ d.name \in [kind : {"dd"}, pvc : PVCs]
        BY <2>1, <4>1 DEF IInv, TypeOK, Downloads
      <4>4. o.name = d.name
        BY <4>2, <4>3
      <4> QED
        BY <2>1, <4>1, <4>4 DEF IInv, DownloadsInv
    <3>4. CASE Own(i) # {}
      BY <1>0, <3>1, <3>3, <3>4 DEF TaskOf
    <3> QED
      BY <3>2, <3>4
  <2> QED
    BY <1>0, <1>2, <2>2, <2>3, TasksStay, ReportStep
<1> QED
  BY <1>1, <1>2 DEF Progress

\* A Cancel call that ends fails the operation; its patch moves no task.
LEMMA CancelEnds ==
    ASSUME IInv, NEW i \in Items, ops[i].status = "InProgress",
           CancelReturns(i),
           \/ downloads' = downloads
           \/ \E d \in downloads : Replace(d, PatchedCancel(d))
    PROVE  [Promise!Next]_<<Tasks, Reports>>
<1>0. ops \in [Items -> OperationStates]
      /\ ops' = [ops EXCEPT ![i].status = "Failed"]
  BY DEF IInv, TypeOK, CancelReturns
<1>1. CASE downloads' = downloads
  BY <1>0, <1>1, TasksStay, ReportStep
<1>2. ASSUME NEW d \in downloads, Replace(d, PatchedCancel(d))
      PROVE  \A j \in Items : TaskOf(j)' = TaskOf(j)
  <2> DEFINE e == PatchedCancel(d)
  <2>1. e.id = d.id /\ e.phase = d.phase /\ downloads' = (downloads \ {d}) \cup {e}
    BY <1>2 DEF PatchedCancel, IInv, TypeOK, Downloads, Replace
  <2>2. SameOperations
    BY <1>0 DEF SameOperations, OperationStates
  <2>3. SUFFICES ASSUME NEW j \in Items PROVE TaskOf(j)' = TaskOf(j)
    OBVIOUS
  <2>4. Own(j)' = IF ops[j].status = "none" THEN {}
                  ELSE {f \in downloads' : f.id = ops[j].id}
    BY <2>2, OwnNext
  <2>5. CASE d \in Own(j)
    <3>1. Own(j) = {d} /\ ops[j].status # "none"
      BY <2>5, OwnIsMine
    <3>2. Own(j)' = {e} /\ ops'[j].status # "none"
      BY <2>1, <2>2, <2>4, <3>1 DEF Own, WithId, SameOperations
    <3>3. TaskOf(j)' = IF e.phase = "Completed" THEN "succeeded"
                       ELSE IF e.phase \in Terminal THEN "failed"
                       ELSE "running"
      BY <3>2 DEF TaskOf
    <3> QED
      BY <2>1, <3>1, <3>3, TaskOfOne
  <2>6. CASE d \notin Own(j)
    <3>1. Own(j)' = Own(j)
      BY <2>1, <2>4, <2>6 DEF Own, WithId
    <3> QED
      BY <2>2, <3>1, OwnNext
  <2> QED
    BY <2>5, <2>6
<1>3. CASE \E d \in downloads : Replace(d, PatchedCancel(d))
  BY <1>0, <1>2, <1>3, ReportStep
<1> QED
  BY <1>1, <1>3

\* Return starts an operation: nobody else was listened to for it.
LEMMA ReturnStep ==
    ASSUME IInv, ListenInv, NEW c \in Calls, Return(c)
    PROVE  [Promise!Next]_<<Tasks, Reports>>
<1>0. /\ ops \in [Items -> OperationStates] /\ calls \in [Calls -> CallStates]
      /\ downloads' = downloads /\ nextId' = nextId
  BY DEF IInv, TypeOK, Return, objects
<1>1. CASE ops' = ops
  BY <1>0, <1>1, SilentStep DEF DownloadsStep, NothingAdded
<1>2. ASSUME NEW item \in Items, item = <<calls[c].uid, calls[c].pvc>>,
             ~calls[c].abandoned,
             ops' = [ops EXCEPT ![item] = [status |-> "InProgress",
                                           opID |-> calls[c].opID,
                                           id |-> calls[c].id]]
      PROVE  [Promise!Next]_<<Tasks, Reports>>
  <2>1. item \in Items
    OBVIOUS
  <2>2. ops[item].status = "none"
    BY <1>2 DEF Return, ListenInv, Listening
  <2>3. \A j \in Items \ {item} : ops'[j] = ops[j]
    BY <1>0, <1>2
  <2>4. \A j \in Items \ {item} : TaskOf(j)' = TaskOf(j) /\ ReportOf(j)' = ReportOf(j)
    BY <1>0, <2>3 DEF TaskOf, ReportOf, Own, WithId
  <2>5. ops'[item].status = "InProgress"
    BY <1>0, <1>2, <2>1
  <2>6. ReportOf(item) = "none" /\ ReportOf(item)' = "pending"
    BY <2>2, <2>5 DEF ReportOf
  <2>7. TaskOf(item)' \in {"running", "lost", "succeeded", "failed"}
    BY <2>5 DEF TaskOf
  <2>8. /\ Tasks' = [Tasks EXCEPT ![item] = TaskOf(item)']
        /\ Reports' = [Reports EXCEPT ![item] = ReportOf(item)']
        /\ Reports[item] = ReportOf(item)
    BY <2>1, <2>4 DEF Tasks, Reports
  <2>9. Promise!Start(item)
    BY <2>6, <2>7, <2>8 DEF Promise!Start, Promise!Finished, Tasks, Reports
  <2> QED
    BY <2>1, <2>9 DEF Promise!Next
<1>3. calls[c].pc # "idle" => <<calls[c].uid, calls[c].pvc>> \in Items
  BY <1>0 DEF IInv, CallsInv, CallInv, Items, CallStates
<1> QED
  BY <1>1, <1>2, <1>3 DEF Return

LEMMA StepIsPromised ==
    ASSUME IInv, ListenInv, [Next]_vars
    PROVE  [Promise!Next]_<<Tasks, Reports>>
<1>1. DownloadsStep
  BY NextDownloads
<1>2. CASE UNCHANGED ops
  BY <1>1, <1>2, SilentStep
<1>3. CASE ExecuteSteps
  BY <1>2, <1>3, ReturnStep
  DEF ExecuteSteps, ItemSteps, CallSteps, ExecuteOther, Execute, getBackup,
      createDataDownloadResource,
      getDataDownloadByName, velero
<1>4. CASE OperationSteps
  <2>1. ASSUME NEW i \in Items, CancelLookup(i)
        PROVE  [Promise!Next]_<<Tasks, Reports>>
    <3>1. ops[i].status = "InProgress" /\ downloads' = downloads
      BY <2>1 DEF CancelLookup, IInv, CancelsInv, CancelInv, objects
    <3> QED
      BY <1>2, <2>1, <3>1, CancelEnds DEF CancelLookup
  <2>2. ASSUME NEW i \in Items, patchDataDownloadCancel(i)
        PROVE  [Promise!Next]_<<Tasks, Reports>>
    <3>1. ops[i].status = "InProgress"
      BY <2>2 DEF patchDataDownloadCancel, IInv, CancelsInv, CancelInv
    <3>2. \/ downloads' = downloads
          \/ \E d \in downloads : Replace(d, PatchedCancel(d))
      BY <2>2 DEF patchDataDownloadCancel, Named
    <3>3. CancelReturns(i) \/ UNCHANGED ops
      BY <2>2 DEF patchDataDownloadCancel, AttemptFails
    <3> QED
      BY <1>2, <3>1, <3>2, <3>3, CancelEnds
  <2> QED
    BY <1>2, <1>4, <2>1, <2>2, ProgressStep
    DEF OperationSteps, CancelSteps, Timeout
<1>5. CASE EnvironmentSteps
  BY <1>2, <1>5
  DEF EnvironmentSteps, ClusterSteps, VMCancels, Abandon, Crash,
      DeleteRestore, RecreateRestore,
      BackupChanges, ForeignCreate, GarbageCollect, ForeignDelete,
      ControllerSteps, ControllerWorks, ControllerBinds, ControllerCancels,
      Provision, velero
<1>6. CASE UNCHANGED vars
  BY <1>2, <1>6 DEF vars, velero
<1> QED
  BY <1>3, <1>4, <1>5, <1>6 DEF Next

LEMMA InitIsPromised == Init => Promise!Init
  BY DEF Init, Promise!Init, TaskOf, ReportOf, NoOperation

LEMMA InvAndListening == Spec => [](IInv /\ ListenInv)
<1>1. Init => IInv /\ ListenInv
  BY InitIInv, InitListens
<1>2. IInv /\ ListenInv /\ [Next]_vars => (IInv /\ ListenInv)'
  BY Inductive, ListenStep
<1> QED
  BY <1>1, <1>2, PTL DEF Spec

\* Execute, Progress and Cancel implement AsyncOperation for any number of PVCs,
\* concurrent and abandoned calls, faults, crashes and third parties: every
\* operation reports once, success only for a download that completed or was
\* deleted from under it, and no outcome is undone.
THEOREM PromiseIsKept == Spec => KeepsPromise
<1>1. IInv /\ ListenInv /\ [Next]_vars => [Promise!Next]_<<Tasks, Reports>>
  BY StepIsPromised
<1> QED
  BY <1>1, InitIsPromised, InvAndListening, PTL
  DEF Spec, KeepsPromise, Promise!Spec, Tasks, Reports
===============================================================================
