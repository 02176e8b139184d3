---------------------------- MODULE VMBackupProofs ----------------------------
(* Proofs about VMBackup, for every value of its constants: its type           *)
(* invariant, that what Execute hands to Velero stays trackable, that an       *)
(* operation has one upload and one outcome, that Cancel hits its own, and     *)
(* that the plugin keeps the promise of AsyncOperation.                        *)
EXTENDS VMBackup, TLAPS

-------------------------------------------------------------------------------
(* Every step does one of four things to the DataUploads.                      *)

SameObject(d, e) ==
    /\ d.id = e.id /\ d.name = e.name /\ d.owner = e.owner /\ d.vm = e.vm
    /\ d.mover = e.mover /\ d.bsl = e.bsl /\ d.label = e.label
    /\ d.opID = e.opID

\* What an upload ended with stays, and a failure has a message.
OutcomeKept(d, e) ==
    /\ d.phase \in Terminal => e.phase = d.phase /\ e.message = d.message
    /\ e.phase = "Failed" => d.phase = "Failed" \/ e.message \/ EmptyFailure

NothingAdded ==
    /\ uploads' = uploads \/ \E d \in uploads : uploads' = uploads \ {d}
    /\ nextId' = nextId

OneChanged ==
    /\ \E d \in uploads, e \in Uploads :
          /\ SameObject(d, e) /\ OutcomeKept(d, e)
          /\ uploads' = (uploads \ {d}) \cup {e}
    /\ nextId' = nextId

OneCreated ==
    /\ \E e \in Uploads :
          /\ e.id = nextId /\ e.opID.vm = e.name.vm /\ e.phase = "New"
          /\ \A d \in uploads : d.name # e.name
          /\ uploads' = uploads \cup {e}
    /\ nextId' = nextId + 1

UploadsStep == NothingAdded \/ OneChanged \/ OneCreated

\* The object d is what Execute must return for VM v of the Backup uid.
Trackable(d, uid, v, opID) ==
    /\ d.name = generateDataUploadName(v) /\ d.owner = uid /\ d.vm = v
    /\ d.mover = "kubevirt" /\ d.bsl = "ours" /\ d.label = "ours"
    /\ d.opID = opID

\* Every upload with this id, if there still is one, is trackable.
Bound(id, uid, v, opID) ==
    /\ id < nextId
    /\ \A d \in uploads : d.id = id => Trackable(d, uid, v, opID)

UploadsInv ==
    /\ \A d \in uploads :
          /\ d.id < nextId /\ d.opID.vm = d.name.vm
          /\ d.phase = "Failed" => d.message \/ EmptyFailure
    /\ \A d, e \in uploads : d.id = e.id \/ d.name = e.name => d = e

CallInv(c) ==
    /\ calls[c].pc # "idle" =>
          calls[c].uid \in UIDs /\ calls[c].opID.vm = calls[c].vm
    /\ calls[c].pc \in {"create", "get"} =>
          calls[c].opID = generateOperationID(calls[c].vm)
    /\ calls[c].pc = "return" =>
          Bound(calls[c].id, calls[c].uid, calls[c].vm, calls[c].opID)

OpInv(i) ==
    ops[i].status # "none" =>
        /\ Bound(ops[i].id, i[1], i[2], ops[i].opID)
        /\ ops[i].opID.vm = i[2]

CallsInv == \A c \in Calls : CallInv(c)
OpsInv   == \A i \in Items : OpInv(i)

\* Only operations in progress are ever canceled, and what a Cancel call has
\* found belongs to the operation's VM.
CancelsInv ==
    \A i \in Items :
        /\ cancels[i].pc \in {"list", "patch"} => ops[i].status = "InProgress"
        /\ cancels[i].pc = "patch" =>
              \A f \in cancels[i].found : f.name.vm = i[2]

\* The inductive invariant: an id, once handed out, is never used again, so a
\* call or an operation that holds the id of a deleted upload is bound to
\* nothing, and never to a successor under the same name.
IInv == TypeOK /\ UploadsInv /\ CallsInv /\ OpsInv /\ CancelsInv

LEMMA NoCallType == NoCall \in CallStates
  BY SetsAssumption, BoundsAssumption
  DEF NoCall, CallStates, NoID, OperationIDs, UIDs

LEMMA IdType ==
    ASSUME NEW v \in VMs
    PROVE  /\ generateDataUploadName(v) \in Names
           /\ generateOperationID(v) \in OperationIDs
  BY DEF generateDataUploadName, generateOperationID, Names, OperationIDs

LEMMA NewUploadType ==
    ASSUME NEW id \in Nat, NEW uid \in UIDs, NEW v \in VMs, NEW p \in PVCs
    PROVE  NewUpload(id, uid, v, p) \in Uploads
  BY IdType DEF NewUpload, Uploads, Running, Terminal

LEMMA InitIInv == Init => IInv
<1> SUFFICES ASSUME Init PROVE IInv
  OBVIOUS
<1>1. TypeOK
  BY NoCallType, SetsAssumption, BoundsAssumption
  DEF Init, TypeOK, UIDs, Items, OperationStates, CancelStates, NoOperation,
      NoCancel, NoID, OperationIDs
<1>2. UploadsInv
  BY DEF Init, UploadsInv
<1>3. CallsInv
  BY DEF Init, CallsInv, CallInv, NoCall
<1>4. OpsInv
  BY DEF Init, OpsInv, OpInv, NoOperation
<1>5. CancelsInv
  BY DEF Init, CancelsInv, NoCancel
<1> QED
  BY <1>1, <1>2, <1>3, <1>4, <1>5 DEF IInv

-------------------------------------------------------------------------------
(* What an UploadsStep preserves.                                              *)

LEMMA UploadsInvStep ==
    ASSUME TypeOK, UploadsInv, UploadsStep
    PROVE  UploadsInv'
<1>1. CASE NothingAdded
  BY <1>1 DEF NothingAdded, UploadsInv
<1>2. CASE OneChanged
  BY <1>2 DEF OneChanged, UploadsInv, SameObject, OutcomeKept, Terminal
<1>3. CASE OneCreated
  <2>1. PICK e \in Uploads : /\ e.id = nextId /\ e.opID.vm = e.name.vm
                             /\ e.phase = "New"
                             /\ \A d \in uploads : d.name # e.name
                             /\ uploads' = uploads \cup {e}
    BY <1>3 DEF OneCreated
  <2>2. nextId' = nextId + 1 /\ nextId \in Nat
    BY <1>3 DEF OneCreated, TypeOK
  <2>3. \A d \in uploads : d.id \in Nat /\ d.id < nextId
    BY DEF UploadsInv, TypeOK, Uploads
  <2> QED
    BY <2>1, <2>2, <2>3 DEF UploadsInv
<1> QED
  BY <1>1, <1>2, <1>3 DEF UploadsStep

LEMMA BoundStep ==
    ASSUME TypeOK, UploadsInv, UploadsStep,
           NEW id \in Nat, NEW uid, NEW v, NEW opID, Bound(id, uid, v, opID)
    PROVE  /\ id < nextId'
           /\ \A d \in uploads' : d.id = id => Trackable(d, uid, v, opID)
<1>1. CASE NothingAdded
  BY <1>1 DEF NothingAdded, Bound
<1>2. CASE OneChanged
  BY <1>2 DEF OneChanged, Bound, SameObject, Trackable
<1>3. CASE OneCreated
  <2>1. nextId \in Nat
    BY DEF TypeOK
  <2> QED
    BY <1>3, <2>1 DEF OneCreated, Bound
<1> QED
  BY <1>1, <1>2, <1>3 DEF UploadsStep

-------------------------------------------------------------------------------
(* Every step is an UploadsStep.                                               *)

LEMMA CreateUploads ==
    ASSUME IInv, NEW c \in Calls, createDataUploadResource(c)
    PROVE  UploadsStep
<1> DEFINE e == NewUpload(nextId, calls[c].uid, calls[c].vm, calls[c].pvc)
<1>1. CASE UNCHANGED <<uploads, nextId>>
  BY <1>1 DEF UploadsStep, NothingAdded
<1>2. CASE /\ Named(generateDataUploadName(calls[c].vm)) = {}
           /\ uploads' = uploads \cup {e}
           /\ nextId' = nextId + 1
  <2>1. calls[c].uid \in UIDs /\ calls[c].vm \in VMs /\ calls[c].pvc \in PVCs
    BY DEF IInv, CallsInv, CallInv, TypeOK, CallStates, createDataUploadResource
  <2>2. e \in Uploads
    BY <2>1, NewUploadType DEF IInv, TypeOK
  <2>3. /\ e.id = nextId /\ e.opID.vm = e.name.vm /\ e.phase = "New"
        /\ e.name = generateDataUploadName(calls[c].vm)
    BY DEF NewUpload, generateDataUploadName, generateOperationID
  <2>4. \A d \in uploads : d.name # e.name
    BY <1>2, <2>3 DEF Named
  <2> QED
    BY <1>2, <2>2, <2>3, <2>4 DEF UploadsStep, OneCreated
<1> QED
  BY <1>1, <1>2 DEF createDataUploadResource

LEMMA ForeignStep ==
    ASSUME IInv, NEW v \in VMs, NEW p \in PVCs, ForeignCreate(v, p)
    PROVE  UploadsStep
<1>1. PICK e \in ForeignUploads(v, p) : uploads' = uploads \cup {e}
  BY DEF ForeignCreate
<1>2. /\ nextId' = nextId + 1 /\ nextId \in Nat /\ epoch \in UIDs
      /\ Named(generateDataUploadName(v)) = {}
  BY DEF ForeignCreate, IInv, TypeOK
<1> DEFINE base == NewUpload(nextId, epoch, v, p)
<1>3. base \in Uploads
  BY <1>2, NewUploadType
<1>4. /\ base.id = nextId /\ base.name = generateDataUploadName(v)
      /\ base.opID.vm = v /\ base.phase = "New"
  BY DEF NewUpload, generateOperationID
<1>5. /\ e \in Uploads /\ e.id = nextId /\ e.name = base.name
      /\ e.opID.vm = v /\ e.phase = "New"
  BY <1>1, <1>3, <1>4 DEF ForeignUploads, Uploads, OperationIDs
<1>6. e.name.vm = v
  BY <1>4, <1>5 DEF generateDataUploadName
<1> QED
  BY <1>1, <1>2, <1>4, <1>5, <1>6 DEF UploadsStep, OneCreated, Named

LEMMA PatchUploads ==
    ASSUME IInv, NEW i \in Items, patchDataUploadCancel(i)
    PROVE  UploadsStep
<1> DEFINE targets == UNION {Named(d.name) : d \in cancels[i].found}
<1>1. nextId' = nextId
  BY DEF patchDataUploadCancel
<1>2. CASE uploads' = uploads
  BY <1>1, <1>2 DEF UploadsStep, NothingAdded
<1>3. CASE ApplyPatch(i, targets)
  <2>1. PICK d \in targets : Replace(d, PatchedCancel(i, d))
    BY <1>3 DEF ApplyPatch
  <2>2. d \in uploads
    BY <2>1 DEF Named
  <2>3. d \in Uploads
    BY <2>2 DEF IInv, TypeOK
  <2>4. /\ PatchedCancel(i, d) \in Uploads /\ SameObject(d, PatchedCancel(i, d))
        /\ OutcomeKept(d, PatchedCancel(i, d))
    BY <2>3 DEF PatchedCancel, Uploads, SameObject, OutcomeKept
  <2> QED
    BY <1>1, <2>1, <2>2, <2>4 DEF UploadsStep, OneChanged, Replace
<1> QED
  BY <1>2, <1>3 DEF patchDataUploadCancel

LEMMA NextUploads ==
    ASSUME IInv, [Next]_vars
    PROVE  UploadsStep
<1> USE DEF UploadsStep, NothingAdded
<1>0. \A d \in uploads : d \in Uploads
  BY DEF IInv, TypeOK
<1>1. CASE UNCHANGED vars
  BY <1>1 DEF vars, cluster
<1>2. CASE ExecuteSteps
  <2>1. CASE \E c \in Calls, v \in VMs, p \in PVCs : Execute(c, v, p)
    BY <2>1 DEF Execute, cluster
  <2>2. CASE \E c \in Calls : createDataUploadResource(c)
    BY <2>2, CreateUploads
  <2>3. CASE \E c \in Calls : getDataUploadByName(c)
    BY <2>3 DEF getDataUploadByName, cluster
  <2>4. CASE \E c \in Calls : Return(c)
    BY <2>4 DEF Return, cluster
  <2> QED
    BY <1>2, <2>1, <2>2, <2>3, <2>4 DEF ExecuteSteps
<1>3. CASE OperationSteps
  <2>1. CASE \E i \in Items : Progress(i)
    BY <2>1 DEF Progress, cluster
  <2>2. CASE \E i \in Items : Timeout(i)
    BY <2>2 DEF Timeout, cluster
  <2>3. CASE \E i \in Items : CancelLookup(i)
    BY <2>3 DEF CancelLookup, cluster
  <2>4. CASE \E i \in Items : patchDataUploadCancel(i)
    BY <2>4, PatchUploads
  <2> QED
    BY <1>3, <2>1, <2>2, <2>3, <2>4 DEF OperationSteps
<1>4. CASE EnvironmentSteps
  <2>1. CASE \E c \in Calls : Abandon(c)
    BY <2>1 DEF Abandon, cluster
  <2>2. CASE Crash
    BY <2>2 DEF Crash, cluster
  <2>3. CASE DeleteBackup \/ RecreateBackup
    BY <2>3 DEF DeleteBackup, RecreateBackup
  <2>4. CASE \E v \in VMs, p \in PVCs : ForeignCreate(v, p)
    BY <2>4, ForeignStep
  <2>5. CASE \E d \in uploads : GarbageCollect(d)
    BY <2>5 DEF GarbageCollect
  <2>6. CASE \E d \in uploads : ForeignDelete(d)
    BY <2>6 DEF ForeignDelete
  <2>7. CASE \E d \in uploads : ForeignCancel(d)
    <3>1. PICK d \in uploads : ForeignCancel(d)
      BY <2>7
    <3> DEFINE e == [d EXCEPT !.cancel = TRUE]
    <3>2. e \in Uploads /\ SameObject(d, e) /\ OutcomeKept(d, e)
      BY <1>0 DEF Uploads, SameObject, OutcomeKept
    <3> QED
      BY <3>1, <3>2 DEF ForeignCancel, Replace, OneChanged
  <2>8. CASE \E d \in uploads : ControllerWorks(d)
    <3>1. PICK d \in uploads : ControllerWorks(d)
      BY <2>8
    <3>2. PICK ph \in NextPhases(d), m \in BOOLEAN :
              /\ ph = "Failed" => m \/ EmptyFailure
              /\ Replace(d, Outcome(d, ph, m))
      BY <3>1 DEF ControllerWorks
    <3>3. ph \in Running \cup Terminal /\ d.phase \notin Terminal
      BY <3>2 DEF NextPhases, Running, Terminal
    <3>4. /\ Outcome(d, ph, m) \in Uploads /\ SameObject(d, Outcome(d, ph, m))
          /\ OutcomeKept(d, Outcome(d, ph, m))
      BY <1>0, <3>2, <3>3 DEF Outcome, Uploads, SameObject, OutcomeKept
    <3> QED
      BY <3>1, <3>2, <3>4 DEF ControllerWorks, Replace, OneChanged
  <2>9. CASE \E d \in uploads : ControllerCancels(d)
    <3>1. PICK d \in uploads : ControllerCancels(d)
      BY <2>9
    <3> DEFINE ph == IF d.phase = "InProgress" THEN "Canceling" ELSE "Canceled"
               e == [d EXCEPT !.phase = ph]
    <3>2. ph \in Running \cup Terminal /\ ph # "Failed" /\ d.phase \notin Terminal
      BY <3>1 DEF ControllerCancels, Running, Terminal
    <3>3. e \in Uploads /\ SameObject(d, e) /\ OutcomeKept(d, e)
      BY <1>0, <3>2 DEF Uploads, SameObject, OutcomeKept
    <3> QED
      BY <3>1, <3>3 DEF ControllerCancels, Replace, OneChanged
  <2> QED
    BY <1>4, <2>1, <2>2, <2>3, <2>4, <2>5, <2>6, <2>7, <2>8, <2>9
    DEF EnvironmentSteps
<1> QED
  BY <1>1, <1>2, <1>3, <1>4 DEF Next

-------------------------------------------------------------------------------
(* The type invariant is preserved.  UploadsStep takes care of the cluster.    *)

LEMMA BudgetType ==
    ASSUME TypeOK, \/ UNCHANGED budget \/ Meddle
                   \/ \E k \in FaultKinds : Spend(k)
    PROVE  /\ faults' \in [FaultKinds -> Nat] /\ meddled' \in Nat
           /\ crashes' \in Nat
  BY DEF TypeOK, budget, Meddle, Spend

LEMMA FailCallType ==
    ASSUME TypeOK, NEW c \in Calls, FailCall(c)
    PROVE  calls' \in [Calls -> CallStates]
  BY NoCallType DEF TypeOK, FailCall

LEMMA CancelReturnsType ==
    ASSUME TypeOK, NEW i \in Items, CancelReturns(i)
    PROVE  /\ cancels' \in [Items -> CancelStates]
           /\ ops' \in [Items -> OperationStates]
<1>1. [NoCancel EXCEPT !.pc = "done"] \in CancelStates
  BY DEF NoCancel, CancelStates
<1>2. [ops EXCEPT ![i].status = "Failed"] \in [Items -> OperationStates]
  BY DEF TypeOK, OperationStates
<1> QED
  BY <1>1, <1>2 DEF TypeOK, CancelReturns

VeleroType == /\ calls \in [Calls -> CallStates]
              /\ ops \in [Items -> OperationStates]
              /\ cancels \in [Items -> CancelStates]

LEMMA ExecuteTypes ==
    ASSUME IInv, ExecuteSteps
    PROVE  VeleroType' /\ (UNCHANGED budget \/ \E k \in FaultKinds : Spend(k))
<1> USE DEF VeleroType
<1>0. TypeOK /\ nextId \in Nat
  BY DEF IInv, TypeOK
<1>1. ASSUME NEW c \in Calls, NEW v \in VMs, NEW p \in PVCs, Execute(c, v, p)
      PROVE  VeleroType' /\ UNCHANGED budget
  <2>1. 1 \in 0..MaxCreateAttempts
    BY BoundsAssumption
  <2> QED
    BY <1>0, <1>1, <2>1, IdType DEF Execute, TypeOK, CallStates
<1>2. ASSUME NEW c \in Calls, createDataUploadResource(c)
      PROVE  VeleroType' /\ (UNCHANGED budget \/ Spend("create"))
  <2>1. UNCHANGED <<ops, cancels>>
    BY <1>2 DEF createDataUploadResource
  <2>2. CASE FailCall(c) /\ Spend("create")
    BY <1>0, <2>1, <2>2, FailCallType DEF TypeOK
  <2>3. CASE /\ calls' = [calls EXCEPT ![c] =
                   [@ EXCEPT !.pc = "return", !.id = nextId]]
             /\ UNCHANGED budget
    BY <1>0, <2>1, <2>3 DEF TypeOK, CallStates
  <2>4. CASE calls' = [calls EXCEPT ![c].pc = "get"] /\ UNCHANGED budget
    BY <1>0, <2>1, <2>4 DEF TypeOK, CallStates
  <2> QED
    BY <1>2, <2>2, <2>3, <2>4 DEF createDataUploadResource
<1>3. ASSUME NEW c \in Calls, getDataUploadByName(c)
      PROVE  VeleroType' /\ (UNCHANGED budget \/ Spend("get"))
  <2>1. UNCHANGED <<ops, cancels>>
    BY <1>3 DEF getDataUploadByName
  <2>2. CASE FailCall(c) /\ (UNCHANGED budget \/ Spend("get"))
    BY <1>0, <2>1, <2>2, FailCallType DEF TypeOK
  <2>3. CASE /\ calls' = [calls EXCEPT ![c] =
                   [@ EXCEPT !.pc = "create", !.attempt = calls[c].attempt + 1]]
             /\ calls[c].attempt < MaxCreateAttempts
             /\ UNCHANGED budget
    <3>1. calls[c] \in CallStates /\ calls[c].attempt + 1 \in 0..MaxCreateAttempts
      BY <1>0, <2>3, BoundsAssumption DEF TypeOK, CallStates
    <3>2. [calls[c] EXCEPT !.pc = "create", !.attempt = calls[c].attempt + 1] \in CallStates
      BY <3>1 DEF CallStates
    <3> QED
      BY <1>0, <2>1, <2>3, <3>2 DEF TypeOK
  <2>4. CASE /\ \E d \in uploads : calls' = [calls EXCEPT ![c] =
                   [@ EXCEPT !.pc = "return", !.id = d.id, !.opID = d.opID]]
             /\ UNCHANGED budget
    <3>1. PICK d \in uploads : calls' = [calls EXCEPT ![c] =
              [@ EXCEPT !.pc = "return", !.id = d.id, !.opID = d.opID]]
      BY <2>4
    <3>2. calls[c] \in CallStates /\ d.id \in Nat /\ d.opID \in OperationIDs
      BY <1>0 DEF TypeOK, Uploads
    <3>3. [calls[c] EXCEPT !.pc = "return", !.id = d.id, !.opID = d.opID]
              \in CallStates
      BY <3>2 DEF CallStates
    <3> QED
      BY <1>0, <2>1, <2>4, <3>1, <3>3 DEF TypeOK
  <2> QED
    BY <1>3, <2>2, <2>3, <2>4 DEF getDataUploadByName, Named
<1>4. ASSUME NEW c \in Calls, Return(c)
      PROVE  VeleroType' /\ UNCHANGED budget
  <2>1. calls[c] \in CallStates
    BY <1>0 DEF TypeOK
  <2>2. [status |-> "InProgress", opID |-> calls[c].opID, id |-> calls[c].id]
            \in OperationStates
    BY <2>1 DEF CallStates, OperationStates
  <2>3. ops' \in [Items -> OperationStates]
    BY <1>0, <1>4, <2>2 DEF Return, TypeOK
  <2> QED
    BY <1>0, <1>4, <2>3, NoCallType DEF Return, TypeOK
<1> QED
  BY <1>1, <1>2, <1>3, <1>4 DEF ExecuteSteps, FaultKinds

LEMMA OperationTypes ==
    ASSUME IInv, OperationSteps
    PROVE  VeleroType' /\ (UNCHANGED budget \/ \E k \in FaultKinds : Spend(k))
<1> USE DEF VeleroType
<1>0. TypeOK /\ \A d \in uploads : d \in Uploads
  BY DEF IInv, TypeOK
<1>1. ASSUME NEW i \in Items, Progress(i)
      PROVE  VeleroType' /\ UNCHANGED budget
  <2>1. CASE ops' = [ops EXCEPT ![i].status = "Failed"]
    BY <1>0, <1>1, <2>1 DEF Progress, TypeOK, OperationStates
  <2>2. CASE \E d \in uploads : ops' = [ops EXCEPT ![i].status = ProgressOf(d)]
    <3>1. PICK d \in uploads : ops' = [ops EXCEPT ![i].status = ProgressOf(d)]
      BY <2>2
    <3>2. ProgressOf(d) \in {"InProgress", "Completed", "Failed"}
      BY <1>0 DEF ProgressOf, Uploads, Terminal
    <3>3. ops' \in [Items -> OperationStates]
      BY <1>0, <3>1, <3>2 DEF TypeOK, OperationStates
    <3> QED
      BY <1>0, <1>1, <3>3 DEF Progress, TypeOK
  <2> QED
    BY <1>1, <2>1, <2>2 DEF Progress, WithOperationID
<1>2. ASSUME NEW i \in Items, Timeout(i)
      PROVE  VeleroType' /\ UNCHANGED budget
  BY <1>0, <1>2 DEF Timeout, TypeOK, CancelStates
<1>3. ASSUME NEW i \in Items, CancelLookup(i)
      PROVE  VeleroType' /\ (UNCHANGED budget \/ Spend("list"))
  <2>1. UNCHANGED calls
    BY <1>3 DEF CancelLookup
  <2>2. CASE CancelReturns(i) /\ (UNCHANGED budget \/ Spend("list"))
    BY <1>0, <2>1, <2>2, CancelReturnsType DEF TypeOK
  <2>3. CASE /\ \E d \in uploads : cancels' = [cancels EXCEPT ![i] =
                   [@ EXCEPT !.pc = "patch", !.found = {d}]]
             /\ UNCHANGED <<ops, budget>>
    <3>1. PICK d \in uploads : cancels' = [cancels EXCEPT ![i] =
              [@ EXCEPT !.pc = "patch", !.found = {d}]]
      BY <2>3
    <3>2. [cancels[i] EXCEPT !.pc = "patch", !.found = {d}] \in CancelStates
      BY <1>0 DEF TypeOK, CancelStates
    <3> QED
      BY <1>0, <2>1, <2>3, <3>1, <3>2 DEF TypeOK
  <2> QED
    BY <1>3, <2>2, <2>3 DEF CancelLookup, WithOperationID
<1>4. ASSUME NEW i \in Items, patchDataUploadCancel(i)
      PROVE  VeleroType' /\ (UNCHANGED budget \/ Spend("patch") \/ Spend("hang"))
  <2>1. UNCHANGED calls
    BY <1>4 DEF patchDataUploadCancel
  <2>2. CASE CancelReturns(i) /\ UNCHANGED budget
    BY <1>0, <2>1, <2>2, CancelReturnsType DEF TypeOK
  <2>3. ASSUME NEW cost \in Nat, AttemptFails(i, cost)
        PROVE  VeleroType'
    <3>1. CASE CancelReturns(i)
      BY <1>0, <2>1, <3>1, CancelReturnsType DEF TypeOK
    <3>2. CASE /\ cancels' = [cancels EXCEPT ![i] =
                     [@ EXCEPT !.tries = cancels[i].tries + 1,
                               !.spent = cancels[i].spent + cost]]
               /\ UNCHANGED ops
      <4>1. /\ cancels[i] \in CancelStates /\ cancels[i].tries + 1 \in Nat
            /\ cancels[i].spent + cost \in Nat
        BY <1>0 DEF TypeOK, CancelStates
      <4>2. [cancels[i] EXCEPT !.tries = cancels[i].tries + 1,
                               !.spent = cancels[i].spent + cost]
                \in CancelStates
        BY <4>1 DEF CancelStates
      <4> QED
        BY <1>0, <2>1, <3>2, <4>2 DEF TypeOK
    <3> QED
      BY <2>3, <3>1, <3>2 DEF AttemptFails
  <2>4. 0 \in Nat /\ CallTimeout \in Nat
    BY BoundsAssumption
  <2> QED
    BY <1>4, <2>2, <2>3, <2>4 DEF patchDataUploadCancel
<1> QED
  BY <1>1, <1>2, <1>3, <1>4 DEF OperationSteps, FaultKinds

LEMMA EnvironmentTypes ==
    ASSUME IInv, EnvironmentSteps
    PROVE  /\ VeleroType' /\ epoch' \in UIDs /\ alive' \in BOOLEAN
           /\ faults' \in [FaultKinds -> Nat] /\ meddled' \in Nat
           /\ crashes' \in Nat
<1> USE DEF VeleroType
<1>0. TypeOK
  BY DEF IInv
<1>1. CASE \E c \in Calls : Abandon(c)
  <2>1. PICK c \in Calls : Abandon(c)
    BY <1>1
  <2>2. [calls[c] EXCEPT !.abandoned = TRUE] \in CallStates
    BY <1>0 DEF TypeOK, CallStates
  <2> QED
    BY <1>0, <2>1, <2>2 DEF Abandon, TypeOK, cluster, budget
<1>2. CASE Crash
  <2>1. NoCancel \in CancelStates
    BY DEF NoCancel, CancelStates
  <2>2. calls' \in [Calls -> CallStates] /\ cancels' \in [Items -> CancelStates]
    BY <1>0, <1>2, <2>1, NoCallType DEF Crash, TypeOK
  <2> QED
    BY <1>0, <1>2, <2>2 DEF Crash, TypeOK, cluster
<1>3. CASE DeleteBackup \/ RecreateBackup
  <2>1. epoch' \in UIDs
    BY <1>0, <1>3, BoundsAssumption DEF DeleteBackup, RecreateBackup, TypeOK, UIDs
  <2> QED
    BY <1>0, <1>3, <2>1
    DEF DeleteBackup, RecreateBackup, TypeOK, velero, budget
<1>4. CASE /\ UNCHANGED <<epoch, alive, velero>>
           /\ UNCHANGED budget \/ Meddle
  BY <1>0, <1>4, BudgetType DEF TypeOK, velero
<1>5. CASE \E v \in VMs, p \in PVCs : ForeignCreate(v, p)
  BY <1>4, <1>5 DEF ForeignCreate
<1>6. CASE \E d \in uploads : \/ GarbageCollect(d) \/ ForeignDelete(d)
                              \/ ForeignCancel(d) \/ ControllerWorks(d)
                              \/ ControllerCancels(d)
  BY <1>4, <1>6 DEF GarbageCollect, ForeignDelete, ForeignCancel,
                    ControllerWorks, ControllerCancels
<1> QED
  BY <1>1, <1>2, <1>3, <1>5, <1>6 DEF EnvironmentSteps

LEMMA TypeStep ==
    ASSUME IInv, [Next]_vars
    PROVE  TypeOK'
<1>1. uploads' \subseteq Uploads /\ nextId' \in Nat
  BY NextUploads
  DEF IInv, TypeOK, UploadsStep, NothingAdded, OneChanged, OneCreated
<1>2. CASE UNCHANGED vars
  BY <1>1, <1>2 DEF IInv, TypeOK, vars, cluster, velero, budget
<1>3. CASE ExecuteSteps
  <2>1. UNCHANGED <<epoch, alive>>
    BY <1>3 DEF ExecuteSteps, Execute, createDataUploadResource,
                getDataUploadByName, Return, cluster
  <2> QED
    BY <1>1, <1>3, <2>1, ExecuteTypes, BudgetType DEF IInv, TypeOK, VeleroType
<1>4. CASE OperationSteps
  <2>1. UNCHANGED <<epoch, alive>>
    BY <1>4 DEF OperationSteps, Progress, Timeout, CancelLookup,
                patchDataUploadCancel, cluster
  <2> QED
    BY <1>1, <1>4, <2>1, OperationTypes, BudgetType DEF IInv, TypeOK, VeleroType
<1>5. CASE EnvironmentSteps
  BY <1>1, <1>5, EnvironmentTypes DEF TypeOK, VeleroType
<1> QED
  BY <1>2, <1>3, <1>4, <1>5 DEF Next

-------------------------------------------------------------------------------
(* Calls and operations stay bound to their uploads.                           *)

LEMMA CallFrame ==
    ASSUME IInv, UploadsStep, NEW c \in Calls,
           \/ calls'[c] = NoCall
           \/ /\ calls'[c].pc = calls[c].pc /\ calls'[c].uid = calls[c].uid
              /\ calls'[c].vm = calls[c].vm /\ calls'[c].opID = calls[c].opID
              /\ calls'[c].id = calls[c].id
    PROVE  CallInv(c)'
<1>1. CASE calls'[c] = NoCall
  BY <1>1 DEF CallInv, NoCall
<1>2. CASE calls'[c].pc = "return" /\ calls[c].pc = "return"
  <2>1. Bound(calls[c].id, calls[c].uid, calls[c].vm, calls[c].opID)
    BY <1>2 DEF IInv, CallsInv, CallInv
  <2>2. calls[c].id \in Nat
    BY DEF IInv, TypeOK, CallStates
  <2>3. /\ calls[c].id < nextId'
        /\ \A d \in uploads' : d.id = calls[c].id =>
              Trackable(d, calls[c].uid, calls[c].vm, calls[c].opID)
    BY <2>1, <2>2, BoundStep DEF IInv
  <2>4. /\ calls'[c].uid = calls[c].uid /\ calls'[c].vm = calls[c].vm
        /\ calls'[c].opID = calls[c].opID /\ calls'[c].id = calls[c].id
    BY <1>2 DEF NoCall
  <2>5. calls[c].uid \in UIDs /\ calls[c].opID.vm = calls[c].vm
    BY <1>2 DEF IInv, CallsInv, CallInv
  <2> QED
    BY <1>2, <2>3, <2>4, <2>5 DEF CallInv, Bound, Trackable
<1> QED
  BY <1>1, <1>2 DEF IInv, CallsInv, CallInv

LEMMA OpFrame ==
    ASSUME IInv, UploadsStep, NEW i \in Items,
           \/ ops'[i].status = "none"
           \/ /\ ops[i].status # "none"
              /\ ops'[i].id = ops[i].id /\ ops'[i].opID = ops[i].opID
    PROVE  OpInv(i)'
<1>1. CASE /\ ops[i].status # "none"
           /\ ops'[i].id = ops[i].id /\ ops'[i].opID = ops[i].opID
  <2>1. /\ Bound(ops[i].id, i[1], i[2], ops[i].opID) /\ ops[i].id \in Nat
        /\ ops[i].opID.vm = i[2]
    BY <1>1 DEF IInv, OpsInv, OpInv, TypeOK, OperationStates
  <2> QED
    BY <1>1, <2>1, BoundStep DEF IInv, OpInv, Bound, Trackable
<1> QED
  BY <1>1 DEF OpInv

LEMMA CreateCall ==
    ASSUME IInv, UploadsStep, NEW c \in Calls, createDataUploadResource(c)
    PROVE  CallInv(c)'
<1>0. calls \in [Calls -> CallStates] /\ nextId \in Nat /\ CallInv(c)
  BY DEF IInv, TypeOK, CallsInv
<1>1. CASE FailCall(c)
  BY <1>0, <1>1, CallFrame DEF FailCall
<1>2. CASE calls' = [calls EXCEPT ![c].pc = "get"]
  BY <1>0, <1>2 DEF CallInv, createDataUploadResource, CallStates
<1>3. CASE /\ calls' = [calls EXCEPT ![c] =
                  [@ EXCEPT !.pc = "return", !.id = nextId]]
           /\ uploads' = uploads \cup {NewUpload(nextId, calls[c].uid,
                                           calls[c].vm, calls[c].pvc)}
           /\ nextId' = nextId + 1
  <2> DEFINE e == NewUpload(nextId, calls[c].uid, calls[c].vm, calls[c].pvc)
  <2>1. calls[c].pc = "create" /\ calls[c].uid \in UIDs
        /\ calls[c].opID = generateOperationID(calls[c].vm)
        /\ calls[c].opID.vm = calls[c].vm
    BY <1>0 DEF createDataUploadResource, CallInv
  <2>2. Trackable(e, calls[c].uid, calls[c].vm, calls[c].opID)
    BY <2>1 DEF Trackable, NewUpload
  <2>3. \A d \in uploads : d.id # nextId
    BY <1>0 DEF IInv, UploadsInv, TypeOK, Uploads
  <2>4. \A d \in uploads' : d.id = nextId => d = e
    BY <1>3, <2>3
  <2>5. /\ calls'[c].pc = "return" /\ calls'[c].uid = calls[c].uid
        /\ calls'[c].vm = calls[c].vm /\ calls'[c].opID = calls[c].opID
        /\ calls'[c].id = nextId
    BY <1>0, <1>3 DEF CallStates
  <2>6. nextId < nextId'
    BY <1>0, <1>3
  <2> QED
    BY <2>1, <2>2, <2>4, <2>5, <2>6 DEF CallInv, Bound, Trackable
<1> QED
  BY <1>1, <1>2, <1>3 DEF createDataUploadResource

LEMMA AdoptCall ==
    ASSUME IInv, UploadsStep, NEW c \in Calls, getDataUploadByName(c)
    PROVE  CallInv(c)'
<1>0. /\ calls \in [Calls -> CallStates] /\ CallInv(c) /\ calls[c].pc = "get"
      /\ uploads' = uploads /\ nextId' = nextId
  BY DEF IInv, TypeOK, CallsInv, getDataUploadByName, cluster
<1>1. CASE FailCall(c)
  BY <1>0, <1>1, CallFrame DEF FailCall
<1>2. CASE calls' = [calls EXCEPT ![c] =
               [@ EXCEPT !.pc = "create", !.attempt = calls[c].attempt + 1]]
  BY <1>0, <1>2 DEF CallInv, CallStates
<1>3. ASSUME NEW d \in Named(generateDataUploadName(calls[c].vm)),
             validateAdoptableDataUpload(d, calls[c]),
             calls' = [calls EXCEPT ![c] =
                 [@ EXCEPT !.pc = "return", !.id = d.id, !.opID = d.opID]]
      PROVE  CallInv(c)'
  <2>1. Trackable(d, calls[c].uid, calls[c].vm, d.opID)
    BY <1>3 DEF Named, validateAdoptableDataUpload, hasOwnerUID, Trackable
  <2>2. Bound(d.id, calls[c].uid, calls[c].vm, d.opID)
    BY <1>3, <2>1 DEF IInv, UploadsInv, Bound, Named
  <2>4. d.opID.vm = calls[c].vm
    BY <1>3 DEF IInv, UploadsInv, Named, generateDataUploadName
  <2>3. /\ calls'[c].pc = "return" /\ calls'[c].uid = calls[c].uid
        /\ calls'[c].vm = calls[c].vm /\ calls'[c].opID = d.opID
        /\ calls'[c].id = d.id
    BY <1>0, <1>3 DEF CallStates
  <2> QED
    BY <1>0, <2>2, <2>3, <2>4 DEF CallInv, Bound, Trackable
<1> QED
  BY <1>1, <1>2, <1>3 DEF getDataUploadByName

LEMMA CallsStep ==
    ASSUME IInv, [Next]_vars, UploadsStep
    PROVE  CallsInv'
<1> SUFFICES ASSUME NEW e \in Calls PROVE CallInv(e)'
  BY DEF CallsInv
<1>0. calls \in [Calls -> CallStates]
  BY DEF IInv, TypeOK
<1>1. CASE calls'[e] = calls[e]
  BY <1>1, CallFrame
<1>2. ASSUME NEW c \in Calls, NEW v \in VMs, NEW p \in PVCs, Execute(c, v, p)
      PROVE  CallInv(e)'
  <2>1. CASE e = c
    BY <1>0, <1>2, <2>1
    DEF Execute, CallInv, IInv, TypeOK, generateOperationID
  <2> QED
    BY <1>0, <1>1, <1>2, <2>1 DEF Execute
<1>3. ASSUME NEW c \in Calls, createDataUploadResource(c)
      PROVE  CallInv(e)'
  <2>1. e # c => calls'[e] = calls[e]
    BY <1>0, <1>3 DEF createDataUploadResource, FailCall
  <2> QED
    BY <1>1, <1>3, <2>1, CreateCall
<1>4. ASSUME NEW c \in Calls, getDataUploadByName(c)
      PROVE  CallInv(e)'
  <2>1. e # c => calls'[e] = calls[e]
    BY <1>0, <1>4 DEF getDataUploadByName, FailCall
  <2> QED
    BY <1>1, <1>4, <2>1, AdoptCall
<1>5. ASSUME NEW c \in Calls, Return(c)
      PROVE  CallInv(e)'
  <2>1. calls'[e] = calls[e] \/ calls'[e] = NoCall
    BY <1>0, <1>5 DEF Return
  <2> QED
    BY <2>1, CallFrame
<1>6. CASE ExecuteSteps
  BY <1>2, <1>3, <1>4, <1>5, <1>6 DEF ExecuteSteps
<1>7. CASE OperationSteps
  BY <1>1, <1>7 DEF OperationSteps, Progress, Timeout, CancelLookup,
                    patchDataUploadCancel
<1>8. CASE EnvironmentSteps
  <2>1. CASE \E c \in Calls : Abandon(c)
    <3>1. PICK c \in Calls : Abandon(c)
      BY <2>1
    <3>2. /\ calls'[e].pc = calls[e].pc /\ calls'[e].uid = calls[e].uid
          /\ calls'[e].vm = calls[e].vm /\ calls'[e].opID = calls[e].opID
          /\ calls'[e].id = calls[e].id
      BY <1>0, <3>1 DEF Abandon, CallStates
    <3> QED
      BY <3>2, CallFrame
  <2>2. CASE Crash
    BY <2>2, CallFrame DEF Crash
  <2>3. CASE UNCHANGED calls
    BY <1>1, <2>3
  <2> QED
    BY <1>8, <2>1, <2>2, <2>3
    DEF EnvironmentSteps, DeleteBackup, RecreateBackup, ForeignCreate,
        GarbageCollect, ForeignDelete, ForeignCancel, ControllerWorks,
        ControllerCancels, velero
<1>9. CASE UNCHANGED vars
  BY <1>1, <1>9 DEF vars, velero
<1> QED
  BY <1>6, <1>7, <1>8, <1>9 DEF Next

LEMMA OpsStep ==
    ASSUME IInv, [Next]_vars, UploadsStep
    PROVE  OpsInv'
<1> SUFFICES ASSUME NEW j \in Items PROVE OpInv(j)'
  BY DEF OpsInv
<1>0. ops \in [Items -> OperationStates]
  BY DEF IInv, TypeOK
<1>1. CASE ops'[j] = ops[j]
  BY <1>1, OpFrame
<1>2. ASSUME NEW i \in Items, ops[i].status # "none",
             NEW st, ops' = [ops EXCEPT ![i].status = st]
      PROVE  OpInv(j)'
  <2>1. CASE i = j
    <3>1. ops'[j].id = ops[j].id /\ ops'[j].opID = ops[j].opID
      BY <1>0, <1>2, <2>1 DEF OperationStates
    <3> QED
      BY <1>2, <2>1, <3>1, OpFrame
  <2> QED
    BY <1>0, <1>1, <1>2, <2>1
<1>3. ASSUME NEW c \in Calls, Return(c)
      PROVE  OpInv(j)'
  <2> DEFINE item == <<calls[c].uid, calls[c].vm>>
  <2>1. /\ Bound(calls[c].id, calls[c].uid, calls[c].vm, calls[c].opID)
        /\ item[1] = calls[c].uid /\ item[2] = calls[c].vm
        /\ calls[c].opID.vm = calls[c].vm
        /\ uploads' = uploads /\ nextId' = nextId
    BY <1>3 DEF Return, IInv, CallsInv, CallInv, cluster
  <2>2. CASE /\ j = item
             /\ ops' = [ops EXCEPT ![item] =
                   [status |-> "InProgress", opID |-> calls[c].opID,
                    id |-> calls[c].id]]
    <3>1. ops'[j].id = calls[c].id /\ ops'[j].opID = calls[c].opID
      BY <1>0, <2>2
    <3> QED
      BY <2>1, <2>2, <3>1 DEF OpInv, Bound, Trackable
  <2> QED
    BY <1>0, <1>1, <1>3, <2>2 DEF Return
<1>4. CASE ExecuteSteps
  <2>1. CASE UNCHANGED ops
    BY <1>1, <2>1
  <2> QED
    BY <1>3, <1>4, <2>1
    DEF ExecuteSteps, Execute, createDataUploadResource, getDataUploadByName
<1>5. CASE EnvironmentSteps
  BY <1>1, <1>5
  DEF EnvironmentSteps, Abandon, Crash, DeleteBackup, RecreateBackup,
      ForeignCreate, GarbageCollect, ForeignDelete, ForeignCancel,
      ControllerWorks, ControllerCancels, velero
<1>6. CASE OperationSteps
  <2>1. ASSUME NEW i \in Items, Progress(i)
        PROVE  OpInv(j)'
    <3>1. ops[i].status # "none"
      BY <2>1 DEF Progress, Polled
    <3> QED
      BY <1>2, <2>1, <3>1 DEF Progress
  <2>2. ASSUME NEW i \in Items, CancelReturns(i), ops[i].status # "none"
        PROVE  OpInv(j)'
    BY <1>2, <2>2 DEF CancelReturns
  <2>3. ASSUME NEW i \in Items, CancelLookup(i) \/ patchDataUploadCancel(i)
        PROVE  OpInv(j)'
    <3>1. ops[i].status # "none"
      BY <2>3 DEF IInv, CancelsInv, CancelLookup, patchDataUploadCancel
    <3>2. CASE UNCHANGED ops
      BY <1>1, <3>2
    <3> QED
      BY <2>2, <2>3, <3>1, <3>2
      DEF CancelLookup, patchDataUploadCancel, AttemptFails
  <2>4. CASE \E i \in Items : Timeout(i)
    BY <1>1, <2>4 DEF Timeout
  <2> QED
    BY <1>6, <2>1, <2>3, <2>4 DEF OperationSteps
<1>7. CASE UNCHANGED vars
  BY <1>1, <1>7 DEF vars, velero
<1> QED
  BY <1>4, <1>5, <1>6, <1>7 DEF Next

\* What CancelsInv says of one operation.
CancelInv(i) ==
    /\ cancels[i].pc \in {"list", "patch"} => ops[i].status = "InProgress"
    /\ cancels[i].pc = "patch" =>
          \A f \in cancels[i].found : f.name.vm = i[2]

LEMMA CancelsStep ==
    ASSUME IInv, [Next]_vars
    PROVE  CancelsInv'
<1> SUFFICES ASSUME NEW j \in Items PROVE CancelInv(j)'
  BY DEF CancelsInv, CancelInv
<1>0. /\ ops \in [Items -> OperationStates]
      /\ cancels \in [Items -> CancelStates]
      /\ CancelInv(j)
  BY DEF IInv, TypeOK, CancelsInv, CancelInv
<1>1. CASE ops'[j] = ops[j] /\ cancels'[j] = cancels[j]
  BY <1>0, <1>1 DEF CancelInv
<1>2. CASE ExecuteSteps
  <2>1. cancels' = cancels
    BY <1>2 DEF ExecuteSteps, Execute, createDataUploadResource,
                getDataUploadByName, Return
  <2>2. CASE UNCHANGED ops
    BY <1>1, <2>1, <2>2
  <2>3. ASSUME NEW c \in Calls, Return(c)
        PROVE  ops'[j] = ops[j] \/ ops'[j].status = "InProgress"
    BY <1>0, <2>3 DEF Return
  <2>4. CASE ops'[j].status = "InProgress"
    BY <1>0, <2>1, <2>4 DEF CancelInv
  <2> QED
    BY <1>1, <1>2, <2>1, <2>2, <2>3, <2>4
    DEF ExecuteSteps, Execute, createDataUploadResource, getDataUploadByName
<1>3. ASSUME NEW i \in Items, CancelReturns(i)
      PROVE  CancelInv(j)'
  <2>1. CASE i = j
    BY <1>0, <1>3, <2>1 DEF CancelReturns, NoCancel, CancelInv
  <2> QED
    BY <1>0, <1>1, <1>3, <2>1 DEF CancelReturns
<1>4. CASE OperationSteps
  <2>1. ASSUME NEW i \in Items, Progress(i)
        PROVE  CancelInv(j)'
    <3>1. CASE i = j
      BY <2>1, <3>1 DEF Progress, Polled, CancelInv
    <3> QED
      BY <1>0, <1>1, <2>1, <3>1 DEF Progress
  <2>2. ASSUME NEW i \in Items, Timeout(i)
        PROVE  CancelInv(j)'
    <3>1. CASE i = j
      BY <1>0, <2>2, <3>1 DEF Timeout, Polled, CancelInv, CancelStates
    <3> QED
      BY <1>0, <1>1, <2>2, <3>1 DEF Timeout
  <2>3. ASSUME NEW i \in Items, CancelLookup(i)
        PROVE  CancelInv(j)'
    <3>1. CASE CancelReturns(i)
      BY <1>3, <3>1
    <3>2. CASE /\ \E d \in WithOperationID(ops[i].opID) :
                     cancels' = [cancels EXCEPT ![i] =
                         [@ EXCEPT !.pc = "patch", !.found = {d}]]
               /\ UNCHANGED ops
      <4>1. PICK d \in uploads :
               /\ d.opID = ops[i].opID
               /\ cancels' = [cancels EXCEPT ![i] =
                      [@ EXCEPT !.pc = "patch", !.found = {d}]]
        BY <3>2 DEF WithOperationID
      <4>2. CASE i = j
        <5>1. ops[i].status = "InProgress"
          BY <2>3, <4>2, <1>0 DEF CancelInv, CancelLookup
        <5>2. d.name.vm = i[2]
          BY <4>1, <5>1 DEF IInv, OpsInv, OpInv, UploadsInv
        <5>3. cancels'[j].found = {d}
          BY <1>0, <4>1, <4>2 DEF CancelStates
        <5> QED
          BY <3>2, <4>2, <5>1, <5>2, <5>3 DEF CancelInv
      <4> QED
        BY <1>0, <1>1, <3>2, <4>1, <4>2
    <3> QED
      BY <2>3, <3>1, <3>2 DEF CancelLookup
  <2>4. ASSUME NEW i \in Items, patchDataUploadCancel(i)
        PROVE  CancelInv(j)'
    <3>1. CASE CancelReturns(i)
      BY <1>3, <3>1
    <3>2. ASSUME NEW cost, UNCHANGED ops,
                 cancels' = [cancels EXCEPT ![i] =
                     [@ EXCEPT !.tries = cancels[i].tries + 1,
                               !.spent = cancels[i].spent + cost]]
          PROVE  CancelInv(j)'
      <4>1. cancels'[j].pc = cancels[j].pc /\ cancels'[j].found = cancels[j].found
        BY <1>0, <3>2 DEF CancelStates
      <4> QED
        BY <1>0, <3>2, <4>1 DEF CancelInv
    <3> QED
      BY <2>4, <3>1, <3>2 DEF patchDataUploadCancel, AttemptFails
  <2> QED
    BY <1>4, <2>1, <2>2, <2>3, <2>4 DEF OperationSteps
<1>5. CASE EnvironmentSteps
  <2>1. CASE Crash
    BY <1>0, <2>1 DEF Crash, NoCancel, CancelInv
  <2>2. CASE UNCHANGED <<ops, cancels>>
    BY <1>1, <2>2
  <2> QED
    BY <1>5, <2>1, <2>2
    DEF EnvironmentSteps, Abandon, DeleteBackup, RecreateBackup,
        ForeignCreate, GarbageCollect, ForeignDelete, ForeignCancel,
        ControllerWorks, ControllerCancels, velero
<1>6. CASE UNCHANGED vars
  BY <1>1, <1>6 DEF vars, velero
<1> QED
  BY <1>2, <1>4, <1>5, <1>6 DEF Next

-------------------------------------------------------------------------------
(* The theorems.                                                               *)

LEMMA Inductive == IInv /\ [Next]_vars => IInv'
<1> SUFFICES ASSUME IInv, [Next]_vars PROVE IInv'
  OBVIOUS
<1>1. UploadsStep
  BY NextUploads
<1>2. UploadsInv'
  BY <1>1, UploadsInvStep DEF IInv
<1> QED
  BY <1>1, <1>2, TypeStep, CallsStep, OpsStep, CancelsStep DEF IInv

LEMMA Invariance == Spec => []IInv
  BY InitIInv, Inductive, PTL DEF Spec

\* The variables keep their types whatever the calls, the cluster and Velero do.
THEOREM TypeCorrect == Spec => []TypeOK
<1>1. IInv => TypeOK
  BY DEF IInv
<1> QED
  BY <1>1, Invariance, PTL

\* Execute's create-or-adopt loop hands Velero an operation ID by which
\* Progress and Cancel find the operation's own upload and nothing else, for
\* any number of VMs, concurrent calls, faults, crashes and third parties.
THEOREM Trackability == Spec => []RegisteredOperationTracksItsUpload
<1>1. ASSUME IInv PROVE RegisteredOperationTracksItsUpload
  <2> SUFFICES ASSUME NEW i \in Items, NEW d \in Own(i)
               PROVE  /\ WithOperationID(ops[i].opID) = {d}
                      /\ d.owner = i[1] /\ d.vm = i[2]
                      /\ d.mover = "kubevirt" /\ d.bsl = "ours"
    BY DEF RegisteredOperationTracksItsUpload
  <2>1. d \in uploads /\ Trackable(d, i[1], i[2], ops[i].opID)
    BY <1>1 DEF IInv, OpsInv, OpInv, Bound, Own, WithId
  <2>2. ASSUME NEW e \in uploads, e.opID = ops[i].opID
        PROVE  e = d
    <3>1. e.name.vm = d.name.vm
      BY <1>1, <2>1, <2>2 DEF IInv, UploadsInv, Trackable
    <3>2. e.name \in Names /\ d.name \in Names
      BY <1>1, <2>1 DEF IInv, TypeOK, Uploads
    <3>3. e.name = d.name
      BY <3>1, <3>2 DEF Names
    <3> QED
      BY <1>1, <2>1, <3>3 DEF IInv, UploadsInv
  <2>3. WithOperationID(ops[i].opID) = {d}
    BY <2>1, <2>2 DEF WithOperationID, Trackable
  <2> QED
    BY <2>1, <2>3 DEF Trackable
<1> QED
  BY <1>1, Invariance, PTL

\* Retries converge: however often Execute is retried, abandoned, or loses the
\* answer to its Create, no VM gets two uploads under one Backup.
THEOREM OneUpload == Spec => []OneUploadPerItem
<1>1. ASSUME IInv PROVE OneUploadPerItem
  <2> SUFFICES ASSUME NEW d \in uploads, NEW e \in uploads,
                      d.name.vm = e.name.vm
               PROVE  d = e
    BY DEF OneUploadPerItem
  <2>1. d.name \in Names /\ e.name \in Names
    BY <1>1 DEF IInv, TypeOK, Uploads
  <2>2. d.name = e.name
    BY <2>1 DEF Names
  <2> QED
    BY <1>1, <2>2 DEF IInv, UploadsInv
<1> QED
  BY <1>1, Invariance, PTL

\* An outcome is final: the merge patch of Cancel, which races the controller,
\* never undoes the phase an upload ended with.
THEOREM OutcomesAreFinal == Spec => FinalPhaseStays
<1> DEFINE Kept == \A d \in uploads, e \in uploads' :
                      (d.id = e.id /\ d.phase \in Terminal) =>
                          e.phase = d.phase /\ e.message = d.message
<1>1. ASSUME IInv, [Next]_vars PROVE Kept
  <2> SUFFICES ASSUME NEW d \in uploads, NEW e \in uploads',
                      d.id = e.id, d.phase \in Terminal
               PROVE  e.phase = d.phase /\ e.message = d.message
    OBVIOUS
  <2>1. \A f \in uploads : f.id = d.id => f = d
    BY <1>1 DEF IInv, UploadsInv
  <2>2. CASE NothingAdded
    BY <2>1, <2>2 DEF NothingAdded
  <2>3. CASE OneChanged
    BY <2>1, <2>3 DEF OneChanged, SameObject, OutcomeKept
  <2>4. CASE OneCreated
    <3>1. d.id \in Nat /\ d.id < nextId /\ nextId \in Nat
      BY <1>1 DEF IInv, UploadsInv, TypeOK, Uploads
    <3> QED
      BY <2>1, <2>4, <3>1 DEF OneCreated
  <2> QED
    BY <1>1, <2>2, <2>3, <2>4, NextUploads DEF UploadsStep
<1>2. IInv /\ [Next]_vars => [Kept]_vars
  BY <1>1
<1> QED
  BY <1>2, Invariance, PTL DEF Spec, FinalPhaseStays

\* Cancel stops no neighbour: while the upload of the operation exists, the flag
\* is set on that upload, though Cancel addresses it by a name it read earlier
\* and the object may have been replaced since.
THEOREM CancelIsAimed == Spec => CancelHitsOwnUpload
<1> DEFINE Aimed == \A i \in Items : patchDataUploadCancel(i) =>
                       \A d \in uploads, e \in uploads' :
                           (d.id = e.id /\ ~d.cancel /\ e.cancel /\ Own(i) # {})
                               => d \in Own(i)
<1>1. ASSUME IInv PROVE Aimed
  <2> SUFFICES ASSUME NEW i \in Items, patchDataUploadCancel(i),
                      NEW d \in uploads, NEW e \in uploads',
                      d.id = e.id, ~d.cancel, e.cancel, Own(i) # {}
               PROVE  d \in Own(i)
    OBVIOUS
  <2> DEFINE targets == UNION {Named(f.name) : f \in cancels[i].found}
  <2>1. PICK o \in Own(i) : TRUE
    OBVIOUS
  <2>2. o \in uploads /\ o.name.vm = i[2]
    <3>1. o \in uploads /\ o.id = ops[i].id /\ ops[i].status # "none"
      BY <2>1 DEF Own, WithId
    <3>2. Trackable(o, i[1], i[2], ops[i].opID)
      BY <1>1, <3>1 DEF IInv, OpsInv, OpInv, Bound
    <3> QED
      BY <3>1, <3>2 DEF Trackable, generateDataUploadName
  <2>3. \A f \in uploads : f.id = d.id => f = d
    BY <1>1 DEF IInv, UploadsInv
  <2>4. CASE uploads' = uploads
    BY <2>3, <2>4
  <2>5. CASE ApplyPatch(i, targets)
    <3>1. PICK t \in targets : Replace(t, PatchedCancel(i, t))
      BY <2>5 DEF ApplyPatch
    <3>2. PICK f \in cancels[i].found : t \in uploads /\ t.name = f.name
      BY <3>1 DEF Named
    <3>3. t = d
      <4>1. PatchedCancel(i, t).id = t.id
        BY <1>1, <3>2 DEF IInv, TypeOK, Uploads, PatchedCancel
      <4>2. e = PatchedCancel(i, t)
        BY <2>3, <3>1 DEF Replace
      <4> QED
        BY <2>3, <3>2, <4>1, <4>2
    <3>4. d.name.vm = i[2]
      BY <1>1, <3>2, <3>3 DEF IInv, CancelsInv, patchDataUploadCancel
    <3>5. d.name \in Names /\ o.name \in Names
      BY <1>1, <2>2 DEF IInv, TypeOK, Uploads
    <3>6. d.name = o.name
      BY <2>2, <3>4, <3>5 DEF Names
    <3> QED
      BY <1>1, <2>1, <2>2, <3>6 DEF IInv, UploadsInv
  <2> QED
    BY <2>4, <2>5 DEF patchDataUploadCancel
<1>2. IInv /\ [Next]_vars => [Aimed]_vars
  BY <1>1
<1> QED
  BY <1>2, Invariance, PTL DEF Spec, CancelHitsOwnUpload

-------------------------------------------------------------------------------
(* Cancel persists.                                                            *)

\* What Cancel has found is one object; its attempts and its time went to
\* requests that failed.
PatchInv(i) ==
    /\ cancels[i].pc = "patch" => \E n : cancels[i].found = {n}
    /\ cancels[i].tries <= faults["patch"] + faults["hang"]
    /\ cancels[i].spent <= faults["hang"] * CallTimeout

\* A step in which no attempt of the call fails.
NothingSpent(i) ==
    /\ \/ /\ cancels'[i].tries = cancels[i].tries
          /\ cancels'[i].spent = cancels[i].spent
       \/ cancels'[i].tries = 0 /\ cancels'[i].spent = 0
    /\ cancels'[i].pc = "patch" => \/ cancels'[i] = cancels[i]
                                   \/ \E n : cancels'[i].found = {n}

LEMMA MoreHangs ==
    ASSUME NEW m \in Nat, NEW n \in Nat, m <= n
    PROVE  /\ m * CallTimeout \in Nat
           /\ m * CallTimeout <= n * CallTimeout
           /\ (m + 1) * CallTimeout = m * CallTimeout + CallTimeout
<1>1. CallTimeout \in Nat
  BY BoundsAssumption
<1>2. PICK k \in Nat : n = m + k
  <2>1. n - m \in Nat /\ n = m + (n - m)
    OBVIOUS
  <2> QED
    BY <2>1
<1>3. n * CallTimeout = m * CallTimeout + k * CallTimeout
  BY <1>1, <1>2
<1>4. k * CallTimeout \in Nat /\ m * CallTimeout \in Nat
  BY <1>1
<1> QED
  BY <1>1, <1>3, <1>4

LEMMA FaultsGrow ==
    ASSUME IInv, [Next]_vars
    PROVE  \A k \in FaultKinds :
               faults[k] \in Nat /\ faults'[k] \in Nat /\ faults[k] <= faults'[k]
<1>0. faults \in [FaultKinds -> Nat]
  BY DEF IInv, TypeOK
<1>1. \/ UNCHANGED faults
      \/ \E k \in FaultKinds : Spend(k)
  <2>1. CASE ExecuteSteps
    BY <2>1, ExecuteTypes DEF budget
  <2>2. CASE OperationSteps
    BY <2>2, OperationTypes DEF budget
  <2>3. CASE EnvironmentSteps
    BY <2>3
    DEF EnvironmentSteps, Abandon, Crash, DeleteBackup, RecreateBackup,
        ForeignCreate, GarbageCollect, ForeignDelete, ForeignCancel,
        ControllerWorks, ControllerCancels, Meddle, budget
  <2>4. CASE UNCHANGED vars
    BY <2>4 DEF vars, budget
  <2> QED
    BY <2>1, <2>2, <2>3, <2>4 DEF Next
<1> QED
  BY <1>0, <1>1 DEF Spend

LEMMA PatchStays ==
    ASSUME IInv, [Next]_vars, NEW i \in Items, PatchInv(i), NothingSpent(i)
    PROVE  PatchInv(i)'
<1>1. /\ faults["hang"] \in Nat /\ faults'["hang"] \in Nat
      /\ faults["hang"] <= faults'["hang"]
      /\ faults["patch"] \in Nat /\ faults'["patch"] \in Nat
      /\ faults["patch"] <= faults'["patch"]
  BY FaultsGrow DEF FaultKinds
<1>2. /\ faults["hang"] * CallTimeout <= faults'["hang"] * CallTimeout
      /\ faults["hang"] * CallTimeout \in Nat
      /\ faults'["hang"] * CallTimeout \in Nat
  BY <1>1, MoreHangs
<1>3. cancels[i].tries \in Nat /\ cancels[i].spent \in Nat
  BY BoundsAssumption DEF IInv, TypeOK, CancelStates
<1>4. cancels'[i].tries <= faults'["patch"] + faults'["hang"]
  BY <1>1, <1>3 DEF PatchInv, NothingSpent
<1>5. cancels'[i].spent <= faults'["hang"] * CallTimeout
  BY <1>2, <1>3 DEF PatchInv, NothingSpent
<1>6. cancels'[i].pc = "patch" => \E n : cancels'[i].found = {n}
  BY DEF PatchInv, NothingSpent
<1> QED
  BY <1>4, <1>5, <1>6 DEF PatchInv

\* An attempt that fails, in which h requests hang.
LEMMA AttemptStep ==
    ASSUME IInv, NEW i \in Items, PatchInv(i), cancels[i].pc = "patch",
           \/ AttemptFails(i, 0) /\ Spend("patch")
           \/ AttemptFails(i, CallTimeout) /\ Spend("hang")
    PROVE  /\ PatchInv(i)'
           /\ CancelReturns(i) => faults'["patch"] + faults'["hang"] >= PatchSteps
<1>0. /\ cancels \in [Items -> CancelStates] /\ faults \in [FaultKinds -> Nat]
      /\ cancels[i].tries \in Nat /\ cancels[i].spent \in Nat
      /\ CallTimeout \in Nat /\ PatchSteps \in Nat
  BY BoundsAssumption DEF IInv, TypeOK, CancelStates
<1>1. /\ faults["patch"] \in Nat /\ faults["hang"] \in Nat
      /\ faults'["patch"] + faults'["hang"] = faults["patch"] + faults["hang"] + 1
      /\ \/ faults'["hang"] = faults["hang"] /\ AttemptFails(i, 0)
         \/ faults'["hang"] = faults["hang"] + 1 /\ AttemptFails(i, CallTimeout)
  <2>1. CASE AttemptFails(i, 0) /\ Spend("patch")
    BY <1>0, <2>1 DEF Spend, FaultKinds
  <2>2. CASE AttemptFails(i, CallTimeout) /\ Spend("hang")
    BY <1>0, <2>2 DEF Spend, FaultKinds
  <2> QED
    BY <2>1, <2>2
<1>2. cancels[i].tries + 1 <= faults'["patch"] + faults'["hang"]
  BY <1>0, <1>1 DEF PatchInv
<1>3. CASE cancels[i].tries + 1 >= PatchSteps
  <2>1. CancelReturns(i)
    BY <1>0, <1>1, <1>3 DEF AttemptFails
  <2>2. /\ cancels'[i].pc = "done"
        /\ cancels'[i].tries = 0 /\ cancels'[i].spent = 0
    BY <1>0, <2>1 DEF CancelReturns, NoCancel
  <2>3. /\ faults'["patch"] + faults'["hang"] \in Nat
        /\ faults'["hang"] \in Nat
    BY <1>1
  <2>4. faults'["hang"] * CallTimeout \in Nat
    BY <2>3, MoreHangs
  <2> QED
    BY <1>0, <1>2, <1>3, <2>2, <2>3, <2>4 DEF PatchInv
<1>4. CASE cancels[i].tries + 1 < PatchSteps
  <2>1. /\ cancels'[i].pc = "patch" /\ cancels'[i].found = cancels[i].found
        /\ cancels'[i].tries = cancels[i].tries + 1
        /\ \/ /\ faults'["hang"] = faults["hang"]
              /\ cancels'[i].spent = cancels[i].spent
           \/ /\ faults'["hang"] = faults["hang"] + 1
              /\ cancels'[i].spent = cancels[i].spent + CallTimeout
    <3>1. ASSUME NEW cost \in {0, CallTimeout}, AttemptFails(i, cost)
          PROVE  /\ cancels'[i].pc = "patch"
                 /\ cancels'[i].found = cancels[i].found
                 /\ cancels'[i].tries = cancels[i].tries + 1
                 /\ cancels'[i].spent = cancels[i].spent + cost
      BY <1>0, <1>4, <3>1 DEF AttemptFails, CancelStates
    <3>2. cancels[i].spent + 0 = cancels[i].spent
      BY <1>0
    <3> QED
      BY <1>1, <3>1, <3>2
  <2>2. /\ (faults["hang"] + 1) * CallTimeout
               = faults["hang"] * CallTimeout + CallTimeout
        /\ faults["hang"] * CallTimeout \in Nat
    BY <1>1, MoreHangs
  <2>3. cancels'[i].spent <= faults'["hang"] * CallTimeout
    BY <1>0, <2>1, <2>2 DEF PatchInv
  <2>4. ~CancelReturns(i)
    BY <1>0, <2>1 DEF CancelReturns, NoCancel
  <2> QED
    BY <1>2, <2>1, <2>3, <2>4 DEF PatchInv
<1> QED
  BY <1>0, <1>3, <1>4

LEMMA CancelsFrame ==
    ASSUME IInv, [Next]_vars, NEW j \in Items,
           ~CancelLookup(j), ~patchDataUploadCancel(j)
    PROVE  /\ NothingSpent(j)
           /\ cancels[j].pc = "patch" => cancels'[j].pc # "done"
<1>0. cancels \in [Items -> CancelStates]
  BY DEF IInv, TypeOK
<1>1. CASE cancels'[j] = cancels[j]
  BY <1>1 DEF NothingSpent
<1>2. CASE ExecuteSteps
  BY <1>1, <1>2
  DEF ExecuteSteps, Execute, createDataUploadResource, getDataUploadByName,
      Return
<1>3. CASE OperationSteps
  <2>1. ASSUME NEW i \in Items, Progress(i)
        PROVE  cancels'[j] = cancels[j]
    BY <2>1 DEF Progress
  <2>2. ASSUME NEW i \in Items, Timeout(i)
        PROVE  \/ cancels'[j] = cancels[j]
               \/ /\ NothingSpent(j) /\ cancels[j].pc = "idle"
    BY <1>0, <2>2 DEF Timeout, Polled, CancelStates, NothingSpent
  <2>3. ASSUME NEW i \in Items, CancelSteps(i)
        PROVE  cancels'[j] = cancels[j]
    <3>1. i # j
      BY <2>3 DEF CancelSteps
    <3> QED
      BY <1>0, <2>3, <3>1
      DEF CancelSteps, CancelLookup, patchDataUploadCancel, CancelReturns,
          AttemptFails
  <2> QED
    BY <1>1, <1>3, <2>1, <2>2, <2>3 DEF OperationSteps, CancelSteps
<1>4. CASE EnvironmentSteps
  <2>1. CASE Crash
    BY <1>0, <2>1 DEF Crash, NoCancel, NothingSpent
  <2> QED
    BY <1>1, <1>4, <2>1
    DEF EnvironmentSteps, Abandon, DeleteBackup, RecreateBackup,
        ForeignCreate, GarbageCollect, ForeignDelete, ForeignCancel,
        ControllerWorks, ControllerCancels, velero
<1>5. CASE UNCHANGED vars
  BY <1>1, <1>5 DEF vars, velero
<1> QED
  BY <1>2, <1>3, <1>4, <1>5 DEF Next

LEMMA PatchInvStep ==
    ASSUME IInv, [Next]_vars, NEW i \in Items, PatchInv(i)
    PROVE  PatchInv(i)'
<1>0. cancels \in [Items -> CancelStates]
  BY DEF IInv, TypeOK
<1>1. CASE CancelReturns(i)
  BY <1>0, <1>1, PatchStays DEF CancelReturns, NoCancel, NothingSpent
<1>2. CASE CancelLookup(i)
  <2>1. ASSUME NEW n,
               cancels' = [cancels EXCEPT ![i] =
                   [@ EXCEPT !.pc = "patch", !.found = {n}]]
        PROVE  NothingSpent(i)
    BY <1>0, <2>1 DEF CancelStates, NothingSpent
  <2> QED
    BY <1>1, <1>2, <2>1, PatchStays DEF CancelLookup
<1>3. CASE patchDataUploadCancel(i)
  BY <1>1, <1>3, AttemptStep DEF patchDataUploadCancel
<1> QED
  BY <1>2, <1>3, CancelsFrame, PatchStays

\* Cancel gives up an upload it has found only when its attempts or its time
\* are used up by requests that failed (patchDataUploadCancel), for any number
\* of operations, and third parties that delete and create what it looks for.
THEOREM CancelKeepsTrying == Spec => CancelIsPersistent
<1> DEFINE Inv  == \A i \in Items : PatchInv(i)
           Ends == \A i \in Items :
                      cancels[i].pc = "patch" /\ cancels'[i].pc = "done" =>
                         \/ \A f \in cancels[i].found, d \in uploads' :
                               d.name = f.name => d.cancel
                         \/ faults'["patch"] + faults'["hang"] >= PatchSteps
                         \/ faults'["hang"] * CallTimeout >= TotalTimeout
<1>1. Init => Inv
  <2> SUFFICES ASSUME Init, NEW i \in Items PROVE PatchInv(i)
    OBVIOUS
  <2>1. /\ cancels[i] = NoCancel
        /\ faults["patch"] = 0 /\ faults["hang"] = 0
    BY DEF Init, FaultKinds
  <2>2. 0 * CallTimeout \in Nat
    BY MoreHangs
  <2> QED
    BY <2>1, <2>2 DEF PatchInv, NoCancel
<1>2. IInv /\ Inv /\ [Next]_vars => Inv'
  BY PatchInvStep
<1>3. ASSUME IInv, Inv, [Next]_vars PROVE Ends
  <2> SUFFICES ASSUME NEW i \in Items,
                      cancels[i].pc = "patch", cancels'[i].pc = "done"
               PROVE  \/ \A f \in cancels[i].found, d \in uploads' :
                            d.name = f.name => d.cancel
                      \/ faults'["patch"] + faults'["hang"] >= PatchSteps
                      \/ faults'["hang"] * CallTimeout >= TotalTimeout
    OBVIOUS
  <2>0. cancels \in [Items -> CancelStates] /\ PatchInv(i)
    BY <1>3 DEF IInv, TypeOK
  <2>1. patchDataUploadCancel(i)
    BY <1>3, CancelsFrame DEF CancelLookup
  <2>2. PICK n : cancels[i].found = {n}
    BY <2>0 DEF PatchInv
  <2>3. CASE Named(n.name) = {} /\ UNCHANGED uploads
    BY <2>2, <2>3 DEF Named
  <2>4. ASSUME NEW d \in Named(n.name), Replace(d, PatchedCancel(i, d))
        PROVE  \A e \in uploads' : e.name = n.name => e.cancel
    <3>1. d \in Uploads /\ PatchedCancel(i, d).cancel
      BY <1>3, <2>4 DEF IInv, TypeOK, Named, PatchedCancel, Uploads
    <3>2. \A e \in uploads : e.name = n.name => e = d
      BY <1>3, <2>4 DEF IInv, UploadsInv, Named
    <3> QED
      BY <2>4, <3>1, <3>2 DEF Replace, Named
  <2>5. CASE UNCHANGED budget /\ cancels[i].spent >= TotalTimeout
    <3>1. /\ faults["hang"] \in Nat /\ faults'["hang"] = faults["hang"]
      BY <1>3, <2>5, FaultsGrow DEF FaultKinds, budget
    <3>2. faults["hang"] * CallTimeout \in Nat
      BY <3>1, MoreHangs
    <3>3. cancels[i].spent \in Nat /\ TotalTimeout \in Nat
      BY <2>0, BoundsAssumption DEF CancelStates
    <3> QED
      BY <2>0, <2>5, <3>1, <3>2, <3>3 DEF PatchInv
  <2>6. CASE \/ AttemptFails(i, 0) /\ Spend("patch")
             \/ AttemptFails(i, CallTimeout) /\ Spend("hang")
    <3>1. CancelReturns(i)
      BY <2>0, <2>6 DEF AttemptFails, CancelStates
    <3> QED
      BY <1>3, <2>0, <2>6, <3>1, AttemptStep
  <2>7. UNION {Named(f.name) : f \in cancels[i].found} = Named(n.name)
    BY <2>2
  <2> QED
    BY <2>1, <2>2, <2>3, <2>4, <2>5, <2>6, <2>7
    DEF patchDataUploadCancel, ApplyPatch
<1> QED
  <2>1. IInv /\ Inv /\ [Next]_vars => Ends \/ UNCHANGED vars
    BY <1>3
  <2> QED
    BY <1>1, <1>2, <2>1, Invariance, PTL DEF Spec, CancelIsPersistent

-------------------------------------------------------------------------------
(* VMBackup implements AsyncOperation, for every value of its constants: under *)
(* the mapping of VMBackup's Promise, each step of the plugin, Velero and the  *)
(* cluster is a step of AsyncOperation or leaves its variables alone.          *)

Tasks   == [i \in Items |-> TaskOf(i)]
Reports == [i \in Items |-> ReportOf(i)]

-------------------------------------------------------------------------------
(* Velero listens to one call per item, and only before it has an operation.   *)

Listening(c) == calls[c].pc # "idle" /\ ~calls[c].abandoned

ListenInv ==
    /\ \A c \in Calls :
          Listening(c) => ops[<<calls[c].uid, calls[c].vm>>].status = "none"
    /\ \A c, e \in Calls :
          (/\ Listening(c) /\ Listening(e)
           /\ calls[c].uid = calls[e].uid /\ calls[c].vm = calls[e].vm)
              => c = e

LEMMA InitListens == Init => ListenInv
<1>1. NoCall.pc = "idle"
  BY DEF NoCall
<1> QED
  BY <1>1 DEF Init, ListenInv, Listening

\* Calls that go on, or end, while no operation they lead to is registered.
LEMMA ListenFrame ==
    ASSUME ListenInv,
           \A c \in Calls : Listening(c)' =>
               /\ Listening(c)
               /\ calls'[c].uid = calls[c].uid /\ calls'[c].vm = calls[c].vm
               /\ ops[<<calls[c].uid, calls[c].vm>>].status = "none" =>
                     ops'[<<calls[c].uid, calls[c].vm>>].status = "none"
    PROVE  ListenInv'
<1>1. ASSUME NEW c \in Calls, Listening(c)'
      PROVE  ops'[<<calls'[c].uid, calls'[c].vm>>].status = "none"
  BY <1>1 DEF ListenInv
<1>2. ASSUME NEW c \in Calls, NEW e \in Calls, Listening(c)', Listening(e)',
             calls'[c].uid = calls'[e].uid, calls'[c].vm = calls'[e].vm
      PROVE  c = e
  <2>1. /\ Listening(c) /\ Listening(e)
        /\ calls[c].uid = calls[e].uid /\ calls[c].vm = calls[e].vm
    BY <1>2
  <2> QED
    BY <2>1 DEF ListenInv
<1> QED
  BY <1>1, <1>2 DEF ListenInv

LEMMA ExecuteListens ==
    ASSUME IInv, ListenInv, NEW c \in Calls, NEW v \in VMs, NEW p \in PVCs,
           Execute(c, v, p)
    PROVE  ListenInv'
<1>0. calls \in [Calls -> CallStates] /\ ops' = ops
  BY DEF IInv, TypeOK, Execute
<1>1. /\ calls'[c].uid = epoch /\ calls'[c].vm = v
      /\ ops[<<epoch, v>>].status = "none"
      /\ \A e \in Calls \ {c} : calls'[e] = calls[e]
  BY <1>0 DEF Execute
<1>2. \A e \in Calls \ {c} : Listening(e)' =>
          /\ Listening(e) /\ ~(calls[e].uid = epoch /\ calls[e].vm = v)
  BY <1>1 DEF Execute, Listening
<1>3. ASSUME NEW e \in Calls, Listening(e)'
      PROVE  ops'[<<calls'[e].uid, calls'[e].vm>>].status = "none"
  BY <1>0, <1>1, <1>2, <1>3 DEF ListenInv
<1>4. ASSUME NEW d \in Calls, NEW e \in Calls, Listening(d)', Listening(e)',
             calls'[d].uid = calls'[e].uid, calls'[d].vm = calls'[e].vm
      PROVE  d = e
  BY <1>1, <1>2, <1>4 DEF ListenInv
<1> QED
  BY <1>3, <1>4 DEF ListenInv

LEMMA ReturnListens ==
    ASSUME IInv, ListenInv, NEW c \in Calls, Return(c)
    PROVE  ListenInv'
<1>0. calls \in [Calls -> CallStates] /\ ops \in [Items -> OperationStates]
  BY DEF IInv, TypeOK
<1>1. ~Listening(c)' /\ \A e \in Calls \ {c} : calls'[e] = calls[e]
  BY <1>0 DEF Return, Listening, NoCall
<1>2. SUFFICES ASSUME NEW e \in Calls, e # c, Listening(e),
                      ops[<<calls[e].uid, calls[e].vm>>].status = "none"
               PROVE  ops'[<<calls[e].uid, calls[e].vm>>].status = "none"
  BY <1>1, ListenFrame DEF Listening
<1>3. CASE ops' = ops
  BY <1>2, <1>3
<1>4. CASE /\ ~calls[c].abandoned
           /\ ops' = [ops EXCEPT ![<<calls[c].uid, calls[c].vm>>] =
                  [status |-> "InProgress", opID |-> calls[c].opID,
                   id |-> calls[c].id]]
  <2>1. Listening(c)
    BY <1>4 DEF Return, Listening
  <2>2. <<calls[e].uid, calls[e].vm>> # <<calls[c].uid, calls[c].vm>>
    BY <1>2, <2>1 DEF ListenInv
  <2> QED
    BY <1>0, <1>2, <1>4, <2>2
<1> QED
  BY <1>3, <1>4 DEF Return

LEMMA ListenStep ==
    ASSUME IInv, ListenInv, [Next]_vars
    PROVE  ListenInv'
<1>0. calls \in [Calls -> CallStates] /\ ops \in [Items -> OperationStates]
  BY DEF IInv, TypeOK
<1>1. ASSUME UNCHANGED ops, NEW c \in Calls,
             \/ calls' = [calls EXCEPT ![c] = NoCall]
             \/ /\ \A e \in Calls \ {c} : calls'[e] = calls[e]
                /\ calls[c].pc # "idle"
                /\ calls'[c].abandoned = calls[c].abandoned
                /\ calls'[c].uid = calls[c].uid /\ calls'[c].vm = calls[c].vm
      PROVE  ListenInv'
  BY <1>0, <1>1, ListenFrame DEF Listening, NoCall
<1>2. CASE UNCHANGED <<calls, ops>>
  BY <1>2, ListenFrame DEF Listening
<1>3. ASSUME UNCHANGED calls, NEW i \in Items, ops[i].status = "InProgress",
             \A j \in Items \ {i} : ops'[j] = ops[j]
      PROVE  ListenInv'
  <2>1. \A c \in Calls : Listening(c) => <<calls[c].uid, calls[c].vm>> # i
    BY <1>3 DEF ListenInv
  <2>2. \A c \in Calls : Listening(c) => <<calls[c].uid, calls[c].vm>> \in Items
    BY <1>0 DEF IInv, CallsInv, CallInv, Listening, Items, CallStates
  <2> QED
    BY <1>3, <2>1, <2>2, ListenFrame DEF Listening
<1>4. CASE ExecuteSteps
  <2>1. ASSUME NEW c \in Calls, createDataUploadResource(c)
        PROVE  ListenInv'
    <3>1. ops' = ops /\ calls[c].pc # "idle"
      BY <2>1 DEF createDataUploadResource
    <3>2. \/ FailCall(c)
          \/ calls' = [calls EXCEPT ![c] = [@ EXCEPT !.pc = "return", !.id = nextId]]
          \/ calls' = [calls EXCEPT ![c].pc = "get"]
      BY <2>1 DEF createDataUploadResource
    <3>3. CASE FailCall(c)
      BY <1>1, <3>1, <3>3 DEF FailCall
    <3>4. CASE ~FailCall(c)
      <4>1. /\ \A e \in Calls \ {c} : calls'[e] = calls[e]
            /\ calls'[c].abandoned = calls[c].abandoned
            /\ calls'[c].uid = calls[c].uid /\ calls'[c].vm = calls[c].vm
        BY <1>0, <3>2, <3>4 DEF CallStates
      <4> QED
        BY <1>1, <3>1, <4>1
    <3> QED
      BY <3>3, <3>4
  <2>2. ASSUME NEW c \in Calls, getDataUploadByName(c)
        PROVE  ListenInv'
    <3>1. ops' = ops /\ calls[c].pc # "idle"
      BY <2>2 DEF getDataUploadByName
    <3>2. \/ FailCall(c)
          \/ calls' = [calls EXCEPT ![c] = [@ EXCEPT !.pc = "create",
                                            !.attempt = calls[c].attempt + 1]]
          \/ \E d \in uploads : calls' = [calls EXCEPT ![c] =
                 [@ EXCEPT !.pc = "return", !.id = d.id, !.opID = d.opID]]
      BY <2>2 DEF getDataUploadByName, Named
    <3>3. CASE FailCall(c)
      BY <1>1, <3>1, <3>3 DEF FailCall
    <3>4. CASE ~FailCall(c)
      <4>1. /\ \A e \in Calls \ {c} : calls'[e] = calls[e]
            /\ calls'[c].abandoned = calls[c].abandoned
            /\ calls'[c].uid = calls[c].uid /\ calls'[c].vm = calls[c].vm
        BY <1>0, <3>2, <3>4 DEF CallStates
      <4> QED
        BY <1>1, <3>1, <4>1
    <3> QED
      BY <3>3, <3>4
  <2> QED
    BY <1>4, <2>1, <2>2, ExecuteListens, ReturnListens DEF ExecuteSteps
<1>5. CASE OperationSteps
  <2>1. UNCHANGED calls
    BY <1>5 DEF OperationSteps, Progress, Timeout, CancelLookup,
                patchDataUploadCancel
  <2>2. ASSUME NEW i \in Items, Progress(i)
        PROVE  ListenInv'
    BY <1>0, <1>3, <2>1, <2>2 DEF Progress, Polled
  <2>3. ASSUME NEW i \in Items, CancelLookup(i) \/ patchDataUploadCancel(i)
        PROVE  ListenInv'
    <3>1. ops[i].status = "InProgress"
      BY <2>3 DEF IInv, CancelsInv, CancelLookup, patchDataUploadCancel
    <3>2. CASE CancelReturns(i)
      BY <1>0, <1>3, <2>1, <3>1, <3>2 DEF CancelReturns
    <3>3. CASE UNCHANGED ops
      BY <1>2, <2>1, <3>3
    <3> QED
      BY <2>3, <3>2, <3>3 DEF CancelLookup, patchDataUploadCancel, AttemptFails
  <2>4. CASE \E i \in Items : Timeout(i)
    BY <1>2, <2>4 DEF Timeout
  <2> QED
    BY <1>5, <2>2, <2>3, <2>4 DEF OperationSteps
<1>6. CASE EnvironmentSteps
  <2>1. ASSUME NEW c \in Calls, Abandon(c)
        PROVE  ListenInv'
    <3>1. ops' = ops /\ ~Listening(c)'
          /\ \A e \in Calls \ {c} : calls'[e] = calls[e]
      BY <1>0, <2>1 DEF Abandon, Listening, CallStates
    <3> QED
      BY <3>1, ListenFrame DEF Listening
  <2>2. CASE Crash
    BY <2>2, ListenFrame DEF Crash, Listening, NoCall
  <2>3. CASE UNCHANGED velero
    BY <1>2, <2>3 DEF velero
  <2> QED
    BY <1>6, <2>1, <2>2, <2>3
    DEF EnvironmentSteps, DeleteBackup, RecreateBackup, ForeignCreate,
        GarbageCollect, ForeignDelete, ForeignCancel, ControllerWorks,
        ControllerCancels
<1>7. CASE UNCHANGED vars
  BY <1>2, <1>7 DEF vars, velero
<1> QED
  BY <1>4, <1>5, <1>6, <1>7 DEF Next

-------------------------------------------------------------------------------
(* The tasks: uploads seen through the operations that own them.               *)

\* An operation's upload, while it exists, belongs to no other operation.
LEMMA OwnIsMine ==
    ASSUME IInv, NEW i \in Items, NEW d \in Own(i)
    PROVE  /\ d \in uploads /\ d.id = ops[i].id /\ ops[i].status # "none"
           /\ Own(i) = {d}
           /\ i = <<d.owner, d.vm>>
<1>1. d \in uploads /\ d.id = ops[i].id /\ ops[i].status # "none"
  BY DEF Own, WithId
<1>2. Own(i) = {d}
  BY <1>1 DEF Own, WithId, IInv, UploadsInv
<1>3. Trackable(d, i[1], i[2], ops[i].opID)
  BY <1>1 DEF IInv, OpsInv, OpInv, Bound
<1> QED
  BY <1>1, <1>2, <1>3 DEF Trackable, Items

LEMMA AnItem == \E i \in Items : TRUE
<1>1. 1 \in UIDs
  BY BoundsAssumption DEF UIDs
<1>2. PICK v \in VMs : TRUE
  BY SetsAssumption
<1>3. <<1, v>> \in Items
  BY <1>1 DEF Items
<1> QED
  BY <1>3

\* How one step may move a task.
Moves(t, u) ==
    \/ u = t
    \/ t = "running" /\ u \in {"succeeded", "failed"}
    \/ t # "absent" /\ u = "lost"

SameOperations ==
    \A i \in Items : /\ ops'[i].id = ops[i].id
                     /\ ops'[i].status = "none" <=> ops[i].status = "none"

LEMMA TaskOfNone ==
    ASSUME NEW i \in Items, Own(i) = {}
    PROVE  TaskOf(i) = IF ops[i].status = "none" THEN "absent" ELSE "lost"
  BY DEF TaskOf

LEMMA TaskOfOne ==
    ASSUME NEW i \in Items, NEW d, Own(i) = {d}
    PROVE  TaskOf(i) = IF d.phase = "Completed" THEN "succeeded"
                       ELSE IF d.phase \in Terminal THEN "failed"
                       ELSE "running"
<1>1. ops[i].status # "none" /\ Own(i) # {}
  BY DEF Own
<1> QED
  BY <1>1 DEF TaskOf

LEMMA OwnNext ==
    ASSUME SameOperations
    PROVE  \A i \in Items :
              /\ Own(i)' = IF ops[i].status = "none" THEN {}
                           ELSE {d \in uploads' : d.id = ops[i].id}
              /\ Own(i)' = Own(i) => TaskOf(i)' = TaskOf(i)
<1>1. \A i \in Items : Own(i)' = IF ops[i].status = "none" THEN {}
                                 ELSE {d \in uploads' : d.id = ops[i].id}
  BY DEF SameOperations, Own, WithId
<1>2. \A i \in Items : Own(i)' = Own(i) => TaskOf(i)' = TaskOf(i)
  BY DEF TaskOf, SameOperations
<1> QED
  BY <1>1, <1>2

\* While no operation starts, a step moves at most one task.
LEMMA OneTaskMoves ==
    ASSUME IInv, UploadsStep, SameOperations
    PROVE  \E j \in Items : /\ Moves(TaskOf(j), TaskOf(j)')
                            /\ \A i \in Items \ {j} : TaskOf(i)' = TaskOf(i)
<1> DEFINE Goal == \E j \in Items :
                      /\ Moves(TaskOf(j), TaskOf(j)')
                      /\ \A i \in Items \ {j} : TaskOf(i)' = TaskOf(i)
<1>1. \A i \in Items :
          Own(i)' = IF ops[i].status = "none" THEN {}
                    ELSE {d \in uploads' : d.id = ops[i].id}
  BY OwnNext
<1>2. \A i \in Items : Own(i)' = Own(i) => TaskOf(i)' = TaskOf(i)
  BY OwnNext
<1>3. ASSUME \A i \in Items : Own(i)' = Own(i)
      PROVE  Goal
  BY <1>2, <1>3, AnItem DEF Moves
<1>4. ASSUME NEW d \in uploads,
             \A i \in Items : d \notin Own(i) => Own(i)' = Own(i),
             \A i \in Items : d \in Own(i) => Moves(TaskOf(i), TaskOf(i)')
      PROVE  Goal
  <2>1. CASE \E j \in Items : d \in Own(j)
    <3>1. PICK j \in Items : d \in Own(j)
      BY <2>1
    <3>2. \A i \in Items \ {j} : d \notin Own(i)
      BY <3>1, OwnIsMine
    <3> QED
      BY <1>2, <1>4, <3>1, <3>2
  <2> QED
    BY <1>3, <1>4, <2>1
<1>5. CASE NothingAdded
  <2>1. CASE uploads' = uploads
    BY <1>1, <1>3, <2>1 DEF Own, WithId
  <2>2. ASSUME NEW d \in uploads, uploads' = uploads \ {d}
        PROVE  Goal
    <3>1. \A i \in Items : d \notin Own(i) => Own(i)' = Own(i)
      BY <1>1, <2>2 DEF Own, WithId
    <3>2. ASSUME NEW i \in Items, d \in Own(i)
          PROVE  Moves(TaskOf(i), TaskOf(i)')
      <4>1. Own(i) = {d} /\ ops[i].status # "none"
        BY <3>2, OwnIsMine
      <4>2. Own(i)' = {} /\ ops'[i].status # "none"
        BY <1>1, <2>2, <4>1 DEF Own, WithId, SameOperations
      <4>3. TaskOf(i)' = "lost" /\ TaskOf(i) # "absent"
        BY <4>1, <4>2 DEF TaskOf
      <4> QED
        BY <4>3 DEF Moves
    <3> QED
      BY <1>4, <3>1, <3>2
  <2> QED
    BY <1>5, <2>1, <2>2 DEF NothingAdded
<1>6. CASE OneChanged
  <2>1. PICK d \in uploads, e \in Uploads :
            /\ SameObject(d, e) /\ OutcomeKept(d, e)
            /\ uploads' = (uploads \ {d}) \cup {e}
    BY <1>6 DEF OneChanged
  <2>2. \A i \in Items : d \notin Own(i) => Own(i)' = Own(i)
    BY <1>1, <2>1 DEF Own, WithId, SameObject
  <2>3. ASSUME NEW i \in Items, d \in Own(i)
        PROVE  Moves(TaskOf(i), TaskOf(i)')
    <3>1. Own(i) = {d} /\ ops[i].status # "none"
      BY <2>3, OwnIsMine
    <3>2. Own(i)' = {e} /\ ops'[i].status # "none"
      BY <1>1, <2>1, <3>1 DEF Own, WithId, SameObject, SameOperations
    <3>3. TaskOf(i)' = IF e.phase = "Completed" THEN "succeeded"
                       ELSE IF e.phase \in Terminal THEN "failed"
                       ELSE "running"
      BY <3>2 DEF TaskOf
    <3>4. TaskOf(i) = IF d.phase = "Completed" THEN "succeeded"
                      ELSE IF d.phase \in Terminal THEN "failed"
                      ELSE "running"
      BY <3>1, TaskOfOne
    <3> QED
      BY <2>1, <3>3, <3>4 DEF Moves, OutcomeKept, Terminal
  <2> QED
    BY <1>4, <2>1, <2>2, <2>3
<1>7. CASE OneCreated
  <2>1. PICK e \in Uploads : e.id = nextId /\ uploads' = uploads \cup {e}
    BY <1>7 DEF OneCreated
  <2>2. \A i \in Items : ops[i].status # "none" => ops[i].id < nextId
    BY DEF IInv, OpsInv, OpInv, Bound
  <2>3. nextId \in Nat /\ \A i \in Items : ops[i].id \in Nat
    BY DEF IInv, TypeOK, OperationStates
  <2>4. \A i \in Items : ops[i].status # "none" => ops[i].id # nextId
    BY <2>2, <2>3
  <2>5. \A i \in Items : Own(i)' = Own(i)
    BY <1>1, <2>1, <2>4 DEF Own, WithId
  <2> QED
    BY <1>3, <2>5
<1> QED
  BY <1>5, <1>6, <1>7 DEF UploadsStep

-------------------------------------------------------------------------------
(* Every step is a step of the promise.                                        *)

LEMMA StatusKnown ==
    ASSUME TypeOK, NEW i \in Items
    PROVE  ops[i].status \in {"none", "InProgress", "Completed", "Failed"}
  BY DEF TypeOK, OperationStates

\* A step that reports nothing moves at most one task.
LEMMA SilentStep ==
    ASSUME IInv, UploadsStep, UNCHANGED ops
    PROVE  [Promise!Next]_<<Tasks, Reports>>
<1>1. Reports' = Reports
  BY DEF Reports, ReportOf
<1>2. PICK j \in Items : /\ Moves(TaskOf(j), TaskOf(j)')
                         /\ \A i \in Items \ {j} : TaskOf(i)' = TaskOf(i)
  BY OneTaskMoves DEF SameOperations
<1>3. Tasks' = [Tasks EXCEPT ![j] = TaskOf(j)']
  BY <1>2 DEF Tasks
<1>4. Tasks[j] = TaskOf(j) /\ Reports[j] = ReportOf(j)
  BY DEF Tasks, Reports
<1>5. CASE TaskOf(j)' = TaskOf(j)
  BY <1>1, <1>3, <1>4, <1>5 DEF Tasks
<1>6. CASE TaskOf(j) = "running" /\ TaskOf(j)' \in {"succeeded", "failed"}
  <2>1. Promise!TaskEnds(j)
    BY <1>1, <1>3, <1>4, <1>6 DEF Promise!TaskEnds, Promise!Finished, Tasks, Reports
  <2> QED
    BY <2>1 DEF Promise!Next
<1>7. CASE TaskOf(j) # "absent" /\ TaskOf(j)' = "lost"
  <2>1. ops[j].status # "none"
    BY <1>7 DEF TaskOf
  <2>2. ReportOf(j) # "none"
    BY <2>1, StatusKnown DEF ReportOf, IInv
  <2>3. Promise!TaskIsLost(j)
    BY <1>1, <1>3, <1>4, <1>7, <2>2 DEF Promise!TaskIsLost, Tasks, Reports
  <2> QED
    BY <2>3 DEF Promise!Next
<1> QED
  BY <1>2, <1>5, <1>6, <1>7 DEF Moves

\* The report of operation i becomes the one of status st; no task moves.
LEMMA ReportStep ==
    ASSUME IInv, NEW i \in Items, ops[i].status = "InProgress",
           NEW st \in {"InProgress", "Completed", "Failed"},
           ops' = [ops EXCEPT ![i].status = st],
           \A j \in Items : TaskOf(j)' = TaskOf(j),
           st = "Completed" => TaskOf(i) \in {"succeeded", "lost"}
    PROVE  [Promise!Next]_<<Tasks, Reports>>
<1>0. ops \in [Items -> OperationStates]
  BY DEF IInv, TypeOK
<1>1. Tasks' = Tasks
  BY DEF Tasks
<1>2. /\ \A j \in Items \ {i} : ReportOf(j)' = ReportOf(j)
      /\ ReportOf(i) = "pending"
      /\ ReportOf(i)' = CASE st = "InProgress" -> "pending"
                          [] st = "Completed"  -> "success"
                          [] st = "Failed"     -> "failure"
  BY <1>0 DEF ReportOf, OperationStates
<1>3. Reports' = [Reports EXCEPT ![i] = ReportOf(i)']
  BY <1>2 DEF Reports
<1>4. Reports[i] = "pending" /\ Tasks[i] = TaskOf(i)
  BY <1>2 DEF Reports, Tasks
<1>5. CASE st = "InProgress"
  BY <1>1, <1>2, <1>3, <1>4, <1>5 DEF Reports
<1>6. CASE st = "Completed"
  <2>1. Promise!ReportSuccess(i)
    BY <1>1, <1>2, <1>3, <1>4, <1>6 DEF Promise!ReportSuccess, Tasks, Reports
  <2> QED
    BY <2>1 DEF Promise!Next
<1>7. CASE st = "Failed"
  <2>1. Promise!ReportFailure(i)
    BY <1>1, <1>2, <1>3, <1>4, <1>7 DEF Promise!ReportFailure, Tasks, Reports
  <2> QED
    BY <2>1 DEF Promise!Next
<1> QED
  BY <1>5, <1>6, <1>7

LEMMA TasksStay ==
    ASSUME NEW i \in Items, uploads' = uploads, ops[i].status # "none",
           NEW st, st # "none", ops \in [Items -> OperationStates],
           ops' = [ops EXCEPT ![i].status = st]
    PROVE  \A j \in Items : TaskOf(j)' = TaskOf(j)
<1>1. \A j \in Items : ops'[j].id = ops[j].id
                        /\ (ops'[j].status = "none" <=> ops[j].status = "none")
  BY DEF OperationStates
<1>2. \A j \in Items : Own(j)' = Own(j)
  BY <1>1 DEF Own, WithId
<1> QED
  BY <1>1, <1>2 DEF TaskOf

\* A failed upload tells why, so Progress reports it as a failure.
LEMMA ProgressStep ==
    ASSUME IInv, EmptyFailure = FALSE, NEW i \in Items, Progress(i)
    PROVE  [Promise!Next]_<<Tasks, Reports>>
<1>0. /\ ops \in [Items -> OperationStates] /\ uploads' = uploads
      /\ ops[i].status = "InProgress"
  BY DEF IInv, TypeOK, Progress, Polled, cluster
<1>1. CASE ops' = [ops EXCEPT ![i].status = "Failed"]
  BY <1>0, <1>1, TasksStay, ReportStep
<1>2. ASSUME NEW d \in WithOperationID(ops[i].opID),
             ops' = [ops EXCEPT ![i].status = ProgressOf(d)]
      PROVE  [Promise!Next]_<<Tasks, Reports>>
  <2>1. d \in uploads /\ d.opID = ops[i].opID /\ d \in Uploads
    BY <1>2 DEF WithOperationID, IInv, TypeOK
  <2>2. ProgressOf(d) \in {"InProgress", "Completed", "Failed"}
    BY <2>1 DEF ProgressOf, Uploads, Terminal
  <2>3. ASSUME ProgressOf(d) = "Completed"
        PROVE  TaskOf(i) \in {"succeeded", "lost"}
    <3>1. d.phase = "Completed"
      BY <2>1, <2>3 DEF ProgressOf, Uploads, Terminal, Running, IInv, UploadsInv
    <3>2. CASE Own(i) = {}
      BY <1>0, <3>2 DEF TaskOf
    <3>3. ASSUME NEW o \in Own(i)
          PROVE  o = d
      <4>1. o \in uploads /\ Trackable(o, i[1], i[2], ops[i].opID)
        BY <3>3 DEF IInv, OpsInv, OpInv, Bound, Own, WithId
      <4>2. o.name.vm = d.name.vm
        BY <2>1, <4>1 DEF IInv, UploadsInv, Trackable
      <4>3. o.name \in Names /\ d.name \in Names
        BY <2>1, <4>1 DEF IInv, TypeOK, Uploads
      <4>4. o.name = d.name
        BY <4>2, <4>3 DEF Names
      <4> QED
        BY <2>1, <4>1, <4>4 DEF IInv, UploadsInv
    <3>4. CASE Own(i) # {}
      BY <1>0, <3>1, <3>3, <3>4 DEF TaskOf
    <3> QED
      BY <3>2, <3>4
  <2> QED
    BY <1>0, <1>2, <2>2, <2>3, TasksStay, ReportStep
<1> QED
  BY <1>1, <1>2 DEF Progress

\* A Cancel call that ends fails the operation; its patch moves no task.
LEMMA CancelEnds ==
    ASSUME IInv, NEW i \in Items, ops[i].status = "InProgress",
           CancelReturns(i),
           \/ uploads' = uploads
           \/ \E d \in uploads : Replace(d, PatchedCancel(i, d))
    PROVE  [Promise!Next]_<<Tasks, Reports>>
<1>0. ops \in [Items -> OperationStates]
      /\ ops' = [ops EXCEPT ![i].status = "Failed"]
  BY DEF IInv, TypeOK, CancelReturns
<1>1. CASE uploads' = uploads
  BY <1>0, <1>1, TasksStay, ReportStep
<1>2. ASSUME NEW d \in uploads, Replace(d, PatchedCancel(i, d))
      PROVE  \A j \in Items : TaskOf(j)' = TaskOf(j)
  <2> DEFINE e == PatchedCancel(i, d)
  <2>1. e.id = d.id /\ e.phase = d.phase /\ uploads' = (uploads \ {d}) \cup {e}
    BY <1>2 DEF PatchedCancel, IInv, TypeOK, Uploads, Replace
  <2>2. SameOperations
    BY <1>0 DEF SameOperations, OperationStates
  <2>3. SUFFICES ASSUME NEW j \in Items PROVE TaskOf(j)' = TaskOf(j)
    OBVIOUS
  <2>4. Own(j)' = IF ops[j].status = "none" THEN {}
                  ELSE {f \in uploads' : f.id = ops[j].id}
    BY <2>2, OwnNext
  <2>5. CASE d \in Own(j)
    <3>1. Own(j) = {d} /\ ops[j].status # "none"
      BY <2>5, OwnIsMine
    <3>2. Own(j)' = {e} /\ ops'[j].status # "none"
      BY <2>1, <2>2, <2>4, <3>1 DEF Own, WithId, SameOperations
    <3>3. TaskOf(j)' = IF e.phase = "Completed" THEN "succeeded"
                       ELSE IF e.phase \in Terminal THEN "failed"
                       ELSE "running"
      BY <3>2 DEF TaskOf
    <3> QED
      BY <2>1, <3>1, <3>3, TaskOfOne
  <2>6. CASE d \notin Own(j)
    <3>1. Own(j)' = Own(j)
      BY <2>1, <2>4, <2>6 DEF Own, WithId
    <3> QED
      BY <2>2, <3>1, OwnNext
  <2> QED
    BY <2>5, <2>6
<1>3. CASE \E d \in uploads : Replace(d, PatchedCancel(i, d))
  BY <1>0, <1>2, <1>3, ReportStep
<1> QED
  BY <1>1, <1>3

\* Return starts an operation: nobody else was listened to for it.
LEMMA ReturnStep ==
    ASSUME IInv, ListenInv, NEW c \in Calls, Return(c)
    PROVE  [Promise!Next]_<<Tasks, Reports>>
<1>0. /\ ops \in [Items -> OperationStates] /\ calls \in [Calls -> CallStates]
      /\ uploads' = uploads /\ nextId' = nextId
  BY DEF IInv, TypeOK, Return, cluster
<1>1. CASE ops' = ops
  BY <1>0, <1>1, SilentStep DEF UploadsStep, NothingAdded
<1>2. ASSUME NEW item \in Items, item = <<calls[c].uid, calls[c].vm>>,
             ~calls[c].abandoned,
             ops' = [ops EXCEPT ![item] = [status |-> "InProgress",
                                           opID |-> calls[c].opID,
                                           id |-> calls[c].id]]
      PROVE  [Promise!Next]_<<Tasks, Reports>>
  <2>1. item \in Items
    OBVIOUS
  <2>2. ops[item].status = "none"
    BY <1>2 DEF Return, ListenInv, Listening
  <2>3. \A j \in Items \ {item} : ops'[j] = ops[j]
    BY <1>0, <1>2
  <2>4. \A j \in Items \ {item} : TaskOf(j)' = TaskOf(j) /\ ReportOf(j)' = ReportOf(j)
    BY <1>0, <2>3 DEF TaskOf, ReportOf, Own, WithId
  <2>5. ops'[item].status = "InProgress"
    BY <1>0, <1>2, <2>1
  <2>6. ReportOf(item) = "none" /\ ReportOf(item)' = "pending"
    BY <2>2, <2>5 DEF ReportOf
  <2>7. TaskOf(item)' \in {"running", "lost", "succeeded", "failed"}
    BY <2>5 DEF TaskOf
  <2>8. /\ Tasks' = [Tasks EXCEPT ![item] = TaskOf(item)']
        /\ Reports' = [Reports EXCEPT ![item] = ReportOf(item)']
        /\ Reports[item] = ReportOf(item)
    BY <2>1, <2>4 DEF Tasks, Reports
  <2>9. Promise!Start(item)
    BY <2>6, <2>7, <2>8 DEF Promise!Start, Promise!Finished, Tasks, Reports
  <2> QED
    BY <2>1, <2>9 DEF Promise!Next
<1>3. calls[c].pc # "idle" => <<calls[c].uid, calls[c].vm>> \in Items
  BY <1>0 DEF IInv, CallsInv, CallInv, Items, CallStates
<1> QED
  BY <1>1, <1>2, <1>3 DEF Return

LEMMA StepIsPromised ==
    ASSUME IInv, ListenInv, EmptyFailure = FALSE, [Next]_vars
    PROVE  [Promise!Next]_<<Tasks, Reports>>
<1>1. UploadsStep
  BY NextUploads
<1>2. CASE UNCHANGED ops
  BY <1>1, <1>2, SilentStep
<1>3. CASE ExecuteSteps
  BY <1>2, <1>3, ReturnStep
  DEF ExecuteSteps, Execute, createDataUploadResource, getDataUploadByName
<1>4. CASE OperationSteps
  <2>1. ASSUME NEW i \in Items, CancelLookup(i)
        PROVE  [Promise!Next]_<<Tasks, Reports>>
    <3>1. ops[i].status = "InProgress" /\ uploads' = uploads
      BY <2>1 DEF CancelLookup, IInv, CancelsInv, cluster
    <3> QED
      BY <1>2, <2>1, <3>1, CancelEnds DEF CancelLookup
  <2>2. ASSUME NEW i \in Items, patchDataUploadCancel(i)
        PROVE  [Promise!Next]_<<Tasks, Reports>>
    <3>1. ops[i].status = "InProgress"
      BY <2>2 DEF patchDataUploadCancel, IInv, CancelsInv
    <3>2. \/ uploads' = uploads
          \/ \E d \in uploads : Replace(d, PatchedCancel(i, d))
      BY <2>2 DEF patchDataUploadCancel, ApplyPatch, Named
    <3>3. CancelReturns(i) \/ UNCHANGED ops
      BY <2>2 DEF patchDataUploadCancel, AttemptFails
    <3> QED
      BY <1>2, <3>1, <3>2, <3>3, CancelEnds
  <2> QED
    BY <1>2, <1>4, <2>1, <2>2, ProgressStep DEF OperationSteps, Timeout
<1>5. CASE EnvironmentSteps
  BY <1>2, <1>5
  DEF EnvironmentSteps, Abandon, Crash, DeleteBackup, RecreateBackup,
      ForeignCreate, GarbageCollect, ForeignDelete, ForeignCancel,
      ControllerWorks, ControllerCancels, velero
<1>6. CASE UNCHANGED vars
  BY <1>2, <1>6 DEF vars, velero
<1> QED
  BY <1>3, <1>4, <1>5, <1>6 DEF Next

LEMMA InitIsPromised == Init => Promise!Init
  BY DEF Init, Promise!Init, TaskOf, ReportOf, NoOperation

LEMMA InvAndListening == Spec => [](IInv /\ ListenInv)
<1>1. Init => IInv /\ ListenInv
  BY InitIInv, InitListens
<1>2. IInv /\ ListenInv /\ [Next]_vars => (IInv /\ ListenInv)'
  BY Inductive, ListenStep
<1> QED
  BY <1>1, <1>2, PTL DEF Spec

\* Execute, Progress and Cancel implement AsyncOperation for any number of VMs,
\* concurrent and abandoned calls, faults, crashes and third parties: every
\* operation reports once, success only for an upload that completed or was
\* deleted from under it, and no outcome is undone; provided that the
\* controller gives a reason for every failure.
THEOREM PromiseIsKept ==
    ASSUME EmptyFailure = FALSE
    PROVE  Spec => KeepsPromise
<1>1. IInv /\ ListenInv /\ [Next]_vars => [Promise!Next]_<<Tasks, Reports>>
  BY StepIsPromised
<1> QED
  BY <1>1, InitIsPromised, InvAndListening, PTL
  DEF Spec, KeepsPromise, Promise!Spec, Tasks, Reports
===============================================================================
