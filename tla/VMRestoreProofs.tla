--------------------------- MODULE VMRestoreProofs ----------------------------
(* Proofs about VMRestore, for every value of its constants: a VM that is held *)
(* starts only after its data is in place, and gets its own run state back; an *)
(* operation that succeeds has all its data, one that is given up has had its  *)
(* grace period; and Cancel asks every DataDownload it has found.              *)
EXTENDS VMRestore, TLAPS

USE DEF setting

\* The part of TypeOK that the hold depends on.
HoldTypes ==
    /\ vm \in [backedUp : Specs, annotated : BOOLEAN, spec : Specs,
               stash : Stashes, stage : {"pending", "held", "restored", "released"}]
    /\ expected \subseteq Disks /\ dds \in [Disks -> DDs]

DataInPlace == \A p \in expected \cap OwnDisks : dds[p].phase = "Completed"

\* What each stage of the VM says about its run state.  A held VM is one that
\* starts by itself, which is what its stash, a run strategy even for the
\* deprecated bool, relies on.
StageInv ==
    /\ vm.stage \in {"pending", "restored"} => vm.spec = vm.backedUp
    /\ vm.stage = "held" => /\ vm.spec = HaltedSpec
                            /\ running(vm.backedUp)
                            /\ vm.stash = RunStateStash(vm.backedUp)
    /\ vm.stage = "restored" => ~(vm.annotated /\ running(vm.backedUp))
    /\ vm.stage = "released" => vm.spec = vm.backedUp /\ DataInPlace

IInv == HoldTypes /\ StageInv

-------------------------------------------------------------------------------
(* Run states.                                                                 *)

LEMMA HaltedDoesNotStart == HaltedSpec \in Specs /\ ~Starts(HaltedSpec)
  BY DEF HaltedSpec, Specs, Strategies, Starts

\* The plugin and KubeVirt agree on which run states start a VM.
LEMMA RunningIsStarts ==
    ASSUME NEW spec \in Specs
    PROVE  running(spec) <=> Starts(spec)
  BY DEF Specs, Strategies, running, Starts, autoStarts

LEMMA StashTypes ==
    ASSUME NEW spec \in Specs, running(spec)
    PROVE  RunStateStash(spec) \in Stashes
  BY DEF Specs, Strategies, running, autoStarts, RunStateStash, Stashes

\* What the controller makes of a stash is the run state that was stashed.
LEMMA StashRoundTrip ==
    ASSUME NEW spec \in Specs, running(spec)
    PROVE  SpecFromStash(RunStateStash(spec)) = spec
<1>1. CASE spec.runStrategy # "unset"
  BY <1>1 DEF Specs, Strategies, RunStateStash, SpecFromStash
<1>2. CASE spec.runStrategy = "unset"
  BY <1>2 DEF Specs, Strategies, running, RunStateStash, SpecFromStash
<1> QED
  BY <1>1, <1>2

-------------------------------------------------------------------------------
(* The invariant is inductive.                                                 *)

LEMMA InitIInv == Init => IInv
<1> SUFFICES ASSUME Init PROVE IInv
  OBVIOUS
<1>1. PICK spec \in Specs, annotated \in BOOLEAN :
          vm = [backedUp |-> spec, annotated |-> annotated, spec |-> spec,
                stash |-> NoStash, stage |-> "pending"]
  BY DEF Init
<1>2. HoldTypes
  BY <1>1 DEF Init, HoldTypes, NoStash, Stashes, DDs
<1>3. StageInv
  BY <1>1 DEF StageInv
<1> QED
  BY <1>2, <1>3 DEF IInv

LEMMA ExecuteStep == IInv /\ Execute => IInv'
<1> SUFFICES ASSUME IInv, Execute PROVE IInv'
  OBVIOUS
<1> USE DEF IInv
<1>1. CASE vm.annotated /\ running(vm.backedUp)
  <2>1. vm' = [vm EXCEPT !.spec = HaltedSpec, !.stage = "held",
                         !.stash = RunStateStash(vm.backedUp)]
    BY <1>1 DEF Execute
  <2>2. HoldTypes'
    BY <1>1, <2>1, HaltedDoesNotStart, StashTypes DEF Execute, HoldTypes
  <2>3. /\ vm'.stage = "held" /\ vm'.spec = HaltedSpec
        /\ vm'.stash = RunStateStash(vm.backedUp) /\ vm'.backedUp = vm.backedUp
    BY <2>1 DEF HoldTypes
  <2> QED
    BY <1>1, <2>2, <2>3 DEF StageInv
<1>2. CASE ~(vm.annotated /\ running(vm.backedUp))
  <2>1. vm' = [vm EXCEPT !.stage = "restored"]
    BY <1>2 DEF Execute
  <2>2. HoldTypes'
    BY <2>1 DEF Execute, HoldTypes
  <2>3. /\ vm'.stage = "restored" /\ vm'.spec = vm.spec
        /\ vm'.backedUp = vm.backedUp /\ vm'.annotated = vm.annotated
    BY <2>1 DEF HoldTypes
  <2> QED
    BY <1>2, <2>2, <2>3 DEF StageInv, Execute
<1> QED
  BY <1>1, <1>2

LEMMA FlipBackStep == IInv /\ FlipBack => IInv'
<1> SUFFICES ASSUME IInv, FlipBack PROVE IInv'
  OBVIOUS
<1> USE DEF IInv
<1>1. SpecFromStash(vm.stash) = vm.backedUp /\ vm.backedUp \in Specs
  BY StashRoundTrip DEF FlipBack, StageInv, HoldTypes
<1>2. vm' = [vm EXCEPT !.stage = "released", !.spec = vm.backedUp]
  BY <1>1 DEF FlipBack
<1>3. HoldTypes'
  BY <1>1, <1>2 DEF FlipBack, HoldTypes
<1>4. vm'.stage = "released" /\ vm'.spec = vm'.backedUp
  BY <1>2 DEF HoldTypes
<1>5. DataInPlace'
  BY DEF FlipBack, DataInPlace
<1> QED
  BY <1>3, <1>4, <1>5 DEF StageInv

LEMMA RecreateRestoreStep == IInv /\ RecreateRestore => IInv'
<1> SUFFICES ASSUME IInv, RecreateRestore PROVE IInv'
  OBVIOUS
<1> USE DEF IInv
<1>1. vm' = [vm EXCEPT !.spec = vm.backedUp, !.stash = NoStash,
                       !.stage = "pending"]
  BY DEF RecreateRestore
<1>2. NoStash \in Stashes /\ NoDD \in DDs
  BY DEF NoStash, Stashes, DDs
<1>3. HoldTypes'
  BY <1>1, <1>2 DEF RecreateRestore, HoldTypes
<1>4. vm'.stage = "pending" /\ vm'.spec = vm'.backedUp
  BY <1>1 DEF HoldTypes
<1> QED
  BY <1>3, <1>4 DEF StageInv

\* A step that leaves the VM alone keeps the invariant if what is completed and
\* still expected stays so.
LEMMA Frame ==
    ASSUME IInv, UNCHANGED vm,
           expected' \subseteq expected, dds' \in [Disks -> DDs],
           \A p \in expected' \cap OwnDisks :
               dds[p].phase = "Completed" => dds'[p].phase = "Completed"
    PROVE  IInv'
<1>1. HoldTypes'
  BY DEF IInv, HoldTypes
<1>2. DataInPlace => DataInPlace'
  BY DEF DataInPlace
<1> QED
  BY <1>1, <1>2 DEF IInv, StageInv

\* The plugin's Progress and Cancel touch a DataDownload's cancel flag only.
LEMMA SetCancelKeeps ==
    ASSUME dds \in [Disks -> DDs], NEW p \in Disks, dds[p] # NoDD, SetCancel(p)
    PROVE  /\ dds' \in [Disks -> DDs]
           /\ \A q \in Disks : dds'[q].phase = dds[q].phase
<1>1. dds' = [dds EXCEPT ![p].cancel = TRUE]
  BY DEF SetCancel
<1>2. dds[p] \in [phase : Running \cup Terminal, cancel : BOOLEAN]
  BY DEF DDs
<1>3. [dds[p] EXCEPT !.cancel = TRUE] \in [phase : Running \cup Terminal,
                                           cancel : BOOLEAN]
  BY <1>2
<1>4. dds' \in [Disks -> DDs]
  BY <1>1, <1>3 DEF DDs
<1>5. ASSUME NEW q \in Disks PROVE dds'[q].phase = dds[q].phase
  BY <1>1, <1>2
<1> QED
  BY <1>4, <1>5

LEMMA PatchStep == IInv /\ patchDataDownloadCancel => IInv'
<1> SUFFICES ASSUME IInv, patchDataDownloadCancel PROVE IInv'
  OBVIOUS
<1>1. UNCHANGED <<vm, expected>>
  BY DEF patchDataDownloadCancel
<1>2. HoldTypes
  BY DEF IInv
<1>3. CASE UNCHANGED dds
  BY <1>1, <1>2, <1>3, Frame DEF HoldTypes
<1>4. CASE dds[Target] # NoDD /\ SetCancel(Target)
  <2>1. CASE Target \in Disks
    BY <1>1, <1>2, <1>4, <2>1, SetCancelKeeps, Frame DEF HoldTypes, Disks
  <2>2. CASE Target \notin Disks
    <3>1. dds' = dds
      BY <1>2, <1>4, <2>2 DEF SetCancel, HoldTypes
    <3> QED
      BY <3>1, <1>3
  <2> QED
    BY <2>1, <2>2
<1> QED
  BY <1>3, <1>4 DEF patchDataDownloadCancel

\* A disk's new phase leaves the others alone.
LEMMA PhaseStep ==
    ASSUME IInv, NEW p \in Disks, NEW ph \in Running \cup Terminal,
           dds[p].phase \in Running, dds' = [dds EXCEPT ![p].phase = ph],
           UNCHANGED <<vm, expected>>
    PROVE  IInv'
<1>1. dds \in [Disks -> DDs]
  BY DEF IInv, HoldTypes
<1>2. dds[p] # NoDD
  BY DEF NoDD, Running
<1>3. [dds[p] EXCEPT !.phase = ph] \in DDs
  BY <1>1, <1>2 DEF DDs
<1>4. dds' \in [Disks -> DDs]
  BY <1>1, <1>3
<1>5. dds[p].phase # "Completed"
  BY DEF Running
<1>6. ASSUME NEW q \in Disks, dds[q].phase = "Completed"
      PROVE  dds'[q].phase = "Completed"
  BY <1>1, <1>5, <1>6
<1> QED
  BY <1>4, <1>6, Frame DEF Disks

LEMMA DiskStep ==
    ASSUME IInv, NEW p \in Disks,
           \/ createDataDownload(p) \/ DeleteDataDownload(p)
           \/ PVCCancels(p) \/ ControllerWorks(p) \/ ControllerCancels(p)
    PROVE  IInv'
<1>1. dds \in [Disks -> DDs] /\ NoDD \in DDs
  BY DEF IInv, HoldTypes, DDs
<1>2. CASE createDataDownload(p)
  <2>1. [phase |-> "New", cancel |-> FALSE] \in DDs
    BY DEF DDs, Running
  <2>2. dds' \in [Disks -> DDs]
    BY <1>1, <1>2, <2>1 DEF createDataDownload
  <2>3. dds[p].phase # "Completed"
    BY <1>2 DEF createDataDownload, NoDD
  <2>4. ASSUME NEW q \in Disks, dds[q].phase = "Completed"
        PROVE  dds'[q].phase = "Completed"
    BY <1>1, <1>2, <2>3, <2>4 DEF createDataDownload
  <2> QED
    BY <1>2, <2>2, <2>4, Frame DEF createDataDownload, Disks
<1>3. CASE DeleteDataDownload(p)
  <2>1. dds' \in [Disks -> DDs]
    BY <1>1, <1>3 DEF DeleteDataDownload
  <2>2. ASSUME NEW q \in expected' PROVE dds'[q] = dds[q]
    BY <1>1, <1>3, <2>2 DEF DeleteDataDownload, IInv, HoldTypes
  <2> QED
    BY <1>3, <2>1, <2>2, Frame DEF DeleteDataDownload
<1>4. CASE ControllerWorks(p)
  <2>1. PICK ph \in {"InProgress", "Completed", "Failed"} :
            dds' = [dds EXCEPT ![p].phase = ph]
    BY <1>4 DEF ControllerWorks
  <2> QED
    BY <1>4, <2>1, PhaseStep DEF ControllerWorks, Running, Terminal
<1>5. CASE ControllerCancels(p)
  <2>1. PICK ph \in {"Canceling", "Canceled"} :
            dds' = [dds EXCEPT ![p].phase = ph]
    BY <1>5 DEF ControllerCancels
  <2> QED
    BY <1>5, <2>1, PhaseStep DEF ControllerCancels, Running, Terminal
<1>6. CASE PVCCancels(p)
  BY <1>1, <1>6, SetCancelKeeps, Frame DEF PVCCancels, Disks
<1> QED
  BY <1>2, <1>3, <1>4, <1>5, <1>6

\* All other steps leave the VM and the DataDownloads alone.
HoldUnchanged == UNCHANGED <<vm, expected, dds>>

LEMMA OthersLeaveHold ==
    ProgressSteps \/ Timeout \/ CancelLookup \/ ClockTicks \/ Restart
        \/ UNCHANGED vars
        => HoldUnchanged
  BY DEF ProgressSteps, ProgressError, ProgressEmpty, ProgressFound, Timeout,
         CancelLookup, ClockTicks, Restart, vars, HoldUnchanged

LEMMA Inductive == IInv /\ [Next]_vars => IInv'
<1> SUFFICES ASSUME IInv, [Next]_vars PROVE IInv'
  OBVIOUS
<1>1. CASE HoldUnchanged
  BY <1>1, Frame DEF HoldUnchanged, IInv, HoldTypes
<1>2. CASE Execute
  BY <1>2, ExecuteStep
<1>3. CASE CancelSteps
  BY <1>1, <1>3, PatchStep, OthersLeaveHold DEF CancelSteps
<1>4. CASE \E p \in Disks : \/ createDataDownload(p) \/ DeleteDataDownload(p)
                            \/ PVCCancels(p)
                            \/ ControllerWorks(p) \/ ControllerCancels(p)
  BY <1>4, DiskStep
<1>5. CASE FlipBack
  BY <1>5, FlipBackStep
<1>6. CASE RecreateRestore
  BY <1>6, RecreateRestoreStep
<1>7. CASE ProgressSteps \/ Timeout \/ ClockTicks \/ Restart \/ UNCHANGED vars
  BY <1>1, <1>7, OthersLeaveHold
<1> QED
  BY <1>2, <1>3, <1>4, <1>5, <1>6, <1>7 DEF Next

LEMMA Invariance == Spec => []IInv
  BY InitIInv, Inductive, PTL DEF Spec

-------------------------------------------------------------------------------
\* A VM with a kubevirt backup starts only after the data of all its restored
\* disks is in place (RestorePlugin.Execute and the hold it puts on the VM).
THEOREM HeldUntilData == Spec => []NoStartBeforeData
<1>1. IInv => NoStartBeforeData
  BY HaltedDoesNotStart, RunningIsStarts
  DEF IInv, HoldTypes, StageInv, NoStartBeforeData, DataInPlace
<1> QED
  BY <1>1, Invariance, PTL

\* The run state a held VM gets back is the one it was backed up with, in the
\* field it was kept in (originalRunState and haltVM).
THEOREM RunStateSurvives == Spec => []ReleaseRestoresRunState
<1>1. IInv => ReleaseRestoresRunState
  BY DEF IInv, StageInv, ReleaseRestoresRunState
<1> QED
  BY <1>1, Invariance, PTL


-------------------------------------------------------------------------------
(* The rest of the type invariant.                                             *)

CancelStates ==
    [pc : {"idle", "list", "patch", "done"}, todo : SUBSET Disks,
     tries : 0..(PatchSteps - 1), spent : 0..TotalTimeout,
     found : SUBSET Disks, errs : SUBSET Disks]

BudgetTypes ==
    faults \in [FaultKinds -> Nat] /\ deletes \in Nat /\ restarts \in Nat

\* While Cancel patches, there is a DataDownload to patch.
CallTypes ==
    /\ op \in {"none", "InProgress", "Completed", "Failed"}
    /\ cancel \in CancelStates
    /\ cancel.pc = "patch" => cancel.todo # {}

ClockTypes == anchor \in 0..NoEntry /\ waited \in 0..NoEntry

SettingTypes == early \in BOOLEAN /\ restores \in 1..MaxRestores

RestTypes == BudgetTypes /\ CallTypes /\ ClockTypes /\ SettingTypes

LEMMA Bounds ==
    /\ Grace \in Nat /\ Grace >= 1 /\ PatchSteps \in Nat /\ PatchSteps >= 1
    /\ MaxRestores \in Nat /\ MaxRestores >= 1 /\ TotalTimeout \in Nat
    /\ CallTimeout \in Nat /\ NoEntry \in Nat /\ NoEntry = Grace + 2
  BY BoundsAssumption DEF NoEntry

LEMMA NoCancelType == NoCancel \in CancelStates /\ NoCancel.pc = "idle"
  BY Bounds DEF NoCancel, CancelStates

LEMMA FoundType == getDataDownloadsForVM \subseteq Disks
  BY DEF getDataDownloadsForVM, Present

LEMMA InitRestTypes == Init => RestTypes
<1> SUFFICES ASSUME Init PROVE RestTypes
  OBVIOUS
<1>1. BudgetTypes /\ CallTypes
  BY NoCancelType DEF Init, BudgetTypes, CallTypes
<1>2. ClockTypes
  BY Bounds DEF Init, ClockTypes
<1>3. SettingTypes
  BY Bounds, BoundsAssumption DEF Init, SettingTypes
<1> QED
  BY <1>1, <1>2, <1>3 DEF RestTypes

LEMMA SpendTypes ==
    ASSUME BudgetTypes,
           (\E k \in FaultKinds : Spend(k)) \/ UNCHANGED budget
    PROVE  BudgetTypes'
  BY DEF BudgetTypes, Spend, budget

LEMMA CancelReturnsTypes ==
    ASSUME NEW errs \in SUBSET Disks, CancelReturns(errs)
    PROVE  CallTypes'
<1>1. 0 \in 0..(PatchSteps - 1) /\ 0 \in 0..TotalTimeout
  BY Bounds
<1>2. cancel' = [pc |-> "done", todo |-> {}, tries |-> 0, spent |-> 0,
                 found |-> {}, errs |-> errs]
  BY DEF CancelReturns, NoCancel
<1>3. cancel' \in CancelStates /\ cancel'.pc = "done"
  BY <1>1, <1>2 DEF CancelStates
<1> QED
  BY <1>3 DEF CancelReturns, CallTypes

LEMMA NextTargetTypes ==
    ASSUME CallTypes, cancel.pc = "patch", NEW p \in cancel.todo,
           NEW errs \in SUBSET Disks, NextTarget(p, errs)
    PROVE  CallTypes'
<1>1. cancel.errs \cup errs \in SUBSET Disks
  BY DEF CallTypes, CancelStates
<1>2. CASE cancel.todo = {p}
  BY <1>1, <1>2, CancelReturnsTypes DEF NextTarget
<1>3. CASE cancel.todo # {p}
  <2>1. /\ cancel' = [cancel EXCEPT !.todo = cancel.todo \ {p}, !.tries = 0,
                                    !.spent = 0, !.errs = cancel.errs \cup errs]
        /\ op' = op
    BY <1>3 DEF NextTarget
  <2>2. cancel.todo \ {p} # {} /\ cancel.todo \ {p} \in SUBSET Disks
    BY <1>3 DEF CallTypes, CancelStates
  <2>3. 0 \in 0..(PatchSteps - 1) /\ 0 \in 0..TotalTimeout
    BY Bounds
  <2>4. cancel' \in CancelStates /\ cancel'.todo = cancel.todo \ {p}
    BY <1>1, <2>1, <2>2, <2>3 DEF CallTypes, CancelStates
  <2> QED
    BY <2>1, <2>2, <2>4 DEF CallTypes
<1> QED
  BY <1>2, <1>3

LEMMA PatchTypes == CallTypes /\ patchDataDownloadCancel => CallTypes'
<1> SUFFICES ASSUME CallTypes, patchDataDownloadCancel PROVE CallTypes'
  OBVIOUS
<1>1. cancel.pc = "patch" /\ Target \in cancel.todo /\ Target \in Disks
  BY DEF patchDataDownloadCancel, CallTypes, CancelStates, Target
<1>2. ASSUME NEW cost \in Nat, AttemptFails(Target, cost)
      PROVE  CallTypes'
  <2>1. CASE cancel.tries + 1 < PatchSteps /\ cancel.spent + cost < TotalTimeout
    <3>1. /\ cancel' = [cancel EXCEPT !.tries = cancel.tries + 1,
                                      !.spent = cancel.spent + cost]
          /\ op' = op
      BY <1>2, <2>1 DEF AttemptFails
    <3>2. /\ cancel.tries \in 0..(PatchSteps - 1)
          /\ cancel.spent \in 0..TotalTimeout
      BY DEF CallTypes, CancelStates
    <3>3. /\ cancel.tries + 1 \in 0..(PatchSteps - 1)
          /\ cancel.spent + cost \in 0..TotalTimeout
      BY <2>1, <3>2, Bounds
    <3> QED
      BY <3>1, <3>3 DEF CallTypes, CancelStates
  <2>2. CASE ~(cancel.tries + 1 < PatchSteps /\ cancel.spent + cost < TotalTimeout)
    BY <1>1, <1>2, <2>2, NextTargetTypes DEF AttemptFails
  <2> QED
    BY <2>1, <2>2
<1>3. CASE NextTarget(Target, {})
  BY <1>1, <1>3, NextTargetTypes
<1>4. 0 \in Nat /\ CallTimeout \in Nat
  BY Bounds
<1> QED
  BY <1>2, <1>3, <1>4 DEF patchDataDownloadCancel

LEMMA RestStep == RestTypes /\ [Next]_vars => RestTypes'
<1> SUFFICES ASSUME RestTypes, [Next]_vars PROVE RestTypes'
  OBVIOUS
<1>1. CASE Execute
  BY <1>1 DEF Execute, RestTypes, BudgetTypes, CallTypes, ClockTypes,
              SettingTypes, budget
<1>2. CASE ProgressSteps
  <2>1. BudgetTypes'
    BY <1>2, SpendTypes DEF ProgressSteps, ProgressError, ProgressEmpty,
       ProgressFound, FaultKinds, RestTypes
  <2>2. CallTypes'
    <3>1. cancel' = cancel /\ op' \in {"InProgress", "Completed", "Failed"}
      BY <1>2 DEF ProgressSteps, ProgressError, ProgressEmpty, ProgressFound,
                  Aggregate, Polled
    <3> QED
      BY <3>1 DEF RestTypes, CallTypes
  <2>3. ClockTypes'
    BY <1>2, Bounds
    DEF ProgressSteps, ProgressError, ProgressEmpty, ProgressFound, DropEntry,
        FirstSeen, RestTypes, ClockTypes
  <2>4. SettingTypes'
    BY <1>2 DEF ProgressSteps, ProgressError, ProgressEmpty, ProgressFound,
                RestTypes, SettingTypes
  <2> QED
    BY <2>1, <2>2, <2>3, <2>4 DEF RestTypes
<1>3. CASE Timeout
  <2>1. [NoCancel EXCEPT !.pc = "list"] \in CancelStates
        /\ [NoCancel EXCEPT !.pc = "list"].pc = "list"
    BY NoCancelType DEF CancelStates
  <2> QED
    BY <1>3, <2>1, Bounds
    DEF Timeout, DropEntry, RestTypes, BudgetTypes, CallTypes, ClockTypes,
        SettingTypes, budget
<1>4. CASE CancelSteps
  <2>1. BudgetTypes' /\ ClockTypes' /\ SettingTypes'
    BY <1>4, SpendTypes
    DEF CancelSteps, CancelLookup, patchDataDownloadCancel, FaultKinds,
        RestTypes, ClockTypes, SettingTypes
  <2>2. CASE patchDataDownloadCancel
    BY <2>1, <2>2, PatchTypes DEF RestTypes
  <2>3. CASE CancelLookup
    <3>1. CASE CancelReturns({})
      BY <2>1, <3>1, CancelReturnsTypes DEF RestTypes
    <3>2. CASE /\ getDataDownloadsForVM # {} /\ op' = op
               /\ cancel' = [cancel EXCEPT !.pc = "patch",
                                           !.todo = getDataDownloadsForVM,
                                           !.found = getDataDownloadsForVM]
      <4>1. cancel' \in CancelStates /\ cancel'.todo = getDataDownloadsForVM
        BY <3>2, FoundType DEF RestTypes, CallTypes, CancelStates
      <4> QED
        BY <2>1, <3>2, <4>1 DEF RestTypes, CallTypes
    <3> QED
      BY <2>3, <3>1, <3>2 DEF CancelLookup
  <2> QED
    BY <1>4, <2>2, <2>3 DEF CancelSteps
<1>5. CASE \E p \in Disks : \/ createDataDownload(p) \/ DeleteDataDownload(p)
                            \/ PVCCancels(p)
                            \/ ControllerWorks(p) \/ ControllerCancels(p)
  BY <1>5
  DEF createDataDownload, DeleteDataDownload, PVCCancels, ControllerWorks,
      ControllerCancels, RestTypes, BudgetTypes, CallTypes, ClockTypes, SettingTypes, budget
<1>6. CASE FlipBack
  BY <1>6 DEF FlipBack, RestTypes, BudgetTypes, CallTypes, ClockTypes,
              SettingTypes, budget
<1>7. CASE ClockTicks
  BY <1>7, Bounds DEF ClockTicks, Tick, RestTypes, BudgetTypes, CallTypes,
                      ClockTypes, SettingTypes, budget
<1>8. CASE Restart
  BY <1>8, Bounds, NoCancelType
  DEF Restart, RestTypes, BudgetTypes, CallTypes, ClockTypes, SettingTypes
<1>9. CASE RecreateRestore
  BY <1>9, Bounds, BoundsAssumption, NoCancelType
  DEF RecreateRestore, RestTypes, BudgetTypes, CallTypes, ClockTypes,
      SettingTypes, budget
<1>10. CASE UNCHANGED vars
  BY <1>10 DEF vars, RestTypes, BudgetTypes, CallTypes, ClockTypes, SettingTypes,
               budget
<1> QED
  BY <1>1, <1>2, <1>3, <1>4, <1>5, <1>6, <1>7, <1>8, <1>9, <1>10 DEF Next

LEMMA AllTypes == Spec => [](IInv /\ RestTypes)
<1>1. Spec => []RestTypes
  BY InitRestTypes, RestStep, PTL DEF Spec
<1> QED
  BY <1>1, Invariance, PTL

\* The type invariant.
THEOREM TypeCorrect == Spec => []TypeOK
<1>1. IInv /\ RestTypes => TypeOK
  BY DEF IInv, HoldTypes, RestTypes, BudgetTypes, CallTypes, CancelStates,
         ClockTypes, SettingTypes, TypeOK
<1> QED
  BY <1>1, AllTypes, PTL

-------------------------------------------------------------------------------
(* Success.                                                                    *)

LEMMA SuccessStep ==
    ASSUME IInv, SuccessMeansAllData, [Next]_vars
    PROVE  SuccessMeansAllData'
<1>0. dds \in [Disks -> DDs] /\ expected \subseteq Disks
  BY DEF IInv, HoldTypes
\* The operation stays what it was, or fails, and no disk loses its data.
<1>1. ASSUME early' = early, op' = "Completed" => op = "Completed",
             expected' \subseteq expected,
             \A p \in expected' \cap OwnDisks :
                 dds[p].phase = "Completed" => dds'[p].phase = "Completed"
      PROVE  SuccessMeansAllData'
  BY <1>1 DEF SuccessMeansAllData
<1>2. CASE ProgressFound
  <2>1. SUFFICES ASSUME early, op' = "Completed",
                        NEW p \in expected \cap OwnDisks
                 PROVE  dds[p].phase = "Completed"
    BY <1>2 DEF ProgressFound, SuccessMeansAllData
  <2>2. p \in getDataDownloadsForVM
    BY <1>0, <1>2, <2>1
    DEF ProgressFound, Polled, getDataDownloadsForVM, Present
  <2> QED
    BY <1>2, <2>1, <2>2 DEF ProgressFound, Aggregate
<1>3. CASE ProgressError \/ ProgressEmpty
  BY <1>1, <1>3 DEF ProgressError, ProgressEmpty, Polled
<1>4. CASE Execute \/ Timeout \/ CancelLookup \/ FlipBack \/ ClockTicks \/ Restart
               \/ UNCHANGED vars
  BY <1>1, <1>4 DEF Execute, Timeout, CancelLookup, CancelReturns, FlipBack,
                    ClockTicks, Restart, vars
<1>5. CASE patchDataDownloadCancel
  <2>1. op' = "Completed" => op = "Completed"
    BY <1>5 DEF patchDataDownloadCancel, NextTarget, AttemptFails, CancelReturns
  <2>2. \A p \in Disks : dds'[p].phase = dds[p].phase
    <3>1. CASE UNCHANGED dds
      BY <3>1
    <3>2. CASE dds[Target] # NoDD /\ SetCancel(Target)
      <4>1. CASE Target \in Disks
        BY <1>0, <3>2, <4>1, SetCancelKeeps
      <4>2. CASE Target \notin Disks
        BY <1>0, <3>2, <4>2 DEF SetCancel
      <4> QED
        BY <4>1, <4>2
    <3> QED
      BY <1>5, <3>1, <3>2 DEF patchDataDownloadCancel
  <2> QED
    BY <1>0, <1>1, <1>5, <2>1, <2>2 DEF patchDataDownloadCancel
<1>6. ASSUME NEW p \in Disks,
             \/ createDataDownload(p) \/ DeleteDataDownload(p)
             \/ ControllerWorks(p) \/ ControllerCancels(p)
      PROVE  SuccessMeansAllData'
  <2>1. \A q \in Disks \ {p} : dds'[q] = dds[q]
    BY <1>0, <1>6 DEF createDataDownload, DeleteDataDownload, ControllerWorks,
                      ControllerCancels
  <2>2. dds[p].phase = "Completed" => p \notin expected' /\ DeleteDataDownload(p)
    BY <1>0, <1>6 DEF createDataDownload, DeleteDataDownload, ControllerWorks,
                      ControllerCancels, NoDD, Running
  <2>3. early' = early /\ op' = op /\ expected' \subseteq expected
    BY <1>6 DEF createDataDownload, DeleteDataDownload, ControllerWorks,
                ControllerCancels
  <2> QED
    BY <1>0, <1>1, <2>1, <2>2, <2>3
<1>7. CASE RecreateRestore
  BY <1>7 DEF RecreateRestore, SuccessMeansAllData
<1>8. ASSUME NEW p \in Disks, PVCCancels(p)
      PROVE  SuccessMeansAllData'
  <2>1. \A q \in Disks : dds'[q].phase = dds[q].phase
    BY <1>0, <1>8, SetCancelKeeps DEF PVCCancels
  <2>2. early' = early /\ op' = op /\ expected' = expected
    BY <1>8 DEF PVCCancels, setting
  <2> QED
    BY <1>0, <1>1, <2>1, <2>2
<1> QED
  BY <1>2, <1>3, <1>4, <1>5, <1>6, <1>7, <1>8 DEF Next, ProgressSteps, CancelSteps

\* Where the operations are polled after all DataDownloads are created, success
\* means that every disk of the VM that the Restore includes has its data
\* (Progress and its aggregation).
THEOREM SuccessIsComplete == Spec => []SuccessMeansAllData
<1>1. Init => SuccessMeansAllData
  BY DEF Init, SuccessMeansAllData
<1>2. IInv /\ SuccessMeansAllData /\ [Next]_vars => SuccessMeansAllData'
  BY SuccessStep
<1> QED
  BY <1>1, <1>2, Invariance, PTL DEF Spec

-------------------------------------------------------------------------------
(* The grace period.  The entry of the map is never older than the wait it     *)
(* measures, as long as no earlier Restore has left one behind.                *)

GraceInv ==
    restores = 1 /\ anchor # NoEntry =>
        waited # NoEntry /\ anchor <= waited /\ anchor <= Grace + 1

LEMMA GraceStep == RestTypes /\ GraceInv /\ [Next]_vars => GraceInv'
<1> SUFFICES ASSUME RestTypes, GraceInv, [Next]_vars PROVE GraceInv'
  OBVIOUS
<1>0. anchor \in 0..NoEntry /\ waited \in 0..NoEntry
  BY DEF RestTypes, ClockTypes
<1>1. CASE UNCHANGED <<restores, anchor, waited>>
  BY <1>1 DEF GraceInv
<1>2. ASSUME anchor' = NoEntry
      PROVE  GraceInv'
  BY <1>2 DEF GraceInv
<1>3. CASE ProgressEmpty
  <2>1. /\ restores' = restores /\ anchor' \in {FirstSeen, NoEntry}
        /\ waited' = IF waited = NoEntry THEN 0 ELSE waited
    BY <1>3 DEF ProgressEmpty
  <2> QED
    BY <1>0, <2>1, Bounds DEF GraceInv, FirstSeen
<1>4. CASE ClockTicks
  BY <1>0, <1>4, Bounds DEF ClockTicks, Tick, GraceInv
<1>5. CASE RecreateRestore
  BY <1>5, Bounds DEF RecreateRestore, GraceInv, RestTypes, SettingTypes
<1> QED
  BY <1>1, <1>2, <1>3, <1>4, <1>5
  DEF Next, Execute, ProgressSteps, ProgressError, ProgressFound, DropEntry,
      Timeout, CancelSteps, CancelLookup, patchDataDownloadCancel,
      createDataDownload, DeleteDataDownload, PVCCancels, ControllerWorks,
      ControllerCancels, FlipBack, Restart, vars

LEMMA GiveUpStep ==
    ASSUME RestTypes, GraceInv, [Next]_vars, GivesUp, restores = 1
    PROVE  \/ \E p \in OwnDisks : dds[p].phase \in {"Failed", "Canceled"}
           \/ waited # NoEntry /\ waited > Grace
<1>0. anchor \in 0..NoEntry /\ waited \in 0..NoEntry
      /\ faults \in [FaultKinds -> Nat]
  BY DEF RestTypes, ClockTypes, BudgetTypes
<1>1. CASE ProgressError
  <2>1. faults' = [faults EXCEPT !["list"] = faults["list"] + 1]
    BY <1>1 DEF ProgressError, Spend
  <2>2. faults["list"] \in Nat /\ faults'["list"] = faults["list"] + 1
    BY <1>0, <2>1 DEF FaultKinds
  <2> QED
    BY <2>2 DEF GivesUp
<1>2. CASE ProgressEmpty
  <2>1. FirstSeen > Grace
    BY <1>2 DEF ProgressEmpty, GivesUp
  <2>2. anchor # NoEntry /\ anchor > Grace
    BY <2>1, Bounds DEF FirstSeen
  <2> QED
    BY <1>0, <2>2, Bounds DEF GraceInv
<1>3. CASE ProgressFound
  BY <1>3 DEF ProgressFound, GivesUp, Aggregate, getDataDownloadsForVM
<1> QED
  BY <1>1, <1>2, <1>3
  DEF Next, GivesUp, Execute, ProgressSteps, Timeout, CancelSteps, CancelLookup,
      patchDataDownloadCancel, createDataDownload, DeleteDataDownload, PVCCancels,
      ControllerWorks, ControllerCancels, FlipBack, ClockTicks, Restart,
      RecreateRestore, vars

\* An operation is given up only for a failed disk of its own, or after it has
\* been without any DataDownload for the grace period (Progress and its map),
\* however often the process restarts and whatever other VMs do.
THEOREM GraceIsHad == Spec => GraceIsGranted
<1>1. Init => GraceInv
  BY DEF Init, GraceInv
<1>2. RestTypes /\ GraceInv /\ [Next]_vars =>
          [GivesUp /\ restores = 1 =>
               \/ \E p \in OwnDisks : dds[p].phase \in {"Failed", "Canceled"}
               \/ waited # NoEntry /\ waited > Grace]_vars
  BY GiveUpStep
<1> QED
  BY <1>1, <1>2, GraceStep, AllTypes, PTL DEF Spec, GraceIsGranted

-------------------------------------------------------------------------------
(* Cancel asks every DataDownload it has found.                                *)

Types == HoldTypes /\ RestTypes

\* The loop has asked what it is past, and that cannot be undone: a deleted
\* DataDownload is not created again.
LoopInv ==
    cancel.pc = "patch" =>
        /\ cancel.todo \subseteq cancel.found /\ cancel.found \subseteq OwnDisks
        /\ \A p \in cancel.found : dds[p] = NoDD => p \notin expected
        /\ \A p \in cancel.found \ cancel.todo :
              dds[p] = NoDD \/ dds[p].cancel \/ p \in cancel.errs

UsedUp == \/ faults["patch"] + faults["hang"] >= PatchSteps
          \/ faults["hang"] * CallTimeout >= TotalTimeout

\* Attempts and time went to requests that failed.
SpentInv ==
    /\ cancel.tries <= faults["patch"] + faults["hang"]
    /\ cancel.spent <= faults["hang"] * CallTimeout
    /\ cancel.errs # {} => UsedUp

LEMMA MoreHangs ==
    ASSUME NEW m \in Nat, NEW n \in Nat, m <= n
    PROVE  /\ m * CallTimeout \in Nat
           /\ m * CallTimeout <= n * CallTimeout
           /\ (m + 1) * CallTimeout = m * CallTimeout + CallTimeout
<1>1. CallTimeout \in Nat
  BY Bounds
<1>2. PICK k \in Nat : n = m + k
  <2>1. n - m \in Nat /\ n = m + (n - m)
    OBVIOUS
  <2> QED
    BY <2>1
<1>3. n * CallTimeout = m * CallTimeout + k * CallTimeout
  BY <1>1, <1>2
<1>4. k * CallTimeout \in Nat /\ m * CallTimeout \in Nat
  BY <1>1
<1> QED
  BY <1>1, <1>3, <1>4

LEMMA FaultsGrow ==
    ASSUME Types, [Next]_vars
    PROVE  \A k \in FaultKinds :
               faults[k] \in Nat /\ faults'[k] \in Nat /\ faults[k] <= faults'[k]
<1>0. faults \in [FaultKinds -> Nat]
  BY DEF Types, RestTypes, BudgetTypes
<1>1. UNCHANGED faults \/ \E k \in FaultKinds : Spend(k)
  BY DEF Next, vars, budget, Execute, ProgressSteps, ProgressError,
         ProgressEmpty, ProgressFound, Timeout, CancelSteps, CancelLookup,
         patchDataDownloadCancel, createDataDownload, DeleteDataDownload, PVCCancels,
         PVCCancels, ControllerWorks, ControllerCancels, FlipBack, ClockTicks, Restart,
         RecreateRestore, FaultKinds
<1> QED
  BY <1>0, <1>1 DEF Spend

LEMMA FaultsUsed ==
    ASSUME Types, [Next]_vars
    PROVE  /\ faults["patch"] \in Nat /\ faults'["patch"] \in Nat
           /\ faults["hang"] \in Nat /\ faults'["hang"] \in Nat
           /\ faults["patch"] <= faults'["patch"]
           /\ faults["hang"] <= faults'["hang"]
           /\ faults["hang"] * CallTimeout \in Nat
           /\ faults'["hang"] * CallTimeout \in Nat
           /\ faults["hang"] * CallTimeout <= faults'["hang"] * CallTimeout
           /\ UsedUp => UsedUp'
<1>1. /\ faults["patch"] \in Nat /\ faults'["patch"] \in Nat
      /\ faults["hang"] \in Nat /\ faults'["hang"] \in Nat
      /\ faults["patch"] <= faults'["patch"]
      /\ faults["hang"] <= faults'["hang"]
  BY FaultsGrow DEF FaultKinds
<1>2. /\ faults["hang"] * CallTimeout \in Nat
      /\ faults'["hang"] * CallTimeout \in Nat
      /\ faults["hang"] * CallTimeout <= faults'["hang"] * CallTimeout
  BY <1>1, MoreHangs
<1>3. UsedUp => UsedUp'
  BY <1>1, <1>2, Bounds DEF UsedUp
<1> QED
  BY <1>1, <1>2, <1>3

\* The counters stay or start again.
LEMMA SpentFrame ==
    ASSUME Types, [Next]_vars, SpentInv,
           \/ cancel'.tries = cancel.tries /\ cancel'.spent = cancel.spent
           \/ cancel'.tries = 0 /\ cancel'.spent = 0,
           cancel'.errs # {} => cancel.errs # {} \/ UsedUp'
    PROVE  SpentInv'
<1>1. cancel.tries \in Nat /\ cancel.spent \in Nat
  BY Bounds DEF Types, RestTypes, CallTypes, CancelStates
<1>2. cancel'.tries <= faults'["patch"] + faults'["hang"]
  BY <1>1, FaultsUsed DEF SpentInv
<1>3. cancel'.spent <= faults'["hang"] * CallTimeout
  BY <1>1, FaultsUsed DEF SpentInv
<1>4. cancel'.errs # {} => UsedUp'
  BY FaultsUsed DEF SpentInv
<1> QED
  BY <1>2, <1>3, <1>4 DEF SpentInv

LEMMA NextTargetShape ==
    ASSUME Types, NEW p, NEW errs, NextTarget(p, errs)
    PROVE  /\ cancel'.tries = 0 /\ cancel'.spent = 0
           /\ cancel'.errs = cancel.errs \cup errs
           /\ \/ cancel.todo = {p} /\ cancel'.pc = "done"
              \/ /\ cancel.todo # {p} /\ cancel'.pc = cancel.pc
                 /\ cancel'.todo = cancel.todo \ {p}
                 /\ cancel'.found = cancel.found
<1>0. cancel \in CancelStates
  BY DEF Types, RestTypes, CallTypes
<1>1. CASE cancel.todo = {p}
  BY <1>1 DEF NextTarget, CancelReturns, NoCancel
<1>2. CASE cancel.todo # {p}
  BY <1>0, <1>2 DEF NextTarget, CancelStates
<1> QED
  BY <1>1, <1>2

\* A failed attempt is counted, or is the last.
LEMMA AttemptStep ==
    ASSUME Types, [Next]_vars, SpentInv, NEW p, NEW cost \in {0, CallTimeout},
           AttemptFails(p, cost),
           faults'["patch"] + faults'["hang"]
               = faults["patch"] + faults["hang"] + 1,
           faults'["hang"] * CallTimeout = faults["hang"] * CallTimeout + cost
    PROVE  /\ SpentInv'
           /\ \/ UsedUp' /\ NextTarget(p, {p})
              \/ /\ cancel'.pc = cancel.pc /\ cancel'.todo = cancel.todo
                 /\ cancel'.found = cancel.found /\ cancel'.errs = cancel.errs
<1>0. /\ cancel \in CancelStates /\ cost \in Nat
      /\ cancel.tries \in Nat /\ cancel.spent \in Nat
  BY Bounds DEF Types, RestTypes, CallTypes, CancelStates
<1>1. /\ cancel.tries + 1 <= faults'["patch"] + faults'["hang"]
      /\ cancel.spent + cost <= faults'["hang"] * CallTimeout
  BY <1>0, FaultsUsed DEF SpentInv
<1>2. CASE cancel.tries + 1 < PatchSteps /\ cancel.spent + cost < TotalTimeout
  <2>1. cancel' = [cancel EXCEPT !.tries = cancel.tries + 1,
                                 !.spent = cancel.spent + cost]
    BY <1>2 DEF AttemptFails
  <2>2. /\ cancel'.pc = cancel.pc /\ cancel'.todo = cancel.todo
        /\ cancel'.found = cancel.found /\ cancel'.errs = cancel.errs
        /\ cancel'.tries = cancel.tries + 1
        /\ cancel'.spent = cancel.spent + cost
    BY <1>0, <2>1 DEF CancelStates
  <2>3. cancel'.errs # {} => UsedUp'
    BY <2>2, FaultsUsed DEF SpentInv
  <2> QED
    BY <1>1, <2>2, <2>3 DEF SpentInv
<1>3. CASE ~(cancel.tries + 1 < PatchSteps /\ cancel.spent + cost < TotalTimeout)
  <2>1. NextTarget(p, {p})
    BY <1>3 DEF AttemptFails
  <2>2. UsedUp'
    BY <1>0, <1>1, <1>3, FaultsUsed, Bounds DEF UsedUp
  <2> QED
    BY <2>1, <2>2, NextTargetShape, SpentFrame
<1> QED
  BY <1>2, <1>3

\* One request of the loop: the target has been asked, is gone, is noted as an
\* error, or is tried again.
LEMMA RequestStep ==
    ASSUME Types, [Next]_vars, SpentInv, patchDataDownloadCancel
    PROVE  /\ SpentInv'
           /\ \/ /\ NextTarget(Target, {}) /\ dds[Target] = NoDD /\ dds' = dds
              \/ /\ NextTarget(Target, {}) /\ dds[Target] # NoDD
                 /\ SetCancel(Target)
              \/ /\ NextTarget(Target, {Target}) /\ UsedUp'
                 /\ \/ dds' = dds
                    \/ dds[Target] # NoDD /\ SetCancel(Target)
              \/ /\ cancel'.pc = cancel.pc /\ cancel'.todo = cancel.todo
                 /\ cancel'.found = cancel.found /\ cancel'.errs = cancel.errs
                 /\ \/ dds' = dds
                    \/ dds[Target] # NoDD /\ SetCancel(Target)
<1>0. faults \in [FaultKinds -> Nat] /\ CallTimeout \in Nat
  BY Bounds DEF Types, RestTypes, BudgetTypes
<1>1. ASSUME NextTarget(Target, {})
      PROVE  SpentInv'
  BY <1>1, NextTargetShape, SpentFrame
<1>2. CASE AttemptFails(Target, 0) /\ Spend("patch") /\ UNCHANGED dds
  <2>1. /\ faults'["patch"] = faults["patch"] + 1
        /\ faults'["hang"] = faults["hang"]
    BY <1>0, <1>2 DEF Spend, FaultKinds
  <2>2. /\ faults'["patch"] + faults'["hang"]
               = faults["patch"] + faults["hang"] + 1
        /\ faults'["hang"] * CallTimeout = faults["hang"] * CallTimeout + 0
    BY <2>1, FaultsUsed
  <2> QED
    BY <1>2, <2>2, AttemptStep
<1>3. CASE AttemptFails(Target, CallTimeout) /\ Spend("hang")
           /\ (dds' = dds \/ (dds[Target] # NoDD /\ SetCancel(Target)))
  <2>1. /\ faults'["patch"] = faults["patch"]
        /\ faults'["hang"] = faults["hang"] + 1
    BY <1>0, <1>3 DEF Spend, FaultKinds
  <2>2. /\ faults'["patch"] + faults'["hang"]
               = faults["patch"] + faults["hang"] + 1
        /\ faults'["hang"] * CallTimeout
               = faults["hang"] * CallTimeout + CallTimeout
    BY <2>1, FaultsUsed, MoreHangs
  <2> QED
    BY <1>3, <2>2, AttemptStep
<1> QED
  BY <1>1, <1>2, <1>3 DEF patchDataDownloadCancel

LEMMA SpentStep ==
    ASSUME Types, [Next]_vars, SpentInv
    PROVE  SpentInv'
<1>0. cancel \in CancelStates
  BY DEF Types, RestTypes, CallTypes
<1>1. CASE cancel' = cancel \/ (cancel'.tries = 0 /\ cancel'.spent = 0
                                /\ cancel'.errs = {})
  BY <1>1, SpentFrame
<1>2. CASE CancelSteps
  <2>1. CASE patchDataDownloadCancel
    BY <2>1, RequestStep
  <2>2. CASE CancelReturns({})
    BY <1>1, <2>2 DEF CancelReturns, NoCancel
  <2>3. CASE cancel' = [cancel EXCEPT !.pc = "patch",
                                      !.todo = getDataDownloadsForVM,
                                      !.found = getDataDownloadsForVM]
    <3>1. /\ cancel'.tries = cancel.tries /\ cancel'.spent = cancel.spent
          /\ cancel'.errs = cancel.errs
      BY <1>0, <2>3 DEF CancelStates
    <3> QED
      BY <3>1, SpentFrame
  <2> QED
    BY <1>2, <2>1, <2>2, <2>3 DEF CancelSteps, CancelLookup
<1>3. CASE Timeout \/ Restart \/ RecreateRestore
  BY <1>1, <1>3 DEF Timeout, Restart, RecreateRestore, NoCancel
<1> QED
  BY <1>1, <1>2, <1>3
  DEF Next, vars, Execute, ProgressSteps, ProgressError, ProgressEmpty,
      ProgressFound, createDataDownload, DeleteDataDownload, PVCCancels, ControllerWorks,
      ControllerCancels, FlipBack, ClockTicks

\* What becomes of the DataDownloads while Cancel is in its loop: the flags stay
\* and what is gone stays away.
DisksStay ==
    /\ expected' \subseteq expected
    /\ \A p \in Disks : \/ dds'[p] = dds[p]
                        \/ dds'[p] = NoDD /\ p \notin expected'
                        \/ dds[p] = NoDD /\ p \in expected
                        \/ /\ dds[p] # NoDD /\ dds'[p] # NoDD
                           /\ dds[p].cancel => dds'[p].cancel

LEMMA CancelChanges ==
    ASSUME Types, NEW p \in Disks, dds[p] # NoDD, SetCancel(p)
    PROVE  /\ dds'[p] # NoDD /\ dds'[p].cancel
           /\ \A q \in Disks \ {p} : dds'[q] = dds[q]
<1>1. dds \in [Disks -> DDs]
  BY DEF Types, HoldTypes
<1>2. dds' = [dds EXCEPT ![p] = [dds[p] EXCEPT !.cancel = TRUE]]
  BY DEF SetCancel
<1>3. dds[p] \in [phase : Running \cup Terminal, cancel : BOOLEAN]
  BY <1>1 DEF DDs
<1>4. dds'[p].cancel
  BY <1>1, <1>2, <1>3
<1> QED
  BY <1>1, <1>2, <1>4 DEF NoDD

LEMMA NextDisks ==
    ASSUME Types, [Next]_vars, ~patchDataDownloadCancel, ~RecreateRestore
    PROVE  DisksStay
<1>0. dds \in [Disks -> DDs] /\ expected \subseteq Disks
  BY DEF Types, HoldTypes
<1>1. CASE UNCHANGED <<dds, expected>>
  BY <1>1 DEF DisksStay
<1>2. ASSUME NEW q \in Disks, createDataDownload(q)
      PROVE  DisksStay
  BY <1>0, <1>2 DEF createDataDownload, DisksStay
<1>3. ASSUME NEW q \in Disks, DeleteDataDownload(q)
      PROVE  DisksStay
  BY <1>0, <1>3 DEF DeleteDataDownload, DisksStay
<1>4. ASSUME NEW q \in Disks, ControllerWorks(q) \/ ControllerCancels(q)
      PROVE  DisksStay
  <2>1. dds[q].phase \in Running /\ UNCHANGED expected
    BY <1>4 DEF ControllerWorks, ControllerCancels
  <2>2. dds[q] \in [phase : Running \cup Terminal, cancel : BOOLEAN]
    BY <1>0, <2>1 DEF DDs, NoDD, Running
  <2>3. PICK ph \in Running \cup Terminal : dds' = [dds EXCEPT ![q].phase = ph]
    BY <1>4 DEF ControllerWorks, ControllerCancels, Running, Terminal
  <2>4. dds'[q].phase = ph /\ dds'[q].cancel = dds[q].cancel
    BY <1>0, <2>2, <2>3
  <2>5. dds[q] # NoDD /\ dds'[q] # NoDD
    BY <2>1, <2>4 DEF NoDD, Running, Terminal
  <2> QED
    BY <1>0, <2>1, <2>3, <2>4, <2>5 DEF DisksStay
<1>5. ASSUME NEW q \in Disks, PVCCancels(q)
      PROVE  DisksStay
  BY <1>5, CancelChanges DEF PVCCancels, setting, DisksStay
<1> QED
  BY <1>1, <1>2, <1>3, <1>4, <1>5
  DEF Next, vars, Execute, ProgressSteps, ProgressError, ProgressEmpty,
      ProgressFound, Timeout, CancelSteps, CancelLookup, FlipBack, ClockTicks,
      Restart

\* Cancel's requests are about DataDownloads of the VM.
LEMMA RequestIsAimed ==
    ASSUME Types, LoopInv, patchDataDownloadCancel
    PROVE  \A p \in OtherDisks : dds'[p] = dds[p]
<1>1. Target \in OwnDisks /\ dds \in [Disks -> DDs]
  BY DEF LoopInv, patchDataDownloadCancel, Types, RestTypes, CallTypes, Target,
         HoldTypes
<1>2. \A p \in OtherDisks : p \in Disks /\ p # Target
  BY <1>1, DisksAssumption DEF Disks
<1> QED
  BY <1>1, <1>2 DEF patchDataDownloadCancel, SetCancel

\* A request of the loop leaves nothing behind that it has neither asked nor
\* noted.
LEMMA LoopRequest ==
    ASSUME Types, [Next]_vars, SpentInv, LoopInv, patchDataDownloadCancel
    PROVE  /\ LoopInv'
           /\ cancel'.pc = "done" =>
                 \A p \in cancel.found : \/ dds'[p] = NoDD \/ dds'[p].cancel
                                         \/ p \in cancel'.errs
<1> DEFINE Asked(p) == \/ dds'[p] = NoDD \/ dds'[p].cancel \/ p \in cancel'.errs
<1>0. /\ cancel.pc = "patch" /\ Target \in cancel.todo
      /\ cancel.todo \subseteq cancel.found /\ cancel.found \subseteq Disks
      /\ cancel.found \subseteq OwnDisks
      /\ UNCHANGED expected
  BY DEF patchDataDownloadCancel, LoopInv, Types, RestTypes, CallTypes, Target,
         Disks
<1>1. \/ dds' = dds
      \/ dds[Target] # NoDD /\ SetCancel(Target)
  BY RequestStep
<1>2. \A p \in cancel.found : /\ dds'[p] = NoDD <=> dds[p] = NoDD
                              /\ dds[p].cancel => dds'[p].cancel
  BY <1>0, <1>1, CancelChanges
<1>3. \A p \in cancel.found : dds'[p] = NoDD => p \notin expected'
  BY <1>0, <1>2 DEF LoopInv
<1>4. cancel.errs \subseteq cancel'.errs
  BY RequestStep, NextTargetShape
<1>5. \A p \in cancel.found \ cancel.todo : Asked(p)
  BY <1>0, <1>2, <1>4 DEF LoopInv
<1>6. ASSUME NEW errs, NextTarget(Target, errs), Asked(Target)
      PROVE  /\ LoopInv'
             /\ cancel'.pc = "done" => \A p \in cancel.found : Asked(p)
  <2>1. CASE cancel.todo = {Target}
    BY <1>5, <1>6, <2>1, NextTargetShape DEF LoopInv
  <2>2. CASE cancel.todo # {Target}
    BY <1>0, <1>3, <1>5, <1>6, <2>2, NextTargetShape DEF LoopInv
  <2> QED
    BY <2>1, <2>2
<1>7. CASE NextTarget(Target, {})
           /\ (\/ dds[Target] = NoDD /\ dds' = dds
               \/ dds[Target] # NoDD /\ SetCancel(Target))
  BY <1>0, <1>6, <1>7, CancelChanges
<1>8. CASE NextTarget(Target, {Target})
  BY <1>6, <1>8, NextTargetShape
<1>9. CASE /\ cancel'.pc = cancel.pc /\ cancel'.todo = cancel.todo
           /\ cancel'.found = cancel.found /\ cancel'.errs = cancel.errs
  BY <1>0, <1>3, <1>5, <1>9 DEF LoopInv
<1> QED
  BY <1>7, <1>8, <1>9, RequestStep

LEMMA LoopStep ==
    ASSUME Types, [Next]_vars, SpentInv, LoopInv
    PROVE  LoopInv'
<1>1. CASE patchDataDownloadCancel
  BY <1>1, LoopRequest
<1>2. CASE cancel'.pc # "patch"
  BY <1>2 DEF LoopInv
<1>3. CASE cancel' = cancel /\ cancel.pc = "patch" /\ DisksStay
  <2>1. cancel.found \subseteq Disks
    BY <1>3 DEF LoopInv, Disks
  <2>2. ASSUME NEW p \in cancel.found
        PROVE  /\ dds'[p] = NoDD => p \notin expected'
               /\ p \notin cancel.todo =>
                     dds'[p] = NoDD \/ dds'[p].cancel \/ p \in cancel.errs
    <3>1. /\ dds[p] = NoDD => p \notin expected
          /\ p \notin cancel.todo =>
                dds[p] = NoDD \/ dds[p].cancel \/ p \in cancel.errs
      BY <1>3 DEF LoopInv
    <3>2. \/ dds'[p] = dds[p]
          \/ dds'[p] = NoDD /\ p \notin expected'
          \/ /\ dds[p] # NoDD /\ dds'[p] # NoDD
             /\ dds[p].cancel => dds'[p].cancel
      BY <1>3, <2>1, <3>1 DEF DisksStay
    <3>3. p \notin expected => p \notin expected'
      BY <1>3 DEF DisksStay
    <3>4. ~NoDD.cancel
      BY DEF NoDD
    <3> QED
      BY <3>1, <3>2, <3>3, <3>4
  <2> QED
    BY <1>3, <2>2 DEF LoopInv
<1>4. CASE CancelLookup
  <2>1. CASE cancel' = [cancel EXCEPT !.pc = "patch",
                                      !.todo = getDataDownloadsForVM,
                                      !.found = getDataDownloadsForVM]
    <3>1. /\ cancel'.todo = getDataDownloadsForVM
          /\ cancel'.found = getDataDownloadsForVM
      BY <2>1 DEF Types, RestTypes, CallTypes, CancelStates
    <3>2. dds' = dds /\ \A p \in getDataDownloadsForVM : dds[p] # NoDD
      BY <1>4 DEF CancelLookup, getDataDownloadsForVM, Present
    <3>3. getDataDownloadsForVM \subseteq OwnDisks
      BY DEF getDataDownloadsForVM
    <3> QED
      BY <3>1, <3>2, <3>3 DEF LoopInv
  <2>2. CASE CancelReturns({})
    BY <1>2, <2>2 DEF CancelReturns, NoCancel
  <2> QED
    BY <1>4, <2>1, <2>2 DEF CancelLookup
<1>5. CASE Timeout \/ RecreateRestore \/ Restart
  BY <1>2, <1>5 DEF Timeout, RecreateRestore, Restart, NoCancel
<1> QED
  BY <1>1, <1>2, <1>3, <1>4, <1>5, NextDisks
  DEF Next, vars, Execute, ProgressSteps, ProgressError, ProgressEmpty,
      ProgressFound, CancelSteps, createDataDownload, DeleteDataDownload, PVCCancels,
      ControllerWorks, ControllerCancels, FlipBack, ClockTicks

\* Cancel asks every DataDownload it has found, notes an error only when its
\* attempts or its time are used up by requests that failed, and asks none of
\* another VM, for any number of disks (Cancel and patchDataDownloadCancel).
THEOREM CancelReachesAll == Spec => CancelIsExact
<1> DEFINE Inv   == SpentInv /\ LoopInv
           Exact ==
             /\ cancel.pc = "patch" /\ cancel'.pc = "done" =>
                   \A p \in cancel.found : \/ dds'[p] = NoDD \/ dds'[p].cancel
                                           \/ p \in cancel'.errs
             /\ cancel'.errs # {} =>
                   \/ faults'["patch"] + faults'["hang"] >= PatchSteps
                   \/ faults'["hang"] * CallTimeout >= TotalTimeout
             /\ cancel.pc = "patch" /\ cancel' # cancel =>
                   \A p \in OtherDisks : dds'[p] = dds[p]
<1>1. Init => Inv
  <2> SUFFICES ASSUME Init PROVE Inv
    OBVIOUS
  <2>1. faults["patch"] = 0 /\ faults["hang"] = 0 /\ 0 * CallTimeout \in Nat
    BY MoreHangs DEF Init, FaultKinds
  <2>2. SpentInv
    BY <2>1 DEF Init, SpentInv, NoCancel
  <2> QED
    BY <2>2 DEF Init, LoopInv, NoCancel
<1>2. ASSUME Types, Inv, [Next]_vars PROVE Inv'
  BY <1>2, SpentStep, LoopStep
<1>3. ASSUME Types, Inv, [Next]_vars, Inv' PROVE Exact
  <2>1. ASSUME cancel.pc = "patch", cancel' # cancel
        PROVE  patchDataDownloadCancel \/ Restart
    BY <1>3, <2>1
    DEF Next, vars, Execute, ProgressSteps, ProgressError, ProgressEmpty,
        ProgressFound, Timeout, CancelSteps, CancelLookup, createDataDownload,
        DeleteDataDownload, PVCCancels, ControllerWorks, ControllerCancels,
        FlipBack, ClockTicks, RecreateRestore, Polled
  <2>2. CASE patchDataDownloadCancel
    BY <1>3, <2>2, LoopRequest, RequestIsAimed DEF SpentInv, UsedUp
  <2>3. CASE Restart
    BY <1>3, <2>3 DEF Restart, NoCancel, SpentInv, UsedUp
  <2> QED
    BY <1>3, <2>1, <2>2, <2>3 DEF SpentInv, UsedUp
<1>4. IInv /\ RestTypes => Types
  BY DEF IInv, Types
<1>5. Types /\ Inv /\ [Next]_vars /\ Inv' => Exact \/ UNCHANGED vars
  BY <1>3
<1> QED
  BY <1>1, <1>2, <1>4, <1>5, AllTypes, PTL DEF Spec, CancelIsExact
===============================================================================
