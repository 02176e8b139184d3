------------------------------- MODULE VMRestore ------------------------------
(* The VirtualMachine restore plugin, vm/restore.go.  Execute holds a VM that  *)
(* was backed up by the kubevirt data mover: it is restored halted, its run    *)
(* state stashed in annotations.  Progress aggregates the DataDownloads that   *)
(* the PVC plugin creates for the VM's disks, one by one and in its own time;  *)
(* it gives up when none appears within a grace period, measured in a          *)
(* package-level map.  Cancel passes the cancellation on to each DataDownload. *)
(*                                                                             *)
(* One VM in one Restore is modelled, with DataDownloads of other VMs and      *)
(* Restores around it.  Velero, the PVC plugin and the controller are          *)
(* external; the controller gives the VM its run state back once the           *)
(* DataDownloads of all its restored disks are completed.                      *)
EXTENDS Naturals, FiniteSets

CONSTANTS
    OwnDisks,     \* the VM's disks
    OtherDisks,   \* disks of another VM of the same Restore
    Grace,        \* firstDataDownloadGracePeriod, in clock ticks
    PatchSteps, TotalTimeout, CallTimeout,   \* as in VMBackup
    MaxFaults,    \* bound: failed requests of each kind
    MaxDeletes,   \* bound: DataDownloads deleted by third parties
    MaxRestarts,  \* bound: restarts of the plugin's process
    MaxRestores,  \* bound: Restores that go by the same name, one at a time
    EarlyDisks    \* may all DataDownloads be created before the first poll?
                  \* A set of the answers to consider

FaultKinds == {"list", "patch", "hang"}

ASSUME DisksAssumption == OwnDisks \cap OtherDisks = {}
ASSUME BoundsAssumption ==
    /\ {Grace, PatchSteps, MaxRestores} \subseteq Nat \ {0}
    /\ {TotalTimeout, CallTimeout, MaxDeletes, MaxRestarts} \subseteq Nat
    /\ MaxFaults \in [FaultKinds -> Nat]
    /\ EarlyDisks \subseteq BOOLEAN

Disks == OwnDisks \cup OtherDisks

VARIABLES
    vm,        \* the VM: as it was backed up, and as it is restored
    expected,  \* the disks with a kubevirt backup that this Restore includes
    early,     \* are they all created before the first poll?
    dds,       \* per disk, its DataDownload's phase and cancel flag
    op,        \* the operation: "none", "InProgress", "Completed", "Failed"
    anchor,    \* ticks since the entry of firstEmptyObservedAt was stored;
               \* NoEntry when there is none
    waited,    \* ticks since this operation first saw no DataDownload (ghost)
    cancel,    \* the Cancel call
    restores,  \* Restores of this name so far
    faults, deletes, restarts

budget  == <<faults, deletes, restarts>>
setting == <<expected, early, restores>>
vars    == <<vm, dds, op, anchor, waited, cancel, setting, budget>>

-------------------------------------------------------------------------------
(* Run states.                                                                 *)

Strategies == {"Always", "RerunOnFailure", "Once", "Manual", "Halted"}

\* spec.runStrategy and spec.running exclude each other.
Specs == [runStrategy : Strategies, running : {"unset"}]
         \cup [runStrategy : {"unset"}, running : {"unset", "true", "false"}]

NoStash == [source |-> "", value |-> ""]
Stashes == [source : {"", "runStrategy", "running"}, value : Strategies \cup {""}]

\* Mutant: a VM that runs once is taken for one that does not start.
OnceNeverStarts(strategy) == strategy \in {"Always", "RerunOnFailure"}

autoStarts(strategy) == strategy \in {"Always", "RerunOnFailure", "Once"}

\* Mutant: which of the two fields was set is forgotten.
SourceForgotten(spec) ==
    [source |-> "runStrategy",
     value |-> IF spec.running = "true" THEN "Always" ELSE spec.runStrategy]

\* What originalRunState reports of a VM that starts by itself: the bool is
\* normalised to a run strategy.
RunStateStash(spec) ==
    IF spec.runStrategy # "unset"
    THEN [source |-> "runStrategy", value |-> spec.runStrategy]
    ELSE [source |-> "running", value |-> "Always"]

running(spec) == \/ spec.runStrategy # "unset" /\ autoStarts(spec.runStrategy)
                 \/ spec.runStrategy = "unset" /\ spec.running = "true"

HaltedSpec == [runStrategy |-> "Halted", running |-> "unset"]

\* KubeVirt's own view: does the VM's controller create a launcher pod?
Starts(spec) == \/ spec.runStrategy \in {"Always", "RerunOnFailure", "Once"}
                \/ spec.running = "true"

\* The controller's half of the contract: the source picks the field, the value
\* is a run strategy.
SpecFromStash(stash) ==
    IF stash.source = "runStrategy"
    THEN [runStrategy |-> stash.value, running |-> "unset"]
    ELSE [runStrategy |-> "unset",
          running |-> IF stash.value = "Always" THEN "true" ELSE "false"]

-------------------------------------------------------------------------------
(* DataDownloads.                                                              *)

Running  == {"New", "InProgress", "Canceling"}
Terminal == {"Completed", "Failed", "Canceled"}

NoDD == [phase |-> "absent", cancel |-> FALSE]
DDs  == [phase : Running \cup Terminal, cancel : BOOLEAN] \cup {NoDD}

Present == {p \in Disks : dds[p] # NoDD}

\* The labels select this Restore's objects, the annotations this VM's.
getDataDownloadsForVM == Present \cap OwnDisks

NoEntry == Grace + 2
Tick(age) == IF age > Grace THEN age ELSE age + 1

NoCancel == [pc |-> "idle", todo |-> {}, tries |-> 0, spent |-> 0,
             found |-> {}, errs |-> {}]

Spend(kind) == /\ faults[kind] < MaxFaults[kind]
               /\ faults' = [faults EXCEPT ![kind] = @ + 1]
               /\ UNCHANGED <<deletes, restarts>>

Init ==
    /\ \E spec \in Specs, annotated \in BOOLEAN :
          vm = [backedUp |-> spec, annotated |-> annotated, spec |-> spec,
                stash |-> NoStash, stage |-> "pending"]
    /\ expected \in SUBSET Disks /\ early \in EarlyDisks
    /\ dds = [p \in Disks |-> NoDD]
    /\ op = "none" /\ anchor = NoEntry /\ waited = NoEntry
    /\ cancel = NoCancel /\ restores = 1
    /\ faults = [k \in FaultKinds |-> 0] /\ deletes = 0 /\ restarts = 0

-------------------------------------------------------------------------------
(* Execute, and haltVM.                                                        *)

Execute ==
    /\ vm.stage = "pending"
    /\ IF vm.annotated /\ running(vm.backedUp)
       THEN /\ vm' = [vm EXCEPT !.spec = HaltedSpec, !.stage = "held",
                                !.stash = RunStateStash(vm.backedUp)]
            /\ op' = "InProgress"
       ELSE /\ vm' = [vm EXCEPT !.stage = "restored"]
            /\ UNCHANGED op
    /\ UNCHANGED <<dds, anchor, waited, cancel, setting, budget>>

-------------------------------------------------------------------------------
(* Progress.                                                                   *)

\* An operation is polled until it is completed.  Velero turns to a Restore's
\* operations when it has been through all its items; the code does not rely on
\* that, and the PVC plugin may also be late.
Polled == /\ op = "InProgress" /\ cancel.pc = "idle"
          /\ early => \A p \in expected : dds[p] # NoDD

\* The list fails: Progress returns the error, and Velero fails the operation.
ProgressError ==
    /\ Polled /\ Spend("list")
    /\ op' = "Failed"
    /\ UNCHANGED <<vm, dds, anchor, waited, cancel, setting>>

\* Mutant: the time is stored afresh at every poll.
StoredAfresh == 0

\* LoadOrStore: the age of the entry, which is stored now if there is none.
FirstSeen == IF anchor = NoEntry THEN 0 ELSE anchor

\* No DataDownload yet: note the time, or give up after the grace period.
ProgressEmpty ==
    /\ Polled /\ getDataDownloadsForVM = {}
    /\ IF FirstSeen > Grace
       THEN anchor' = NoEntry /\ op' = "Failed"
       ELSE anchor' = FirstSeen /\ UNCHANGED op
    /\ waited' = IF waited = NoEntry THEN 0 ELSE waited
    /\ UNCHANGED <<vm, dds, cancel, setting, budget>>

\* Mutant: what has completed decides, whatever became of the others.
AnyCompleted(found) ==
    IF \E p \in found : dds[p].phase = "Completed" THEN "Completed"
    ELSE "InProgress"

\* One failure is enough to fail, success takes all of them.
Aggregate(found) ==
    IF \E p \in found : dds[p].phase \in {"Failed", "Canceled"} THEN "Failed"
    ELSE IF \A p \in found : dds[p].phase = "Completed" THEN "Completed"
    ELSE "InProgress"

\* Mutant: the entry is left behind when DataDownloads appear.
EntryStays == UNCHANGED anchor

DropEntry == anchor' = NoEntry

ProgressFound ==
    /\ Polled /\ getDataDownloadsForVM # {}
    /\ op' = Aggregate(getDataDownloadsForVM)
    /\ DropEntry /\ waited' = NoEntry
    /\ UNCHANGED <<vm, dds, cancel, setting, budget>>

-------------------------------------------------------------------------------
(* Cancel.                                                                     *)

\* Velero's operation timeout: Cancel is called once, its error ignored.
Timeout ==
    /\ Polled
    /\ cancel' = [NoCancel EXCEPT !.pc = "list"]
    /\ DropEntry
    /\ UNCHANGED <<vm, dds, op, waited, setting, budget>>

CancelReturns(errs) ==
    /\ cancel' = [NoCancel EXCEPT !.pc = "done", !.errs = errs]
    /\ op' = "Failed"

CancelLookup ==
    /\ cancel.pc = "list"
    /\ \/ /\ getDataDownloadsForVM = {} /\ CancelReturns({})
          /\ UNCHANGED budget
       \/ /\ getDataDownloadsForVM # {}
          /\ cancel' = [cancel EXCEPT !.pc = "patch",
                                      !.todo = getDataDownloadsForVM,
                                      !.found = getDataDownloadsForVM]
          /\ UNCHANGED <<op, budget>>
       \/ CancelReturns({}) /\ Spend("list")
    /\ UNCHANGED <<vm, dds, anchor, waited, setting>>

\* On to the next DataDownload, with the error noted if there was one.
NextTarget(p, errs) ==
    IF cancel.todo = {p}
    THEN CancelReturns(cancel.errs \cup errs)
    ELSE /\ cancel' = [cancel EXCEPT !.todo = @ \ {p}, !.tries = 0, !.spent = 0,
                                     !.errs = @ \cup errs]
         /\ UNCHANGED op

\* Mutant: the first DataDownload that cannot be canceled ends the call.
StopAtFirstError(p, cost) == CancelReturns({p})

\* A failed attempt: another one while steps and time are left.  Of the errors
\* that are not retried, NotFound is a case of its own below, and Invalid does
\* not come of a patch that sets one flag.
AttemptFails(p, cost) ==
    IF cancel.tries + 1 < PatchSteps /\ cancel.spent + cost < TotalTimeout
    THEN /\ cancel' = [cancel EXCEPT !.tries = @ + 1, !.spent = @ + cost]
         /\ UNCHANGED op
    ELSE NextTarget(p, {p})

SetCancel(p) == dds' = [dds EXCEPT ![p].cancel = TRUE]

\* The DataDownload the loop is at.
Target == CHOOSE p \in cancel.todo : TRUE

patchDataDownloadCancel ==
    /\ cancel.pc = "patch"
    /\ \/ /\ dds[Target] = NoDD /\ NextTarget(Target, {})
          /\ UNCHANGED <<dds, budget>>
       \/ /\ dds[Target] # NoDD /\ SetCancel(Target) /\ NextTarget(Target, {})
          /\ UNCHANGED budget
       \/ /\ AttemptFails(Target, 0) /\ Spend("patch")
          /\ UNCHANGED dds
       \/ /\ AttemptFails(Target, CallTimeout) /\ Spend("hang")
          /\ \/ dds[Target] # NoDD /\ SetCancel(Target)
             \/ UNCHANGED dds
    /\ UNCHANGED <<vm, anchor, waited, setting>>

-------------------------------------------------------------------------------
(* The environment.                                                            *)

\* The PVC plugin's createDataDownload for a disk, sooner or later.  It does not
\* look at the VM: the disk's own annotation tells that it has a backup.
createDataDownload(p) ==
    /\ p \in expected /\ dds[p] = NoDD
    /\ dds' = [dds EXCEPT ![p] = [phase |-> "New", cancel |-> FALSE]]
    /\ UNCHANGED <<vm, op, anchor, waited, cancel, setting, budget>>

\* A third party deletes a DataDownload: its disk is given up.
DeleteDataDownload(p) ==
    /\ dds[p] # NoDD /\ deletes < MaxDeletes
    /\ deletes' = deletes + 1
    /\ dds' = [dds EXCEPT ![p] = NoDD]
    /\ expected' = expected \ {p}
    /\ UNCHANGED <<vm, early, op, anchor, waited, cancel, restores, faults,
                   restarts>>

\* The PVC plugin's Cancel, when the disk's own operation times out.
PVCCancels(p) ==
    /\ dds[p] # NoDD /\ SetCancel(p)
    /\ UNCHANGED <<vm, op, anchor, waited, cancel, setting, budget>>

\* The controller moves a DataDownload to its end, or reacts to the flag.
ControllerWorks(p) ==
    /\ dds[p].phase \in Running
    /\ \E ph \in {"InProgress", "Completed", "Failed"} :
          /\ ph = "InProgress" => dds[p].phase = "New"
          /\ dds' = [dds EXCEPT ![p].phase = ph]
    /\ UNCHANGED <<vm, op, anchor, waited, cancel, setting, budget>>

ControllerCancels(p) ==
    /\ dds[p].cancel /\ dds[p].phase \in Running
    /\ dds' = [dds EXCEPT ![p].phase = IF @ = "InProgress" THEN "Canceling"
                                                           ELSE "Canceled"]
    /\ UNCHANGED <<vm, op, anchor, waited, cancel, setting, budget>>

FlipBack ==
    /\ vm.stage = "held"
    /\ expected \cap OwnDisks # {}
    /\ \A p \in expected \cap OwnDisks : dds[p].phase = "Completed"
    /\ vm' = [vm EXCEPT !.stage = "released", !.spec = SpecFromStash(vm.stash)]
    /\ UNCHANGED <<dds, op, anchor, waited, cancel, setting, budget>>

ClockTicks ==
    /\ \/ anchor # NoEntry /\ anchor <= Grace
       \/ waited # NoEntry /\ waited <= Grace
    /\ anchor' = IF anchor = NoEntry THEN anchor ELSE Tick(anchor)
    /\ waited' = IF waited = NoEntry THEN waited ELSE Tick(waited)
    /\ UNCHANGED <<vm, dds, op, cancel, setting, budget>>

\* The plugin's process restarts: the map and a Cancel in flight are gone.
Restart ==
    /\ restarts < MaxRestarts
    /\ restarts' = restarts + 1
    /\ anchor' = NoEntry
    /\ cancel' = IF cancel.pc \in {"list", "patch"} THEN NoCancel ELSE cancel
    /\ UNCHANGED <<vm, dds, op, waited, setting, faults, deletes>>

\* The Restore is deleted, with what it owns and what it restored, and another
\* one of the same name is started.  Nobody tells the plugin's process.
RecreateRestore ==
    /\ restores < MaxRestores /\ op # "none"
    /\ cancel.pc \in {"idle", "done"}
    /\ restores' = restores + 1
    /\ expected' \in SUBSET Disks /\ early' \in EarlyDisks
    /\ vm' = [vm EXCEPT !.spec = vm.backedUp, !.stash = NoStash,
                        !.stage = "pending"]
    /\ dds' = [p \in Disks |-> NoDD]
    /\ op' = "none" /\ waited' = NoEntry /\ cancel' = NoCancel
    /\ UNCHANGED <<anchor, budget>>

-------------------------------------------------------------------------------
ProgressSteps == ProgressError \/ ProgressEmpty \/ ProgressFound
CancelSteps   == CancelLookup \/ patchDataDownloadCancel

Next ==
    \/ Execute
    \/ ProgressSteps
    \/ Timeout
    \/ CancelSteps
    \/ \E p \in Disks : \/ createDataDownload(p)
                        \/ DeleteDataDownload(p)
                        \/ PVCCancels(p)
                        \/ ControllerWorks(p)
                        \/ ControllerCancels(p)
    \/ FlipBack
    \/ ClockTicks
    \/ Restart
    \/ RecreateRestore

Spec == Init /\ [][Next]_vars

\* Velero polls an operation that is in progress and lets a Cancel call run to
\* its end; the clock does not stand still.  No request has to fail for that: a
\* failing one is no step that fairness could ask for.
PluginFairness ==
    /\ WF_vars(ProgressEmpty \/ ProgressFound)
    /\ WF_vars(CancelSteps /\ UNCHANGED faults)
    /\ WF_vars(ClockTicks)

\* The controller brings each DataDownload to an end and heeds the flag.
ControllerFairness ==
    \A p \in Disks : WF_vars(ControllerWorks(p)) /\ WF_vars(ControllerCancels(p))

\* Where Velero turns to the operations last, it gets through the items first.
ItemsFairness == \A p \in Disks : WF_vars(early /\ createDataDownload(p))

Fairness == PluginFairness /\ ControllerFairness /\ ItemsFairness

FairSpec == Spec /\ Fairness

-------------------------------------------------------------------------------
(* Properties.                                                                 *)

TypeOK ==
    /\ vm \in [backedUp : Specs, annotated : BOOLEAN, spec : Specs,
               stash : Stashes, stage : {"pending", "held", "restored", "released"}]
    /\ expected \subseteq Disks /\ early \in BOOLEAN /\ dds \in [Disks -> DDs]
    /\ op \in {"none", "InProgress", "Completed", "Failed"}
    /\ {anchor, waited} \subseteq 0..NoEntry
    /\ cancel \in [pc : {"idle", "list", "patch", "done"}, todo : SUBSET Disks,
                   tries : 0..(PatchSteps - 1), spent : 0..TotalTimeout,
                   found : SUBSET Disks, errs : SUBSET Disks]
    /\ restores \in 1..MaxRestores
    /\ faults \in [FaultKinds -> Nat] /\ deletes \in Nat /\ restarts \in Nat

\* The race the plugin exists to close (RestorePlugin: "halts a
\* kubevirt-datamover-backed VM at restore time"): once restored, such a VM can
\* start only after the data of all its restored disks is in place.
NoStartBeforeData ==
    vm.stage # "pending" /\ vm.annotated /\ Starts(vm.spec) =>
        \A p \in expected \cap OwnDisks : dds[p].phase = "Completed"

\* haltVM loses nothing: what the controller makes of the stash is the run
\* state the VM was backed up with, in the field it was kept in.
ReleaseRestoresRunState ==
    vm.stage = "released" => vm.spec = vm.backedUp

\* A Restore that counts on the operation's success has all the VM's data: every
\* disk that the Restore includes is completed, not just the ones seen so far,
\* as long as no poll comes before the DataDownloads exist
\* (Progress: "All DataDownloads for this VM completed").
SuccessMeansAllData ==
    early /\ op = "Completed" =>
        \A p \in expected \cap OwnDisks : dds[p].phase = "Completed"

\* Progress gives the operation up without a failed request and without Cancel.
GivesUp == /\ op = "InProgress" /\ op' = "Failed"
           /\ cancel.pc = "idle" /\ UNCHANGED faults

\* The grace period bounds "how long Progress will wait, per operation": an
\* operation is given up only for the failure of a disk of this very VM, or when
\* it has itself been without any DataDownload that long, whatever restarts,
\* deletions and DataDownloads of other VMs came between; for the first Restore
\* of a name, as a later one may find an entry of the first in the map.
GraceIsGranted ==
    [][GivesUp /\ restores = 1 =>
           \/ \E p \in OwnDisks : dds[p].phase \in {"Failed", "Canceled"}
           \/ waited # NoEntry /\ waited > Grace]_vars

\* Cancel asks each DataDownload it has found to stop, even when the patch of a
\* sibling fails for good, which takes all the attempts or all the time; it
\* leaves the DataDownloads of other VMs alone.
CancelIsExact ==
    [][/\ cancel.pc = "patch" /\ cancel'.pc = "done" =>
              \A p \in cancel.found : \/ dds'[p] = NoDD \/ dds'[p].cancel
                                      \/ p \in cancel'.errs
       /\ cancel'.errs # {} => \/ faults'["patch"] + faults'["hang"] >= PatchSteps
                              \/ faults'["hang"] * CallTimeout >= TotalTimeout
       /\ cancel.pc = "patch" /\ cancel' # cancel =>
              \A p \in OtherDisks : dds'[p] = dds[p]]_vars

\* No operation waits forever: not for a DataDownload that never appears, and
\* not on a grace period that restarts and deleted DataDownloads begin anew.
OperationSettles == (op = "InProgress") ~> (op # "InProgress")

===============================================================================
