------------------------------ MODULE BackupCycle ------------------------------
(* A VM and its disks through backups, losses and restores.  What the backup   *)
(* plugins tell the restore plugins travels as annotations on the items of the *)
(* backup, and stays on what is restored from them: the next backup finds it   *)
(* there, whichever way that one takes the data.                               *)
(*                                                                             *)
(* A backup is one step: that the two backup plugins agree on the VM is what   *)
(* BackupItems is about.  The restore takes one step per item.                 *)
EXTENDS Naturals, Sequences

CONSTANTS
    Disks,        \* the PVCs
    Names,        \* names the VM may go by
    MaxBackups,   \* bound: backups taken
    MaxEdits,     \* bound: changes of the VM by its user
    MaxWrites     \* bound: versions of the data

Runs     == {"Always", "RerunOnFailure", "Once", "Manual", "Halted"}
Versions == 0..MaxWrites     \* 0: no volume yet

ASSUME CycleAssumption ==
    /\ Disks # {} /\ "vm" \notin Disks
    /\ Names # {} /\ "none" \notin Names
    /\ {MaxBackups, MaxEdits, MaxWrites} \subseteq Nat \ {0}

VARIABLES
    vm,        \* the VM in the cluster
    disks,     \* its PVCs
    backups,   \* the backups in the object store
    restore,   \* the restore in progress, or the last one
    restored,  \* have vm and disks come out of a restore? (ghost)
    edits      \* what is used of the bound

vars == <<vm, disks, backups, restore, restored, edits>>

\* upload: has it a DataUploadNameAnnotation?  stash: the two annotations of the
\* original run state, as a whole.  held: has this restore halted it?
VMStates == [present : BOOLEAN, name : Names, run : Runs, upload : BOOLEAN,
             stash : Runs \cup {"none"}, held : BOOLEAN]

\* stamp: AnnotationVMName.
DiskStates == [stamp : Names \cup {"none"}, data : Versions]

Backups == [mover : BOOLEAN, vm : VMStates, disks : [Disks -> DiskStates],
            fresh : BOOLEAN]

Downloads == {"none", "running", "Completed", "Failed"}

\* from: the backup, 0 if none.  todo: the items to come.  dds: DataDownloads.
Restores == [from : 0..MaxBackups, todo : SUBSET (Disks \cup {"vm"}),
             dds : [Disks -> Downloads]]

NoRestore == [from |-> 0, todo |-> {}, dds |-> [d \in Disks |-> "none"]]

Init ==
    /\ \E n \in Names, r \in Runs :
          vm = [present |-> TRUE, name |-> n, run |-> r, upload |-> FALSE,
                stash |-> "none", held |-> FALSE]
    /\ disks = [d \in Disks |-> [stamp |-> "none", data |-> 1]]
    /\ backups = << >> /\ restore = NoRestore
    /\ restored = FALSE /\ edits = 0

-------------------------------------------------------------------------------
(* Backup.                                                                     *)

\* Whether a Manual VM runs is its user's choice, and so is moving data at all.
MayBeEligible ==
    vm.present /\ vm.run # "Halted" /\ \A d \in Disks : disks[d].data # 0

\* Mutant: a stamp that is already there is kept.
KeepsOldStamp(d) == [disks[d] EXCEPT !.stamp = IF @ = "none" THEN vm.name ELSE @]

\* The items of the VM and of its PVCs, when the VM is eligible.
StampedVM      == [vm EXCEPT !.upload = TRUE]
StampedDisk(d) == [disks[d] EXCEPT !.stamp = vm.name]

\* Mutant: the VM's item is annotated before its eligibility is known.
AnnotatesFirst == [vm EXCEPT !.upload = TRUE]

\* The item of a VM that is not eligible: as it came.
UntouchedVM == vm

Store(b) == /\ Len(backups) < MaxBackups
            /\ backups' = Append(backups, b)
            /\ UNCHANGED <<vm, disks, restore, restored, edits>>

BackupByDataMover ==
    /\ MayBeEligible
    /\ Store([mover |-> TRUE, vm |-> StampedVM, fresh |-> ~restored,
              disks |-> [d \in Disks |-> StampedDisk(d)]])

\* By CSI snapshot, say: the plugins leave items and data to others.
BackupByOthers ==
    /\ vm.present
    /\ Store([mover |-> FALSE, vm |-> UntouchedVM, fresh |-> ~restored,
              disks |-> disks])

-------------------------------------------------------------------------------
(* Restore.                                                                    *)

From == backups[restore.from]

Lost == [d \in Disks |-> [stamp |-> "none", data |-> 0]]

\* The VM and its disks are lost, or removed to be restored.
Disaster ==
    /\ vm.present
    /\ vm' = [vm EXCEPT !.present = FALSE, !.held = FALSE]
    /\ disks' = Lost
    /\ restore' = NoRestore
    /\ UNCHANGED <<backups, restored, edits>>

StartRestore ==
    /\ ~vm.present /\ restore.from = 0
    /\ \E b \in DOMAIN backups :
          restore' = [NoRestore EXCEPT !.from = b, !.todo = Disks \cup {"vm"}]
    /\ restored' = TRUE
    /\ UNCHANGED <<vm, disks, backups, edits>>

\* The PVC plugin: a PVC with a stamp is stripped, and its data awaited from a
\* DataDownload; another one comes as its backup has it.
RestorePVC(d) ==
    LET item == From.disks[d] IN
    /\ d \in restore.todo
    /\ IF item.stamp # "none"
       THEN /\ disks' = [disks EXCEPT ![d] = [item EXCEPT !.data = 0]]
            /\ restore' = [restore EXCEPT !.todo = @ \ {d},
                                          !.dds[d] = "running"]
       ELSE /\ disks' = [disks EXCEPT ![d] = IF From.mover
                                             THEN [item EXCEPT !.data = 0]
                                             ELSE item]
            /\ restore' = [restore EXCEPT !.todo = @ \ {d}]
    /\ UNCHANGED <<vm, backups, restored, edits>>

\* Mutant: the run state is read when it is already overwritten.
StashesTooLate(item) ==
    [item EXCEPT !.present = TRUE, !.held = TRUE, !.run = "Halted",
                 !.stash = "Halted"]

\* haltVM.
Halted(item) == [item EXCEPT !.present = TRUE, !.held = TRUE, !.run = "Halted",
                             !.stash = item.run]

\* The run states in which a VM starts by itself.
autoStarts == {"Always", "RerunOnFailure", "Once"}

\* The VM plugin: a VM with the annotation is halted if it starts by itself.
RestoreVM ==
    LET item == From.vm IN
    /\ "vm" \in restore.todo
    /\ vm' = IF item.upload /\ item.run \in autoStarts
             THEN Halted(item)
             ELSE [item EXCEPT !.present = TRUE, !.held = FALSE]
    /\ restore' = [restore EXCEPT !.todo = @ \ {"vm"}]
    /\ UNCHANGED <<disks, backups, restored, edits>>

\* The controller finds the data of a backup by the name of the VM.
Download(d) ==
    /\ restore.dds[d] = "running"
    /\ IF From.mover /\ disks[d].stamp = From.vm.name
       THEN /\ disks' = [disks EXCEPT ![d].data = From.disks[d].data]
            /\ restore' = [restore EXCEPT !.dds[d] = "Completed"]
       ELSE /\ restore' = [restore EXCEPT !.dds[d] = "Failed"]
            /\ UNCHANGED disks
    /\ UNCHANGED <<vm, backups, restored, edits>>

\* It gives the VM its run state back.  Whether the stash stays is up to it.
FlipBack ==
    LET own == {d \in Disks : disks[d].stamp = vm.name} IN
    /\ vm.present /\ vm.held /\ own # {}
    /\ \A d \in own : restore.dds[d] = "Completed"
    /\ \E s \in {vm.stash, "none"} :
          vm' = [vm EXCEPT !.held = FALSE, !.run = vm.stash, !.stash = s]
    /\ UNCHANGED <<disks, backups, restore, restored, edits>>

-------------------------------------------------------------------------------
(* The VM's user, who waits for a restore to be over.                          *)

AtRest == vm.present /\ ~vm.held /\ restore.todo = {}
              /\ \A d \in Disks : restore.dds[d] # "running"

\* Another run strategy, or a new VM of another name on the same disks.
Edit ==
    /\ AtRest /\ edits < MaxEdits /\ edits' = edits + 1
    /\ \/ \E r \in Runs \ {vm.run} : vm' = [vm EXCEPT !.run = r]
       \/ \E n \in Names \ {vm.name} :
             vm' = [vm EXCEPT !.name = n, !.upload = FALSE, !.stash = "none"]
    /\ UNCHANGED <<disks, backups, restore, restored>>

\* The VM writes to its disks.
Write ==
    /\ AtRest /\ vm.run # "Halted"
    /\ \A d \in Disks : disks[d].data \in 1..(MaxWrites - 1)
    /\ disks' = [d \in Disks |-> [disks[d] EXCEPT !.data = @ + 1]]
    /\ UNCHANGED <<vm, backups, restore, restored, edits>>

-------------------------------------------------------------------------------
RestoreSteps == \/ \E d \in Disks : RestorePVC(d) \/ Download(d)
                \/ RestoreVM
                \/ FlipBack

Next ==
    \/ BackupByDataMover
    \/ BackupByOthers
    \/ Disaster
    \/ StartRestore
    \/ RestoreSteps
    \/ Edit
    \/ Write

Spec == Init /\ [][Next]_vars

\* A restore that has begun goes on, with the controller's part in it.
FairSpec == Spec /\ WF_vars(RestoreSteps)

-------------------------------------------------------------------------------
(* Properties.                                                                 *)

\* The types; and a VM that is held has a run state to return to.
TypeOK ==
    /\ vm \in VMStates
    /\ vm.held => vm.stash \in autoStarts
    /\ disks \in [Disks -> DiskStates]
    /\ backups \in Seq(Backups) /\ Len(backups) <= MaxBackups
    /\ restore \in Restores /\ restore.from <= Len(backups)
    /\ restored \in BOOLEAN /\ edits \in 0..MaxEdits

\* The VM as backup b has it, with all its data.
IsBack(b) ==
    /\ vm.present /\ ~vm.held
    /\ vm.name = backups[b].vm.name /\ vm.run = backups[b].vm.run
    /\ \A d \in Disks : disks[d].data = backups[b].disks[d].data

\* A backup of the data mover brings the VM back as it was, whatever earlier
\* backups and restores have left on the VM and its PVCs, also under another
\* name or run strategy, and also if disks or VM come first.
MoverBackupBringsBack ==
    \A b \in 1..MaxBackups :
        (/\ restore.from = b /\ backups[b].mover
         /\ restore.todo = Disks \cup {"vm"})
            ~> (restore.from # b \/ IsBack(b))

\* When such a restore comes to rest, the VM is back: the step that releases
\* the VM, or ends the last download, never leaves a PVC empty or filled by
\* another backup, or the VM in a run state that is not its own.
RestoreEndsBack ==
    [][\A b \in DOMAIN backups :
          (/\ restore.from = b /\ backups[b].mover /\ ~AtRest
           /\ restore'.from = b /\ AtRest')
              => IsBack(b)']_vars

\* A restore in which no VM is held and no PVC awaits a DataDownload.
LeftToOthers == ~vm.held /\ \A d \in Disks : restore.dds[d] = "none"

\* As long as nothing has been restored before, the plugins keep off a backup
\* that took the data by other means ...
FreshBackupsLeftToOthers ==
    restore.from # 0 /\ ~From.mover /\ From.fresh => LeftToOthers

\* ... and so they do with every backup, as the documents have it
\* (vm/restore.go: "Only intervene for VMs that were actually backed up via the
\* kubevirt datamover", README: "Recognizes PVCs backed up via the kubevirt
\* datamover").
BackupsLeftToOthers ==
    restore.from # 0 /\ ~From.mover => LeftToOthers

===============================================================================
