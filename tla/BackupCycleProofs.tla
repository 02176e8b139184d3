-------------------------- MODULE BackupCycleProofs ---------------------------
(* Proofs about BackupCycle, for every value of its constants: its type        *)
(* invariant, and that the plugins keep off the backups others took of a VM    *)
(* that never was restored.                                                    *)
EXTENDS BackupCycle, TLAPS

-------------------------------------------------------------------------------
(* The invariant.                                                              *)

\* Only a restore that has begun has items to restore, DataDownloads, and a VM
\* to hold; and what a restore brings is not fresh.
RestoreInv ==
    /\ restore.from = 0 => /\ restore.todo = {}
                           /\ \A d \in Disks : restore.dds[d] = "none"
                           /\ ~vm.held
    /\ restore.from # 0 => restored
    /\ ~vm.present => ~vm.held

NoMarks(v, ds) == ~v.upload /\ \A d \in Disks : ds[d].stamp = "none"

\* The plugins' annotations come from a restore, or from the data mover.
MarksInv ==
    /\ ~restored => NoMarks(vm, disks)
    /\ \A i \in DOMAIN backups :
          backups[i].fresh /\ ~backups[i].mover
              => NoMarks(backups[i].vm, backups[i].disks)

IInv == TypeOK /\ RestoreInv /\ MarksInv /\ FreshBackupsLeftToOthers

-------------------------------------------------------------------------------
(* Lemmas.                                                                     *)

LEMMA Bounds ==
    /\ MaxBackups \in Nat /\ MaxEdits \in Nat /\ MaxWrites \in Nat
    /\ MaxWrites # 0
  BY CycleAssumption

LEMMA InitIInv == Init => IInv
  <1> SUFFICES ASSUME Init PROVE IInv
      OBVIOUS
  <1>1. /\ vm \in VMStates /\ vm.present /\ ~vm.held /\ ~vm.upload
        BY DEF Init, VMStates
  <1>2. /\ disks \in [Disks -> DiskStates]
        /\ \A d \in Disks : disks[d].stamp = "none"
        BY Bounds DEF Init, DiskStates, Versions
  <1>3. /\ restore \in Restores /\ restore.from = 0 /\ restore.todo = {}
        /\ \A d \in Disks : restore.dds[d] = "none"
        BY Bounds DEF Init, NoRestore, Restores, Downloads
  <1>4. backups = << >> /\ backups \in Seq(Backups) /\ Len(backups) = 0
        BY DEF Init
  <1>5. TypeOK
    <2>1. restored \in BOOLEAN /\ edits \in 0..MaxEdits
      <3>1. restored \in BOOLEAN
            BY DEF Init
      <3>2. edits \in 0..MaxEdits
            BY Bounds DEF Init
      <3> QED BY <3>1, <3>2
    <2>2. Len(backups) <= MaxBackups /\ restore.from <= Len(backups)
          BY <1>3, <1>4, Bounds
    <2> QED BY <1>1, <1>2, <1>3, <1>4, <2>1, <2>2 DEF TypeOK
  <1>6. RestoreInv /\ MarksInv /\ FreshBackupsLeftToOthers
        BY <1>1, <1>2, <1>3, <1>4
        DEF Init, RestoreInv, MarksInv, NoMarks, FreshBackupsLeftToOthers
  <1> QED BY <1>5, <1>6 DEF IInv

\* A PVC whose data changes keeps its stamp.
LEMMA DataChanged ==
  ASSUME NEW item \in DiskStates, NEW v \in Versions
  PROVE  /\ [item EXCEPT !.data = v] \in DiskStates
         /\ [item EXCEPT !.data = v].stamp = item.stamp
  BY DEF DiskStates

\* A backup that is stored leaves the earlier ones where they are.
LEMMA StoreKeeps ==
  ASSUME NEW b \in Backups, IInv, Store(b),
         b.fresh /\ ~b.mover => NoMarks(b.vm, b.disks)
  PROVE  IInv'
  <1>1. /\ backups' \in Seq(Backups) /\ Len(backups') = Len(backups) + 1
        /\ \A i \in 1..Len(backups) : backups'[i] = backups[i]
        /\ backups'[Len(backups) + 1] = b
        /\ Len(backups') <= MaxBackups
        BY Bounds DEF IInv, TypeOK, Store
  <1>2. DOMAIN backups = 1..Len(backups) /\ Len(backups) \in Nat
        /\ DOMAIN backups' = 1..(Len(backups) + 1)
        BY <1>1 DEF IInv, TypeOK
  <1>3. UNCHANGED <<vm, disks, restore, restored, edits>>
        BY DEF Store
  <1>4. TypeOK'
    <2>1. restore.from \in Nat
          BY Bounds DEF IInv, TypeOK, Restores
    <2>2. restore.from <= Len(backups')
          BY <1>1, <1>2, <2>1 DEF IInv, TypeOK
    <2>3. /\ vm' \in VMStates /\ (vm.held => vm.stash \in autoStarts)'
          /\ disks' \in [Disks -> DiskStates] /\ restore' \in Restores
          /\ restored' \in BOOLEAN /\ edits' \in 0..MaxEdits
          BY <1>3, Zenon DEF IInv, TypeOK
    <2>4. restore'.from <= Len(backups')
          BY <1>3, <2>2
    <2> QED BY <1>1, <2>3, <2>4, Zenon DEF TypeOK
  <1>5. RestoreInv'
        BY <1>3 DEF IInv, RestoreInv
  <1>6. MarksInv'
    <2>1. (~restored => NoMarks(vm, disks))'
          BY <1>3 DEF IInv, MarksInv, NoMarks
    <2>2. ASSUME NEW i \in DOMAIN backups',
                 backups'[i].fresh, ~backups'[i].mover
          PROVE  NoMarks(backups'[i].vm, backups'[i].disks)
      <3>1. CASE i = Len(backups) + 1
            BY <3>1, <2>2, <1>1
      <3>2. CASE i \in 1..Len(backups)
            BY <3>2, <2>2, <1>1, <1>2 DEF IInv, MarksInv
      <3> QED BY <3>1, <3>2, <1>2, <2>2
    <2> QED BY <2>1, <2>2 DEF MarksInv, NoMarks
  <1>7. FreshBackupsLeftToOthers'
    <2>1. restore.from # 0 => From' = From
      <3>1. restore.from # 0 => restore.from \in 1..Len(backups)
            BY <1>2, Bounds DEF IInv, TypeOK, Restores
      <3> QED BY <1>1, <1>3, <3>1 DEF From
    <2> QED BY <2>1, <1>3
            DEF IInv, FreshBackupsLeftToOthers, LeftToOthers
  <1> QED BY <1>4, <1>5, <1>6, <1>7 DEF IInv

\* The items of the backup that is restored.
LEMMA ItemsTyped ==
  ASSUME IInv, restore.from # 0
  PROVE  /\ From \in Backups /\ restored
         /\ From.fresh /\ ~From.mover => NoMarks(From.vm, From.disks)
  <1>1. restore.from \in 1..Len(backups)
        BY Bounds DEF IInv, TypeOK, Restores
  <1> QED BY <1>1 DEF IInv, TypeOK, From, MarksInv, RestoreInv

LEMMA RestorePVCKeeps ==
  ASSUME IInv, NEW d \in Disks, RestorePVC(d)
  PROVE  IInv'
  <1> DEFINE item == From.disks[d]
  <1>1. restore.from # 0 /\ restore'.from = restore.from
        BY DEF IInv, RestoreInv, RestorePVC, TypeOK, Restores
  <1>2. /\ item \in DiskStates /\ restored
        /\ From.fresh /\ ~From.mover => item.stamp = "none"
        BY <1>1, ItemsTyped DEF Backups, NoMarks
  <1>3. disks' \in [Disks -> DiskStates]
    <2>1. 0 \in Versions
          BY Bounds DEF Versions
    <2>2. [item EXCEPT !.data = 0] \in DiskStates
          BY <1>2, <2>1, DataChanged
    <2> HIDE DEF item
    <2> QED BY <1>2, <2>2 DEF RestorePVC, item, IInv, TypeOK
  <1>4. /\ restore' \in Restores
        /\ item.stamp = "none" => restore'.dds = restore.dds
    <2>1. \/ restore' = [restore EXCEPT !.todo = @ \ {d}]
          \/ restore' = [restore EXCEPT !.todo = @ \ {d}, !.dds[d] = "running"]
          BY DEF RestorePVC
    <2>2. item.stamp = "none" =>
             restore' = [restore EXCEPT !.todo = @ \ {d}]
          BY DEF RestorePVC
    <2>3. CASE restore' = [restore EXCEPT !.todo = @ \ {d}]
          BY <2>3 DEF IInv, TypeOK, Restores
    <2>4. CASE restore' = [restore EXCEPT !.todo = @ \ {d},
                                          !.dds[d] = "running"]
      <3>1. restore' \in Restores
            BY <2>4 DEF IInv, TypeOK, Restores, Downloads
      <3>2. CASE item.stamp = "none"
            BY <2>2, <2>3, <3>2
      <3> QED BY <3>1, <3>2
    <2> QED BY <2>1, <2>3, <2>4
  <1>5. TypeOK'
        BY <1>1, <1>3, <1>4 DEF RestorePVC, IInv, TypeOK
  <1>6. RestoreInv' /\ MarksInv'
        BY <1>1, <1>2 DEF RestorePVC, IInv, RestoreInv, MarksInv, NoMarks
  <1>7. FreshBackupsLeftToOthers'
        BY <1>1, <1>2, <1>4
        DEF RestorePVC, IInv, FreshBackupsLeftToOthers, LeftToOthers, From
  <1> QED BY <1>5, <1>6, <1>7 DEF IInv

LEMMA RestoreVMKeeps ==
  ASSUME IInv, RestoreVM
  PROVE  IInv'
  <1> DEFINE item == From.vm
  <1>1. /\ restore.from # 0 /\ restore'.from = restore.from
        /\ restore'.dds = restore.dds
        BY DEF IInv, RestoreInv, RestoreVM, TypeOK, Restores
  <1>2. /\ item \in VMStates /\ restored
        /\ From.fresh /\ ~From.mover => ~item.upload
        BY <1>1, ItemsTyped DEF Backups, NoMarks
  <1>3. /\ vm' \in VMStates /\ vm'.present
        /\ vm'.held => item.upload /\ vm'.stash \in autoStarts
        BY <1>2 DEF RestoreVM, Halted, VMStates, autoStarts, Runs
  <1>4. restore' \in Restores
        BY DEF RestoreVM, IInv, TypeOK, Restores
  <1>5. TypeOK'
        BY <1>1, <1>3, <1>4 DEF RestoreVM, IInv, TypeOK
  <1>6. RestoreInv' /\ MarksInv'
        BY <1>1, <1>2, <1>3
        DEF RestoreVM, IInv, RestoreInv, MarksInv, NoMarks
  <1>7. FreshBackupsLeftToOthers'
        BY <1>1, <1>2, <1>3
        DEF RestoreVM, IInv, FreshBackupsLeftToOthers, LeftToOthers, From
  <1> QED BY <1>5, <1>6, <1>7 DEF IInv

LEMMA DownloadKeeps ==
  ASSUME IInv, NEW d \in Disks, Download(d)
  PROVE  IInv'
  <1>1. restore.from # 0 /\ restore'.from = restore.from
        BY DEF IInv, RestoreInv, Download, TypeOK, Restores
  <1>2. /\ From \in Backups /\ restored
        /\ ~(From.fresh /\ ~From.mover)
        BY <1>1, ItemsTyped
        DEF IInv, FreshBackupsLeftToOthers, LeftToOthers, Download
  <1>3. /\ disks' \in [Disks -> DiskStates]
        /\ restore' \in Restores
    <2>1. From.disks[d].data \in Versions
          BY <1>2 DEF Backups, DiskStates
    <2>2. [disks[d] EXCEPT !.data = From.disks[d].data] \in DiskStates
          BY <2>1, DataChanged DEF IInv, TypeOK
    <2>3. disks' \in [Disks -> DiskStates]
          BY <2>2 DEF Download, IInv, TypeOK
    <2>4. restore' \in Restores
          BY DEF Download, IInv, TypeOK, Restores, Downloads
    <2> QED BY <2>3, <2>4
  <1>4. TypeOK'
        BY <1>1, <1>3 DEF Download, IInv, TypeOK
  <1>5. RestoreInv' /\ MarksInv'
        BY <1>1, <1>2 DEF Download, IInv, RestoreInv, MarksInv, NoMarks
  <1>6. FreshBackupsLeftToOthers'
        BY <1>1, <1>2
        DEF Download, IInv, FreshBackupsLeftToOthers, From
  <1> QED BY <1>4, <1>5, <1>6 DEF IInv

-------------------------------------------------------------------------------
LEMMA NextIInv ==
  ASSUME IInv, [Next]_vars
  PROVE  IInv'
  <1>1. CASE BackupByDataMover
    <2> DEFINE b == [mover |-> TRUE, vm |-> StampedVM, fresh |-> ~restored,
                     disks |-> [d \in Disks |-> StampedDisk(d)]]
    <2>1. StampedVM \in VMStates /\ \A d \in Disks : StampedDisk(d) \in DiskStates
          BY DEF IInv, TypeOK, StampedVM, StampedDisk, VMStates, DiskStates
    <2>2. b \in Backups
          BY <2>1 DEF Backups, IInv, TypeOK
    <2>3. Store(b) /\ b.mover
          BY <1>1 DEF BackupByDataMover
    <2> HIDE DEF b
    <2> QED BY <2>2, <2>3, StoreKeeps
  <1>2. CASE BackupByOthers
    <2> DEFINE b == [mover |-> FALSE, vm |-> UntouchedVM, fresh |-> ~restored,
                     disks |-> disks]
    <2>1. b \in Backups
          BY DEF Backups, IInv, TypeOK, UntouchedVM
    <2>2. b.fresh => NoMarks(b.vm, b.disks)
          BY DEF IInv, MarksInv, NoMarks, UntouchedVM
    <2>3. Store(b)
          BY <1>2 DEF BackupByOthers
    <2> HIDE DEF b
    <2> QED BY <2>1, <2>2, <2>3, StoreKeeps
  <1>3. CASE Disaster
    <2>1. /\ vm' \in VMStates /\ ~vm'.held /\ vm'.upload = vm.upload
          /\ disks' \in [Disks -> DiskStates]
          /\ \A d \in Disks : disks'[d].stamp = "none"
      <3>1. 0 \in Versions
            BY Bounds DEF Versions
      <3> QED BY <1>3, <3>1
              DEF Disaster, IInv, TypeOK, VMStates, Lost, DiskStates
    <2>2. UNCHANGED <<backups, restored, edits>>
          BY <1>3 DEF Disaster
    <2>3. /\ restore' \in Restores /\ restore'.from = 0 /\ restore'.todo = {}
          /\ \A d \in Disks : restore'.dds[d] = "none"
          BY <1>3, Bounds
          DEF Disaster, NoRestore, Restores, Downloads
    <2>4. restore'.from <= Len(backups)
          BY <2>3 DEF IInv, TypeOK
    <2>5. TypeOK'
          BY <2>1, <2>2, <2>3, <2>4 DEF IInv, TypeOK
    <2>6. RestoreInv' /\ MarksInv' /\ FreshBackupsLeftToOthers'
          BY <2>1, <2>2, <2>3 DEF IInv, RestoreInv, MarksInv, NoMarks,
                            FreshBackupsLeftToOthers
    <2> QED BY <2>5, <2>6 DEF IInv
  <1>4. CASE StartRestore
    <2>1. PICK b \in DOMAIN backups :
             restore' = [NoRestore EXCEPT !.from = b, !.todo = Disks \cup {"vm"}]
          BY <1>4 DEF StartRestore
    <2>2. restore' = [from |-> b, todo |-> Disks \cup {"vm"},
                      dds |-> [d \in Disks |-> "none"]]
          BY <2>1 DEF NoRestore
    <2>3. b \in 1..Len(backups) /\ Len(backups) <= MaxBackups
          BY DEF IInv, TypeOK
    <2>4. b \in 0..MaxBackups
          BY <2>3, Bounds DEF IInv, TypeOK
    <2>5. /\ restored' = TRUE /\ ~vm.held
          /\ UNCHANGED <<vm, disks, backups, edits>>
          BY <1>4 DEF StartRestore, IInv, RestoreInv
    <2>6. restore' \in Restores /\ restore'.from <= Len(backups)
          BY <2>2, <2>3, <2>4 DEF Restores, Downloads
    <2>7. TypeOK'
          BY <2>5, <2>6 DEF IInv, TypeOK
    <2>8. RestoreInv' /\ MarksInv' /\ FreshBackupsLeftToOthers'
          BY <2>2, <2>3, <2>5
          DEF IInv, RestoreInv, MarksInv, NoMarks, FreshBackupsLeftToOthers,
              LeftToOthers
    <2> QED BY <2>7, <2>8 DEF IInv
  <1>5. ASSUME NEW d \in Disks, RestorePVC(d)
        PROVE  IInv'
        BY <1>5, RestorePVCKeeps
  <1>6. ASSUME NEW d \in Disks, Download(d)
        PROVE  IInv'
        BY <1>6, DownloadKeeps
  <1>7. CASE RestoreVM
        BY <1>7, RestoreVMKeeps
  <1>8. CASE FlipBack
    <2>1. /\ vm' \in VMStates /\ ~vm'.held /\ vm'.upload = vm.upload
          BY <1>8 DEF FlipBack, IInv, TypeOK, VMStates, autoStarts, Runs
    <2>2. UNCHANGED <<disks, backups, restore, restored, edits>>
          BY <1>8 DEF FlipBack
    <2>3. TypeOK'
          BY <2>1, <2>2 DEF IInv, TypeOK
    <2>4. RestoreInv' /\ MarksInv' /\ FreshBackupsLeftToOthers'
          BY <2>1, <2>2 DEF IInv, RestoreInv, MarksInv, NoMarks,
                            FreshBackupsLeftToOthers, LeftToOthers, From
    <2> QED BY <2>3, <2>4 DEF IInv
  <1>9. CASE Edit
    <2>1. /\ vm' \in VMStates /\ vm'.held = vm.held
          /\ vm.present /\ vm'.present /\ ~vm.held
          /\ vm'.upload => vm.upload
          BY <1>9 DEF Edit, AtRest, IInv, TypeOK, VMStates
    <2>2. edits' \in 0..MaxEdits
      <3>1. edits < MaxEdits /\ edits' = edits + 1 /\ edits \in 0..MaxEdits
            BY <1>9 DEF Edit, IInv, TypeOK
      <3> QED BY <3>1, Bounds
    <2>3. UNCHANGED <<disks, backups, restore, restored>>
          BY <1>9 DEF Edit
    <2>4. TypeOK'
          BY <2>1, <2>2, <2>3 DEF IInv, TypeOK
    <2>5. RestoreInv' /\ MarksInv' /\ FreshBackupsLeftToOthers'
          BY <2>1, <2>3 DEF IInv, RestoreInv, MarksInv, NoMarks,
                            FreshBackupsLeftToOthers, LeftToOthers, From
    <2> QED BY <2>4, <2>5 DEF IInv
  <1>10. CASE Write
    <2>1. /\ disks' \in [Disks -> DiskStates]
          /\ \A d \in Disks : disks'[d].stamp = disks[d].stamp
      <3>1. \A d \in Disks : disks[d] \in DiskStates
                             /\ disks[d].data \in 1..(MaxWrites - 1)
            BY <1>10 DEF Write, IInv, TypeOK
      <3>2. \A d \in Disks :
               [disks[d] EXCEPT !.data = @ + 1] \in DiskStates
            BY <3>1, Bounds DEF DiskStates, Versions
      <3> QED BY <1>10, <3>1, <3>2 DEF Write, DiskStates
    <2>2. UNCHANGED <<vm, backups, restore, restored, edits>>
          BY <1>10 DEF Write
    <2>3. TypeOK'
          BY <2>1, <2>2 DEF IInv, TypeOK
    <2>4. RestoreInv' /\ MarksInv' /\ FreshBackupsLeftToOthers'
          BY <2>1, <2>2 DEF IInv, RestoreInv, MarksInv, NoMarks,
                            FreshBackupsLeftToOthers, LeftToOthers, From
    <2> QED BY <2>3, <2>4 DEF IInv
  <1>11. CASE UNCHANGED vars
         BY <1>11
         DEF vars, IInv, TypeOK, RestoreInv, MarksInv, NoMarks,
             FreshBackupsLeftToOthers, LeftToOthers, From
  <1> QED
      BY <1>1, <1>2, <1>3, <1>4, <1>5, <1>6, <1>7, <1>8, <1>9, <1>10, <1>11
      DEF Next, RestoreSteps

LEMMA Invariance == Spec => []IInv
  <1>1. IInv /\ [Next]_vars => IInv'
        BY NextIInv
  <1> QED BY InitIInv, <1>1, PTL DEF Spec

\* The variables keep their types, and a VM that is held has a run state to
\* return to (haltVM stashes before it overwrites, and halts only what starts).
THEOREM TypeCorrect == Spec => []TypeOK
  <1>1. IInv => TypeOK
        BY DEF IInv
  <1> QED BY Invariance, <1>1, PTL

\* A VM that never was restored, backed up by other means, is neither held nor
\* are its PVCs made to await DataDownloads when that backup is restored,
\* however many backups of the data mover lie before and after.
THEOREM FreshKeptOff == Spec => []FreshBackupsLeftToOthers
  <1>1. IInv => FreshBackupsLeftToOthers
        BY DEF IInv
  <1> QED BY Invariance, <1>1, PTL

-------------------------------------------------------------------------------
(* A restore of a backup by the data mover ends with the VM back.              *)

\* In a backup of the data mover every PVC carries the name of the VM.
StampsInv ==
    \A i \in DOMAIN backups : backups[i].mover =>
        \A d \in Disks : backups[i].disks[d].stamp = backups[i].vm.name

\* What has come so far is as the backup has it, or on its way.
VMComes == "vm" \notin restore.todo =>
    /\ vm.present /\ vm.name = From.vm.name
    /\ vm.held => vm.stash = From.vm.run
    /\ ~vm.held => vm.run = From.vm.run
DiskComes(d) == d \notin restore.todo =>
    /\ disks[d].stamp = From.vm.name
    /\ \/ restore.dds[d] = "running"
       \/ /\ restore.dds[d] = "Completed"
          /\ disks[d].data = From.disks[d].data
Comes == VMComes /\ \A d \in Disks : DiskComes(d)

\* Once the restore is at rest, its user may change the VM and its data.
ComesInv == restore.from # 0 /\ From.mover => Comes \/ AtRest

BackInv == StampsInv /\ ComesInv

LEMMA FromIs ==
  ASSUME IInv, restore.from # 0
  PROVE  /\ restore.from \in DOMAIN backups /\ From \in Backups
         /\ StampsInv /\ From.mover =>
                \A d \in Disks : From.disks[d].stamp = From.vm.name
  <1>1. restore.from \in 1..Len(backups) /\ DOMAIN backups = 1..Len(backups)
        BY Bounds DEF IInv, TypeOK, Restores
  <1> QED BY <1>1, ItemsTyped DEF StampsInv, From

\* A step either leaves the backups, or stores one of a living VM.
LEMMA BackupsGrow ==
  ASSUME IInv, StampsInv, [Next]_vars
  PROVE  /\ StampsInv'
         /\ \A i \in DOMAIN backups : i \in DOMAIN backups'
                                      /\ backups'[i] = backups[i]
  <1>1. CASE backups' = backups
        BY <1>1 DEF StampsInv
  <1>2. ASSUME NEW b, Store(b),
               b.mover => \A d \in Disks : b.disks[d].stamp = b.vm.name
        PROVE  /\ StampsInv'
               /\ \A i \in DOMAIN backups : i \in DOMAIN backups'
                                            /\ backups'[i] = backups[i]
    <2>1. backups' = Append(backups, b) /\ backups \in Seq(Backups)
          BY <1>2 DEF Store, IInv, TypeOK
    <2>2. /\ DOMAIN backups = 1..Len(backups) /\ Len(backups) \in Nat
          /\ DOMAIN backups' = 1..(Len(backups) + 1)
          /\ \A i \in 1..Len(backups) : backups'[i] = backups[i]
          /\ backups'[Len(backups) + 1] = b
          BY <2>1
    <2> QED BY <1>2, <2>2 DEF StampsInv
  <1>3. CASE BackupByDataMover
    <2> DEFINE b == [mover |-> TRUE, vm |-> StampedVM, fresh |-> ~restored,
                     disks |-> [d \in Disks |-> StampedDisk(d)]]
    <2>1. \A d \in Disks : b.disks[d].stamp = b.vm.name
          BY DEF IInv, TypeOK, StampedVM, StampedDisk, VMStates, DiskStates
    <2>2. Store(b)
          BY <1>3 DEF BackupByDataMover
    <2> HIDE DEF b
    <2> QED BY <1>2, <2>1, <2>2
  <1>4. CASE BackupByOthers
    <2> DEFINE b == [mover |-> FALSE, vm |-> UntouchedVM, fresh |-> ~restored,
                     disks |-> disks]
    <2>1. Store(b) /\ ~b.mover
          BY <1>4 DEF BackupByOthers
    <2> HIDE DEF b
    <2> QED BY <1>2, <2>1
  <1> QED
      BY <1>1, <1>3, <1>4
      DEF Next, RestoreSteps, Disaster, StartRestore, RestorePVC, RestoreVM,
          Download, FlipBack, Edit, Write, vars

LEMMA FromStays ==
  ASSUME IInv, StampsInv, [Next]_vars,
         restore.from # 0, restore'.from = restore.from
  PROVE  From' = From
  BY FromIs, BackupsGrow DEF From

\* A step of the restore brings one more item, or finishes one.
LEMMA RestoreStepComes ==
  ASSUME IInv, StampsInv, Comes, RestoreSteps, restore.from # 0, From.mover,
         restore'.from = restore.from, From' = From
  PROVE  Comes'
  <1>0. /\ \A d \in Disks : From.disks[d].stamp = From.vm.name
        /\ From \in Backups /\ From.vm.name # "none"
        /\ disks \in [Disks -> DiskStates] /\ restore \in Restores
        /\ vm \in VMStates
        BY FromIs, CycleAssumption DEF IInv, TypeOK, Backups, VMStates
  <1>1. ASSUME NEW d \in Disks, RestorePVC(d)
        PROVE  Comes'
    <2>1. /\ restore' = [restore EXCEPT !.todo = @ \ {d}, !.dds[d] = "running"]
          /\ disks' = [disks EXCEPT ![d] = [From.disks[d] EXCEPT !.data = 0]]
          /\ vm' = vm
          BY <1>0, <1>1 DEF RestorePVC
    <2>2. /\ restore'.todo = restore.todo \ {d}
          /\ restore'.dds = [restore.dds EXCEPT ![d] = "running"]
          BY <1>0, <2>1 DEF Restores
    <2>3. VMComes'
      <3>1. "vm" \notin restore'.todo => "vm" \notin restore.todo
            BY <2>2, CycleAssumption
      <3> QED BY <2>1, <3>1 DEF Comes, VMComes
    <2>4. DiskComes(d)'
      <3>1. disks'[d].stamp = From.vm.name
            BY <1>0, <2>1 DEF DiskStates, Backups
      <3>2. restore'.dds[d] = "running"
            BY <1>0, <2>2 DEF Restores
      <3> QED BY <3>1, <3>2 DEF DiskComes
    <2>5. ASSUME NEW e \in Disks, e # d PROVE DiskComes(e)'
          BY <1>0, <2>1, <2>2, <2>5 DEF Comes, DiskComes, Restores
    <2> QED BY <2>3, <2>4, <2>5 DEF Comes
  <1>2. CASE RestoreVM
    <2>1. /\ restore'.todo = restore.todo \ {"vm"}
          /\ restore'.dds = restore.dds /\ disks' = disks
          BY <1>0, <1>2 DEF RestoreVM, Restores
    <2>2. /\ vm'.present /\ vm'.name = From.vm.name
          /\ vm'.held => vm'.stash = From.vm.run
          /\ ~vm'.held => vm'.run = From.vm.run
          BY <1>0, <1>2 DEF RestoreVM, Halted, Backups, VMStates
    <2>3. ASSUME NEW e \in Disks PROVE DiskComes(e)'
      <3>1. e \notin restore'.todo => e \notin restore.todo
            BY <2>1, CycleAssumption
      <3> QED BY <2>1, <3>1 DEF Comes, DiskComes
    <2> QED BY <2>2, <2>3 DEF Comes, VMComes
  <1>3. ASSUME NEW d \in Disks, Download(d)
        PROVE  Comes'
    <2>1. /\ vm' = vm /\ restore'.todo = restore.todo
          BY <1>0, <1>3 DEF Download, Restores
    <2>2. VMComes'
          BY <2>1 DEF Comes, VMComes
    <2>3. ASSUME NEW e \in Disks, e # d PROVE DiskComes(e)'
      <3>1. disks'[e] = disks[e] /\ restore'.dds[e] = restore.dds[e]
            BY <1>0, <1>3, <2>3 DEF Download, Restores
      <3> QED BY <2>1, <3>1 DEF Comes, DiskComes
    <2>4. DiskComes(d)'
      <3> SUFFICES ASSUME d \notin restore.todo PROVE DiskComes(d)'
          BY <2>1 DEF DiskComes
      <3>1. disks[d].stamp = From.vm.name
            BY DEF Comes, DiskComes
      <3>2. /\ disks' = [disks EXCEPT ![d].data = From.disks[d].data]
            /\ restore' = [restore EXCEPT !.dds[d] = "Completed"]
            BY <1>3, <3>1 DEF Download
      <3>3. /\ disks'[d].stamp = disks[d].stamp
            /\ disks'[d].data = From.disks[d].data
            BY <1>0, <3>2 DEF DiskStates
      <3>4. restore'.dds[d] = "Completed"
            BY <1>0, <3>2 DEF Restores
      <3> QED BY <3>1, <3>3, <3>4 DEF DiskComes
    <2> QED BY <2>2, <2>3, <2>4 DEF Comes
  <1>4. CASE FlipBack
    <2>1. /\ vm.held /\ ~vm'.held /\ vm'.present = vm.present
          /\ vm'.name = vm.name /\ vm'.run = vm.stash
          /\ UNCHANGED <<disks, restore>>
          BY <1>0, <1>4 DEF FlipBack, VMStates
    <2> QED BY <2>1 DEF Comes, VMComes, DiskComes
  <1> QED BY <1>1, <1>2, <1>3, <1>4 DEF RestoreSteps

\* Nothing else moves a restore that is not at rest.
LEMMA ComesStep ==
  ASSUME IInv, BackInv, [Next]_vars, restore.from # 0, From.mover, ~AtRest,
         restore'.from = restore.from
  PROVE  Comes' /\ From' = From
  <1>1. From' = From /\ Comes
        BY FromStays DEF BackInv, ComesInv
  <1>2. CASE UNCHANGED <<vm, disks, restore>>
        BY <1>1, <1>2 DEF Comes, VMComes, DiskComes
  <1>3. CASE RestoreSteps
        BY <1>1, <1>3, RestoreStepComes DEF BackInv
  <1>4. ~Edit /\ ~Write /\ ~StartRestore
        BY DEF Edit, Write, StartRestore
  <1>5. ~Disaster
        BY DEF Disaster, NoRestore
  <1> QED
      BY <1>1, <1>2, <1>3, <1>4, <1>5
      DEF Next, BackupByDataMover, BackupByOthers, Store, vars

\* A restore at rest stays there, until the VM is lost.
LEMMA RestStays ==
  ASSUME IInv, [Next]_vars, AtRest
  PROVE  AtRest' \/ restore'.from = 0
  <1>1. /\ vm.present /\ ~vm.held /\ restore.todo = {}
        /\ \A d \in Disks : restore.dds[d] # "running"
        BY DEF AtRest
  <1>2. ~RestoreSteps /\ ~StartRestore
        BY <1>1
        DEF RestoreSteps, RestorePVC, RestoreVM, Download, FlipBack,
            StartRestore
  <1>3. CASE Edit
    <2>1. vm'.present /\ ~vm'.held /\ UNCHANGED restore
          BY <1>1, <1>3 DEF Edit, IInv, TypeOK, VMStates
    <2> QED BY <1>1, <2>1 DEF AtRest
  <1>4. CASE Disaster
        BY <1>4 DEF Disaster, NoRestore
  <1>5. CASE UNCHANGED <<vm, restore>>
        BY <1>5 DEF AtRest
  <1> QED
      BY <1>2, <1>3, <1>4, <1>5
      DEF Next, BackupByDataMover, BackupByOthers, Store, Write, vars

LEMMA BackInvStep ==
  ASSUME IInv, BackInv, [Next]_vars
  PROVE  BackInv'
  <1>1. StampsInv'
        BY BackupsGrow DEF BackInv
  <1>2. ASSUME restore'.from # 0, From'.mover
        PROVE  Comes' \/ AtRest'
    <2>1. CASE restore'.from = restore.from
      <3>1. From' = From
            BY <1>2, <2>1, FromStays DEF BackInv
      <3>2. restore.from # 0 /\ From.mover
            BY <1>2, <2>1, <3>1
      <3>3. CASE AtRest
            BY <1>2, <3>3, RestStays
      <3>4. CASE ~AtRest
            BY <2>1, <3>2, <3>4, ComesStep
      <3> QED BY <3>3, <3>4
    <2>2. CASE restore'.from # restore.from
      <3>1. ~RestoreSteps
        <4>1. restore \in Restores
              BY DEF IInv, TypeOK
        <4>2. ASSUME RestoreSteps PROVE restore'.from = restore.from
              BY <4>1, <4>2
              DEF RestoreSteps, RestorePVC, RestoreVM, Download, FlipBack,
                  Restores
        <4> QED BY <2>2, <4>2
      <3>2. ~Disaster
            BY <1>2 DEF Disaster, NoRestore
      <3>3. StartRestore
            BY <2>2, <3>1, <3>2
            DEF Next, BackupByDataMover, BackupByOthers, Store, Edit, Write,
                vars
      <3>4. restore'.todo = Disks \cup {"vm"}
            BY <3>3 DEF StartRestore, NoRestore
      <3> QED BY <3>4 DEF Comes, VMComes, DiskComes
    <2> QED BY <2>1, <2>2
  <1> QED BY <1>1, <1>2 DEF BackInv, ComesInv

\* Whatever backups, losses and edits came before: when the restore of a backup
\* by the data mover comes to rest, the VM and all its data are back (the stamp
\* of pvc/backup.go, the hold of vm/restore.go and the download together).
THEOREM RestoreIsComplete == Spec => RestoreEndsBack
  <1> DEFINE Ends == \A b \in DOMAIN backups :
                        (/\ restore.from = b /\ backups[b].mover /\ ~AtRest
                         /\ restore'.from = b /\ AtRest')
                            => IsBack(b)'
  <1>1. Init => BackInv
        BY DEF Init, NoRestore, BackInv, StampsInv, ComesInv
  <1>2. ASSUME IInv, BackInv, [Next]_vars PROVE Ends
    <2> SUFFICES ASSUME NEW b \in DOMAIN backups,
                        restore.from = b, backups[b].mover, ~AtRest,
                        restore'.from = b, AtRest'
                 PROVE  IsBack(b)'
        OBVIOUS
    <2>1. restore.from # 0
          BY <1>2 DEF IInv, TypeOK
    <2>2. Comes' /\ From' = From
          BY <1>2, <2>1, ComesStep DEF From
    <2>3. backups'[b] = From
          BY <2>2 DEF From
    <2>4. /\ vm'.present /\ ~vm'.held /\ restore'.todo = {}
          /\ \A d \in Disks : restore'.dds[d] # "running"
          BY DEF AtRest
    <2>5. vm'.name = From.vm.name /\ vm'.run = From.vm.run
          BY <2>2, <2>4 DEF Comes, VMComes
    <2>6. \A d \in Disks : disks'[d].data = From.disks[d].data
          BY <2>2, <2>4 DEF Comes, DiskComes
    <2> QED BY <2>3, <2>4, <2>5, <2>6 DEF IsBack
  <1>3. IInv /\ BackInv /\ [Next]_vars => BackInv' /\ [Ends]_vars
        BY <1>2, BackInvStep
  <1> QED BY <1>1, <1>3, Invariance, PTL DEF Spec, RestoreEndsBack
===============================================================================
