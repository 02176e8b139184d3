# Models of the KubeVirt datamover plugin

TLA+ specifications of the Velero plugins in `src/kubevirt-datamover-plugin`, the TLC
instances that check them, and TLAPS proofs. The reference is the Go code; what is outside
the repository (Velero, the kubevirt-datamover-controller, the Kubernetes API server and its
garbage collector, KubeVirt, the storage provisioner) is modelled from how the code uses it
and marked external in `PROJECT.json`.

Run an instance with `tlc -config <file>.cfg <module>` and a proof with `tlapm <module>.tla`;
the `runs` of `PROJECT.json` pair configurations with modules.

## The system

Velero calls the plugins over RPC. It may repeat a call after an error, give up on one that is
still running, and restart together with the plugins' processes. Plugins talk to Velero
through return values, and to the kubevirt-datamover-controller through annotations and custom
resources (DataUpload, DataDownload) that it reconciles concurrently.

| Component | State | Operations | Interacts with |
|---|---|---|---|
| VM backup plugin, `vm/backup.go` | none of its own; a DataUpload per (Backup, VM) in the API server | `Execute` (preconditions, source PVC, create or adopt a DataUpload, return its operation ID), `Progress`, `Cancel` | controller (spec.cancel, status), garbage collector (owner reference), Velero (operation ID) |
| PVC backup plugin, `pvc/backup.go` | `kubevirtInstall` and a map from PVCs to VMs per namespace, under a lock, for the life of the process | `Execute` (same preconditions, stamps the VM's name on the PVC) | VM backup plugin (`CheckPreconditions`) |
| PVC restore plugin, `pvc/restore.go` | `cachedBackup`, under a lock; a DataDownload per (Restore, PVC) in the API server | `Execute` (maps the namespace, strips the binding, creates or adopts a DataDownload), `Progress`, `Cancel` | controller, provisioner, VM restore plugin (reads its DataDownloads), PVC backup plugin (reads its stamp) |
| VM restore plugin, `vm/restore.go` | `firstEmptyObservedAt`, a map in the process | `Execute` (restores the VM halted, stashes its run state), `Progress` (aggregates DataDownloads, grace period), `Cancel` | controller (gives the run state back), PVC restore plugin, VM backup plugin (reads its annotation) |
| VM delete plugin, `vm/delete.go` | none of its own; index, manifests and checkpoint files in the object store | `Execute` | controller (writes what is deleted here) |
| Names and identifiers, in both `vm` and `pvc` | none | deterministic names, operation IDs, labels, truncation | every retry relies on them |
| Discard plugin, `vmbackup/discard.go` | none | `Execute` skips every item | - |
| Clients and registration, `clients/`, `main.go`, `common/` | client singletons, created at first use without a lock | set-up | - |

What is hard in it:

* **Retries and abandoned calls.** Two `Execute` calls for one item can create, adopt and
  return concurrently. Nothing but a deterministic name and the API server's `AlreadyExists`
  keeps them together.
* **Ambiguous answers.** A create or patch may take effect although its answer is lost.
* **Names outlive objects.** A Backup or Restore may be deleted and recreated under its name
  while objects, calls and map entries of its predecessor still exist.
* **One Cancel.** Velero calls `Cancel` once and ignores its error. The plugin retries within
  45 seconds, while a single request may take 30.
* **Concurrent writers.** The controller updates whole objects; a cancel must not overwrite a
  status.
* **Caches and two rounds of reads.** Both backup plugins decide about the same VM, without
  hearing of each other, from reads made at different moments and from lists made once.
* **Several objects, no transaction.** A deletion touches four kinds of objects, each request
  may fail, and what is shared with other backups must survive. A PVC is stripped before the
  object exists that will fill it.
* **Cooperation at a distance.** A held VM depends on annotations, on DataDownloads other code
  creates, and on a controller that flips it back; and the annotations outlive the restore.

Each is an entry of `hazards` in `PROJECT.json`, with its line and the properties about it.

What makes the components correct:

* VM backup: one upload per item however `Execute` is repeated; what is returned to Velero can
  be found again, and is this Backup's and this VM's; success is reported for completed
  uploads only; a cancel stops the own upload, no neighbour's, and destroys no final status.
* The two backup plugins: one verdict on every VM that is left alone during the backup; a
  stamped PVC is no other VM's; nothing is refused for what happens elsewhere.
* PVC restore: as for VM backup, and no PVC is stripped without an operation to fill it, the
  rebinding is not preempted, success means the PVC's own data, also when two namespaces are
  mapped onto one, and one Restore reads one storage location.
* VM restore: a VM does not start before its data is there and gets its own run state back;
  success means all data; a failure has a reason of the operation's own; no operation waits
  forever; a cancel reaches each DataDownload it found.
* VM delete: other backups stay restorable, nothing is leaked, success means done, and a
  failed deletion can be resumed.
* Names: they fit the limit, are cut evenly and no more than needed, and the loop ends.
* All together, over cycles of backup and restore: a backup of the data mover brings the VM
  back whatever earlier cycles left on it, and other backups are left to others.

## The modules

| Module | Models | Runs, properties |
|---|---|---|
| `AsyncOperation` | what a plugin with asynchronous operations promises Velero (abstract) | implemented by `VMBackup` and `PVCRestore` |
| `VMBackup` | `vm/backup.go` from `Execute`'s create on, `Progress`, `Cancel` | `backup_*` |
| `PVCRestore` | `pvc/restore.go` | `pvc_*` |
| `VMRestore` | `vm/restore.go` | `restore_waits` |
| `RestoreOperations` | composition: the operations of both restore plugins on one set of DataDownloads; extends `PVCRestore` | `restore_together` |
| `VMDelete` | `vm/delete.go` | `delete_shared` |
| `NameTruncation` | `distributeTruncationBudget` and the two `generate...Name` functions | `name_truncation` |
| `BackupItems` | composition: the preconditions and the source PVC of `vm/backup.go` and all of `pvc/backup.go`, on one cluster | `items_shared` |
| `BackupCycle` | composition: what the four plugins tell each other by annotations, over several backups and restores | `cycle_*` |
| `MCVMBackup`, `MCPVCRestore`, `MCVMRestore`, `MCRestoreOperations`, `MCBackupItems`, `MCBackupCycle` | instances for TLC; `VMDelete` and `NameTruncation` need none | |
| `VMBackupProofs`, `PVCRestoreProofs`, `VMRestoreProofs`, `RestoreOperationsProofs`, `VMDeleteProofs`, `NameTruncationProofs`, `BackupItemsProofs`, `BackupCycleProofs` | TLAPS proofs | |

A definition that begins with a comment "Mutant:" is a plausible bug. No action uses it; it
stands beside the definition it would replace, to show that a property can tell the difference.

In all modules a request to the API server or the object store is one atomic step; everything
between two requests is local and belongs to the step of the request before it. Data is
reduced to what the code compares. The 32-bit digest that keeps truncated names apart is taken
to be injective, so that names are injective functions of what they are made from.

### AsyncOperation

Of each operation that Velero tracks: what became of its task, and what was reported. An
operation reports once, success only for a task that succeeded, and no outcome is undone.

### VMBackup

`uploads` are the DataUpload objects, `calls` the control states of `Execute` calls in the
plugin, `ops` what Velero recorded of each item's operation, `cancels` the control states of
`Cancel`. `epoch` and `alive` are the life of the Backup's name; a DataUpload whose owner is
gone is collected some time.

`Execute` starts a call for an eligible VM with any source PVC, for the choice of the PVC
depends on cluster state that may change between calls; the requests before the create are
those of `BackupItems`. `createDataUploadResource` is the create request with its four
outcomes: stored and known, stored and lost, name taken, failed. `getDataUploadByName` is the
re-fetch after `AlreadyExists` and the decision of the loop in `createDataUpload`: adopt,
refuse, create again, give up after `MaxCreateAttempts`. `Return` is the arrival of the
operation ID at Velero. A conversion of the VM that fails after the create has the effect of a
lost answer and is covered by it. `Progress` is one poll, `CancelLookup` and
`patchDataUploadCancel` the requests of `Cancel`, one attempt per step, with the time that
hanging attempts have cost.

Time is counted in units of 15 seconds: `TotalTimeout = 3` and `CallTimeout = 2` are the
code's 45 and 30 seconds. The backoff sleeps (600 ms in all) are not counted. Phases New,
Accepted and Prepared are one: `Progress` only words them apart. A namespace and a VM name are
one value.

### PVCRestore

The variables are those of `VMBackup`, with `downloads` for `uploads`, and three more:
`location`, the storage location the Backup names, which changes when the Backup is deleted
and recreated; `cached`, the copy that `getBackup` keeps per process; and `pvcs`, the PVC
objects in the target namespaces with the volume each got.

An item is identified by its source PVC, `<<namespace, name>>`; `target` applies the Restore's
namespace mapping. `Execute` strips the binding of its copy of the item (`clearPVCBinding`),
`getBackup` reads or reuses the Backup, `createDataDownloadResource` and
`getDataDownloadByName` are the create-or-adopt loop, `Return` is the moment when Velero has
both the PVC to store (`StorePVC`, which keeps a PVC that is already there) and the operation
ID. `ExecuteOther` is a PVC without a stamp. `Progress` and `Cancel` find a DataDownload by
label and annotation; the labels of different PVCs are assumed to collide always, which is the
worst that truncation can do.

The environment provisions a volume for a PVC that nothing keeps it from (`Provision`), and
the controller binds the rebuilt disk to the PVC that carries the target name, or refuses a PVC
that is bound or says so (`ControllerBinds`); which of the two comes first is open.

The VM restore plugin may set the flag of a DataDownload at any time: to `PVCRestore` this is a
step of its environment (`VMCancels`), and a DataDownload may therefore be canceled that this
plugin never canceled.

One plugin instance serves one Restore, as the comment on `getBackup` has it, so `cached` is kept
per Restore UID, and a `Crash` clears it. `SuccessMeansOwnData` assumes that third parties leave
the tracked DataDownloads alone: the lookup does not compare owners, and a deletion by hand could
let the object of an abandoned call of an earlier Restore take the place of a deleted one.

### VMRestore

One VM in one Restore, with `OwnDisks`, and `OtherDisks` of a different VM in the same
namespace of DataDownloads. `vm` holds the VM as backed up and as restored, `op` Velero's
record of the operation, `anchor` the age of this operation's entry in `firstEmptyObservedAt`,
`cancel` the Cancel call. `waited` is a history variable: how long this operation, whatever
the map says, has been without DataDownloads.

`Execute` includes `originalRunState` and `haltVM`. `ProgressError`, `ProgressEmpty` and
`ProgressFound` are the branches of one poll. `NextTarget` and `AttemptFails` are the loop of
`Cancel` and the retry in `patchDataDownloadCancel`. `FlipBack` is the controller's half of
the contract that the comments on the annotation constants describe.

`PVCCancels` is the flag set by the PVC restore plugin, or by anyone else, on one of the VM's
DataDownloads. A DataDownload that is deleted does not come back here; that another of its name
may is part of `RestoreOperations`.

Today Velero polls a Restore's operations when it has been through all items, so all
DataDownloads exist at the first poll; the comments in `Progress` expect them to appear later.
Both are behaviours (`early`, chosen from `EarlyDisks`). In the second, `Progress` may report
success between the first DataDownload's completion and the second's creation, so
`SuccessMeansAllData` speaks of the first.

### RestoreOperations

The state is that of `PVCRestore` with `vmOps`, Velero's record of the operation of each VM,
`vmCancels`, the VM plugin's Cancel calls, and `through`, whether Velero has been through the
items of the latest Restore, after which it polls. A VM is its namespace and name; `DisksOf`
are the PVCs stamped with it. `getDataDownloadsForVM` selects as the code does, by names and
annotations and by no owner. `VMProgress` is one poll and `Aggregate` what it makes of the
DataDownloads found, `VMCancelLookup` and `patchVMDataDownload` are the requests of Cancel, and
`AskNext` goes on to the next DataDownload whatever became of the last. A restart ends the
Cancel calls of both plugins (`Interrupted`).

What is finer in `VMRestore` is coarser here: a poll that finds nothing may wait or give up
(the grace period is a choice), and the attempts of one patch are one request, which finds
nothing, sets the flag, sets it without an answer and is sent again, or fails for good. What
the plugin does to the VM is in `VMRestore` alone.

### VMDelete

The object store's files, indexes and manifests, and one running `Execute` at a time, whose
`pc` names the next request. `Interrupt` ends it between any two requests, which also covers a
request that took effect and whose answer was lost. Deletions of missing objects succeed, as
`uploader`'s callers assume. The controller's uploads are external: a new checkpoint on top of
the chain of a stored backup, or of none. Two assumptions are made about it, which the plugin
cannot enforce and does not check: it does not write while `Execute` runs, and it starts no
chain from a backup whose deletion has begun. Backups and checkpoints are numbered in the
order in which they begin.

### NameTruncation

The two copies of the truncation code are one algorithm. The loop is modelled iteration by
iteration on the lengths of the components; what `strings.TrimRight` removes beyond the cut is
any number of characters.

### BackupItems

Execute of both plugins on all items of a Backup, concurrently, each read a step:
`vmRun` and `pvcRun` are their control states, `machines` and `policy` the cluster,
`collected` the VMs as Velero read them. The walk over a VM's volumes is `checkVolumePolicies`
(`SeeVolume`), shared by both plugins; then `getFirstKubevirtPVC` walks again. The PVC plugin
discovers KubeVirt (`shouldListVMsLocked`), lists the VMs of a namespace once (`getPVCList`,
cached in `nsPVCs`), re-reads each VM that uses the PVC (`GetVM`) and checks it
(`CheckVMOfPVC`). Users change VMs, PVCs and policies at any time; `touched` remembers which, so
that the properties can speak of items that were left alone. The lock around discovery and
listing is held from one to the other in the code; releasing it in between, as here, only
changes which call makes the list.

### BackupCycle

The VM and its PVCs with the annotations that the plugins put on them, the backups in the
object store with what they recorded, and the restore in progress. A backup is one step, by
the data mover (which stamps) or by other means (which leaves the items as they are); a
restore takes a step per item, in any order, with the restore plugins' reactions to what they
find annotated, the DataDownloads (found by the VM's name, as the controller does), and
`FlipBack`. Between restores the user edits the VM, renames it or gives its disks to a new VM
(`Edit`) and the VM writes to its disks.

## The runs

| Run | Instance and bounds | States | Shows |
|---|---|---|---|
| `backup_retries` | 1 VM, 2 source PVCs, 2 calls, 2 Backups of one name, a create and a get that fail, 2 acts of third parties, 1 restart | 845,000 | types; retries converge, what is returned stays trackable, and the promise of `AsyncOperation` is kept, so that no final status is overwritten |
| `backup_cancel` | 2 VMs, 1 call; a list, a patch and a hanging request fail | 75,000 | a cancel sets no neighbour's flag, and the upload it has found stops |
| `backup_success` | no faults | violation | finding 1 |
| `pvc_retries` | PVCs of one name in 3 namespaces mapped onto one, 2 of them the data mover's; 2 calls, 2 Restores, 2 locations, every request fails, 2 acts of third parties, 2 changes of the Backup, 1 restart | 182,000 | retries converge, no PVC is stranded, success means own data, rebinding is not preempted, one location, a persistent cancel, and the promise of `AsyncOperation` |
| `pvc_settles` | 1 PVC, faults of `Cancel`, 2 acts of third parties, 1 restart | 216,000 | every operation ends |
| `restore_waits` | 2 own disks, 1 other, grace of 2 ticks, all faults, a deletion, 2 restarts, 2 Restores of one name, early and late disks | 324,000 | the hold, success, the reasons for failure, the extent of a cancel, and that every operation ends |
| `restore_together` | 2 VMs of one name in two namespaces, 3 PVCs restored to one namespace, 2 calls, 2 Restores of one name; a create, a patch and a request of the VM plugin fail, 1 act of a third party, 1 restart | 148,000 | a VM's success is true of its disks, its cancel reaches what it found and no other VM's, and both plugins together stay within `PVCRestore` |
| `delete_shared` | 2 VMs, 3 backups, 3 checkpoints, 2 interruptions | 1,418,000 | other backups survive, nothing leaks, success leaves no trace, deletions complete |
| `name_truncation` | lengths up to 6, room for 6 | 7,400 | the truncation; each step of its loops gets closer to the end, and until then there is one |
| `items_shared` | 3 VMs and 3 PVCs in 2 namespaces, 1 change of the cluster, 1 failing request | 923,000 | the verdict on VMs left alone, and stamps |
| `cycle_returns` | 2 PVCs, 2 names, 2 backups, 1 edit, 2 versions of the data | 241,000 | what the data mover backed up comes back, as soon as the restore is at rest; what others backed up first is left to them |
| `cycle_leftover` | 1 PVC, 2 backups | violation | finding 2 |

**Stories.** Where one instance with all bounds at once would be too large, a run is restricted
to stories that each have their own kind of trouble. The restrictions are in the MC modules:

* `OneTroubleAtATime` of `MCVMBackup`: either the Backup is recreated, or third parties,
  changes of the source PVC and a restart happen, at most two acts and restarts together.
  Requests fail in both, of at most one kind when the Backup is recreated.
* `InStory` of `MCPVCRestore`, a choice made in the initial state: `Execute` is retried amid
  failures, restarts and third parties (at most three troubles of which at most two are not
  failed requests); an operation is canceled amid failures and third parties; the Restore is
  recreated around the calls; several PVCs are restored one after the other while the Backup
  changes. `pvc_settles` explores the story of the cancel alone, without a constraint, since a
  constraint and liveness do not go together.
* `InStory` of `MCRestoreOperations`: the disks of two namesakes come back together and one VM
  is canceled; both plugins cancel one disk's download amid failures, third parties and a
  restart, at most three in all; the Restore is recreated.
* `MCInit` and `MCNext` of `MCVMRestore`: every kind of VM with one disk, and with more disks
  a VM that is held; a Restore is recreated with one disk and after a first one without
  incident. These restrict the specification itself, not the state graph, so that liveness is
  checked on complete behaviours.
* `InSetting` of `MCBackupItems`: two VMs of one namespace that share PVCs, without failed
  requests; or VMs and PVCs of one name in two namespaces, with them.
* `backup_cancel` has no third parties: with them, `CancelHitsOwnUpload` is proved
  (`CancelIsAimed`), and the run is there to check liveness.

The proofs do not have these restrictions.

**Why the bounds are enough.** Two calls are the least for a race and the create-or-adopt loop
treats a third like the second; adoption compares single fields, and foreign objects differ in
one field each. `MaxCreateAttempts` is the code's 3; two acts of third parties let the loop
lose its object twice. `PatchSteps` is the code's 3 in `VMBackup` and `PVCRestore` and 2 in
`VMRestore`, where 2 failed and 1 hanging patch then exhaust it. One hang and one failure leave
an attempt in `backup_cancel`; two hangs are the whole budget of 45 seconds, after which the
code gives up, as it documents. Two PVCs that meet in one target and one that goes there
without the data mover are all the relations the mapping can make. A grace of two ticks tells
"less", "just" and "more than the grace period" apart. Three checkpoints make chains that share
one and part again. In `name_truncation` only the order of the three lengths and their excess
matter to a step. A verdict needs two PVCs to be mixed; sharing needs two VMs; one change is
one that happens between any two reads. Two backups are the one that leaves annotations and
the one that finds them.

`CHECK_DEADLOCK FALSE` is set except for `name_truncation`, since these systems come to rest:
operations end and bounds are used up.

**Fairness.** No fault is fair: a request that fails is never a step that fairness asks for, so
that an operation ends because of what the code does with an answer, and not because a request
is bound to fail some day. `backup_cancel`: a `Cancel` call that runs makes its attempts (a Go
call that is not interrupted proceeds; no restart in this run), and the controller handles an
upload with its flag set. `pvc_settles`: Velero goes on polling an operation in progress and lets
`Cancel` proceed, and the controller takes up, binds or cancels each download; it may give one up,
but is not assumed to. `restore_waits`: Velero and `Cancel` as before, the controller brings each
DataDownload to some end, and the clock advances; where the disks are early, Velero gets through
the items. When they are late the PVC plugin is not assumed to create any. Restarts are bounded
in both: a process that restarted before each poll would begin the grace period anew forever.
`delete_shared`: `Execute` proceeds, and Velero, or its user, goes on calling it while some
deletion is not done; no order among them is assumed, since each call either finishes one or is
interrupted, and interruptions are bounded. `cycle_returns`: a restore that has begun goes on,
the controller's part included.

### Findings

1. `backup_success`: `Progress` of the VM backup plugin copies `Status.Message` into `Err` for
   a failed DataUpload (`vm/backup.go:305`). With an empty message the answer is completed
   without an error, and Velero records a success. The PVC restore plugin guards against this
   and tests it; the runs that claim honest reports of `VMBackup` therefore have
   `EmptyFailure = FALSE`, and so does the theorem.
2. `cycle_leftover`: `clearPVCBinding` leaves the stamp on a restored PVC, `pvc/backup.go:136`
   returns the PVC of a VM that is not eligible as it came, and `pvc/restore.go:166` takes a
   stamp for a backup by the data mover. The restore of a backup that took the data by other
   means, of a PVC restored by the data mover before, strips the PVC and waits for a DataDownload
   without data. A VM keeps its annotation in the same way, and is halted.

Two properties speak of the first Restore of a name only: the comments in the code promise the
same to a later one, and the code does not keep it. Without the condition TLC finds a
counterexample to each.

* `GraceIsGranted`: `firstEmptyObservedAt` is keyed by the Restore's name. An operation that ends
  by an error of `Progress`, or whose Restore is deleted, leaves its entry behind, and the
  operation of a Restore recreated under that name may be failed at its first poll without any
  grace (`vm/restore.go:333`). The comment on the map expects it to live as long as the Velero
  server, and to be shared by all plugin instances.
* `FirstSuccessRestoredADisk`: `getDataDownloadsForVM` selects by the names of Backup and Restore
  and by the VM, not by owner (`vm/restore.go:500`). A Restore that is recreated under its name
  while DataDownloads of its predecessor are not yet collected has its VM's operation succeed on
  them, though none of the VM's disks has come back. The PVC plugin refuses such objects by their
  owner (`pvc/restore.go:624`). For every Restore it holds that a success is not contradicted by
  a disk that has an operation (`VMSuccessMeansOwnData`).

Next to these, the comment on `getFirstKubevirtPVC` (`vm/backup.go:459-462`) says that it takes
the first PVC "without snapshot policy", and the code takes the first one with the
kubevirt policy; the model follows the code.

## The proofs

All proofs hold for every value of the constants that satisfies the named assumptions of the
modules: nonempty sets, bounds that are natural numbers, items that are pairs. Every invariant
and action property of every passing run is proved. The types of all variables are proved, too
(`TypeCorrect`, `VMTypeCorrect`); TLC checks those of `VMBackup`. Each module has an inductive
invariant that strengthens the properties:

* `VMBackupProofs`. That the lookup finds exactly the upload of a registered operation is not
  inductive. `IInv` adds that object UIDs are never reused and names are unique (`UploadsInv`),
  that a call which is about to return, and an operation that is registered, hold a UID to
  which only a matching object is bound (`CallsInv`, `OpsInv`), and that only registered
  operations are canceled (`CancelsInv`). A deleted upload's UID is thus bound to nothing,
  never to a successor of the same name. The lemmas reduce every action to one of three
  effects on the uploads: none added, one changed without changing its identity, one created
  under a fresh UID and a free name. For `PromiseIsKept`, the step-by-step refinement of
  `AsyncOperation`, `ListenInv` says that Velero listens to one call per item, and only before
  it has an operation; the theorem assumes that the controller gives a reason for a failure
  (finding 1). `PatchInv`, in this module and the next, accounts for the attempts and the time
  of `Cancel` by requests that failed. `OutcomesAreFinal`, which `KeepsPromise` implies for tracked
  uploads, holds of every upload: nothing undoes a final phase or message (`FinalPhaseStays`).
* `PVCRestoreProofs`. The same `IInv`, from which labels that collide
  take nothing away. Beyond it: PVCs of the data mover are stripped and have an
  operation (`NoneStranded`), the provisioner never has them (`StrippedInv`), a completed
  download has filled its target (`FilledInv`), and what the living Restore was promised exists
  unless third parties interfere (`EpochInv`, `PresentInv`), whence `SuccessIsOwn`. `LocatedInv`
  ties what is bound to a call or an operation to the cached location. The refinement needs no
  assumption on messages here.
* `RestoreOperationsProofs`. Every step of the composition is a step of `PVCRestore`
  (`PVCRestoreIsKept`: the patch of the VM plugin is `VMCancels`), so the invariants of
  `PVCRestoreProofs` carry over. On top of them `VMInv`: DataDownloads have the names, target and
  VM their creator gave them, and no owner from the future (`ShapedInv`); once Velero is through
  the items no call that it listens to is left (`ThroughInv`), so that every operation it has for
  a disk stands for a DataDownload that the lookup finds; a success is only recorded then
  (`SettledInv`), and a success of all found is one of each disk; what a Cancel has found are
  UIDs that will not be used again (`FoundInv`), and names of the VM's own disks (`AimedInv`).
* `VMRestoreProofs`. `StageInv` says for each stage of the VM what its spec, stash and data are;
  the stash of a held VM is only meaningful because the VM was one that starts by itself, which
  the invariant carries along. `RunningIsStarts` (the plugin and KubeVirt agree on which run
  states start a VM) and `StashRoundTrip` (the controller recovers what was stashed) are lemmas
  on the operators. `GraceInv`: the entry of the map is never older than the wait it measures.
  `LoopInv`, `SpentInv` and `OthersInv` describe the loop of `Cancel`: what it is past is asked,
  gone or an error, errors took all attempts or all the time, and others are not asked.
* `VMDeleteProofs`. Index entries and files exist for backups that need them (`IndexInv`,
  `FilesInv`), backups whose deletion is finished need nothing (`BackupsInv`), and `CallInv`
  says what each request may rely on: `LoopInv` splits the index into what the loop has still
  to visit, what it keeps without the reference, and what has lost its files; `FilesGoInv`
  counts the files of the checkpoint at hand. That the loop has a next entry is the
  well-foundedness of the natural numbers.
* `BackupItemsProofs`. `ItemsInv` describes every run of an item that was left alone in terms of
  the VMs as they were collected and of the policies: what a walk has seen so far is what there
  was to see, a verdict reached is the verdict on the collected VM (`RunsInv`), the cached map
  names the collected users (`MapInv`), which are still what they were (`ClusterInv`), and only
  failed requests and sharing make errors (`ErrorsInv`). Two plugins that agree with one
  `Verdict` agree with each other.
* `BackupCycleProofs`. Annotations come from a restore or from the data mover (`MarksInv`), and
  only a restore that has begun holds VMs (`RestoreInv`). For `RestoreIsComplete`, all PVCs of a
  backup by the data mover carry the name of its VM (`StampsInv`), and what has come so far is as
  the backup has it, or on its way (`ComesInv`), until the restore is at rest and its user may
  change things. It assumes that no PVC is called "vm", the model's name for the VM's item.
* `NameTruncationProofs`. The components before the sweep's index are at most one below the
  longest, those behind are not above it (`SweepInv`), and between sweeps none
  exceeds a component that was cut by more than one (`LevelInv`); the deficit is what the variable
  says. `Remaining` falls with every step, since a sweep that runs to its end leaves all components
  below the longest (`LargestAfterSweep`); that there is a next step until the name is
  returned is left to TLC.

Only model-checked: the liveness properties (`CancelStopsUpload`, `OperationSettles` of
`PVCRestore` and of `VMRestore`, `DeletionCompletes`, `MoverBackupBringsBack`), since fairness
and ENABLED are out of the provers' reach. Of some the safe half is proved: a cancel does not
give up early (`CancelIsPersistent`, checked by `pvc_retries` and proved of `VMBackup` too), and a
restore that ends brings the VM back (`RestoreEndsBack`); that the calls and the restore go on is
what the runs add. Likewise no step of the truncation is for nothing (`EveryStepGetsCloser`), and
TLC finds that it never gets stuck. The properties of the two violation runs are false of the
code, and so have no theorem.

## Not modelled

* `vmbackup/discard.go` discards every item and makes no request. `main.go` registers plugins,
  `common/types.go` declares an interface.
* `clients/clients.go` builds the API clients, lazily and without a lock. Two first calls may
  each build one; both serve. The window is the first call of a process, and the models take
  clients as given. The hazard is listed without a property.
* Transfer statistics, descriptions, logging, and the capping of the operation timeout.
* Races of `vm/delete.go` with the controller on the VM's index: the code has no protection
  and the repository does not say when the controller writes, so a model of the race would be
  one of an invented controller.
* A `Cancel` whose lookup fails: it is not retried, nothing asks again, and nothing promises
  more. `CancelStopsUpload` begins where the lookup has succeeded.
* A cancel patch that meets a successor: it is addressed by name, and a DataUpload of a Backup
  recreated within the seconds of a `Cancel` call would get the flag. The model has the step, the
  code no protection; `CancelHitsOwnUpload` and `VMCancelIsAimed` are about other VMs' objects.
* Errors of a patch that are not worth a retry: NotFound is modelled as the object being gone, and
  Invalid does not come of a patch that sets one flag.
* Collisions of the 32-bit digest.
