------------------------------- MODULE VMDelete -------------------------------
(* The VirtualMachine delete plugin, vm/delete.go.  Incremental backups of a   *)
(* VM share checkpoints: each backup's manifest names the chain it needs, and  *)
(* the VM's index lists, per checkpoint, the backups that refer to it.  When   *)
(* Velero deletes a backup, Execute drops its references, deletes the files    *)
(* nobody refers to any more, and updates four kinds of objects in the object  *)
(* store one request at a time.  Every request may fail, before or after it    *)
(* took effect, and the process may die between two of them; Velero then       *)
(* calls Execute again.                                                        *)
(*                                                                             *)
(* The controller's side, which writes what is deleted here, is external.  It  *)
(* does not write while Execute runs, and starts no chain from a backup that   *)
(* is being deleted.                                                           *)
EXTENDS Naturals, FiniteSets

CONSTANTS
    VMs,
    MaxBackups,        \* bound: backups ever taken
    MaxCheckpoints,    \* bound: checkpoints ever taken
    MaxInterruptions   \* bound: failed requests and crashes

\* Both are numbered in the order in which they are begun.
Backups     == 1..MaxBackups
Checkpoints == 1..MaxCheckpoints

\* A checkpoint's objects, in the order Execute deletes them.
Kinds == {"qcow", "vmb", "vmbt"}
KindAt(n) == CASE n = 1 -> "qcow" [] n = 2 -> "vmb" [] n = 3 -> "vmbt"

ASSUME BoundsAssumption ==
    {MaxBackups, MaxCheckpoints, MaxInterruptions} \subseteq Nat

VARIABLES
    \* the object store
    files,       \* <<vm, checkpoint, kind>> of the stored checkpoint objects
    index,       \* per VM, the index entries; no entries: no index object
    chains,      \* per backup and VM, the manifest's chain; {}: no manifest
    manifest,    \* per backup, the VMs its manifest lists; {}: no manifest
    \* Velero
    stage,       \* per backup: "none", "stored", "deleting"
    finished,    \* <<backup, VM>> whose Execute has returned without error
    \* the running Execute
    call,
    \* the environment's bounds
    taken, interruptions

store == <<files, index, chains, manifest>>
vars  == <<store, stage, finished, call, taken, interruptions>>

Entries == [id : Checkpoints, referencedBy : SUBSET Backups]

NoCall == [pc |-> "idle"]

CallStates ==
    {NoCall} \cup
    [pc : {"manifest", "index", "visit", "files", "backup", "update", "last"},
     backup : Backups, vm : VMs, chain : SUBSET Checkpoints,
     todo : SUBSET Entries, kept : SUBSET Entries, part : 1..3,
     listed : SUBSET VMs]

Init ==
    /\ files = {} /\ index = [v \in VMs |-> {}]
    /\ chains = [bv \in Backups \X VMs |-> {}]
    /\ manifest = [b \in Backups |-> {}]
    /\ stage = [b \in Backups |-> "none"] /\ finished = {}
    /\ call = NoCall
    /\ taken = 0 /\ interruptions = 0

-------------------------------------------------------------------------------
(* What the controller stores, and Velero's part.                              *)

\* The chains a new checkpoint of VM v may extend: none, for a full backup, or
\* that of a stored backup.
BaseChains(v) ==
    {{}} \cup {chains[<<b, v>>] : b \in {b \in Backups : stage[b] = "stored"}}

\* The upload of VM v for backup b: a new checkpoint on top of a base chain, to
\* each member of which b becomes a reference.
Upload(b, v) ==
    /\ call = NoCall /\ stage[b] # "deleting"
    /\ \A earlier \in 1..(b - 1) : stage[earlier] # "none"
    /\ chains[<<b, v>>] = {}
    /\ taken < MaxCheckpoints /\ taken' = taken + 1
    /\ \E base \in BaseChains(v) :
          LET new == taken + 1
              referenced(e) == IF e.id \in base
                               THEN [e EXCEPT !.referencedBy = @ \cup {b}]
                               ELSE e
          IN /\ files' = files \cup {<<v, new, k>> : k \in Kinds}
             /\ index' = [index EXCEPT ![v] = {referenced(e) : e \in @}
                              \cup {[id |-> new, referencedBy |-> {b}]}]
             /\ chains' = [chains EXCEPT ![<<b, v>>] = base \cup {new}]
    /\ manifest' = [manifest EXCEPT ![b] = @ \cup {v}]
    /\ stage' = [stage EXCEPT ![b] = "stored"]
    /\ UNCHANGED <<finished, call, interruptions>>

DeleteBackup(b) ==
    /\ stage[b] = "stored" /\ call = NoCall
    /\ stage' = [stage EXCEPT ![b] = "deleting"]
    /\ UNCHANGED <<store, finished, call, taken, interruptions>>

\* Velero calls Execute for the backup's VMs until each call has succeeded.
Execute(b, v) ==
    /\ call = NoCall /\ stage[b] = "deleting" /\ <<b, v>> \notin finished
    /\ call' = [pc |-> "manifest", backup |-> b, vm |-> v, chain |-> {},
                todo |-> {}, kept |-> {}, part |-> 1, listed |-> {}]
    /\ UNCHANGED <<store, stage, finished, taken, interruptions>>

\* A request fails, or the process dies: Execute ends where it is.
Interrupt ==
    /\ call # NoCall
    /\ interruptions < MaxInterruptions
    /\ interruptions' = interruptions + 1
    /\ call' = NoCall
    /\ UNCHANGED <<store, stage, finished, taken>>

-------------------------------------------------------------------------------
(* The requests of one Execute, in order.                                      *)

At(pc) == call.pc = pc

Succeed == /\ call' = NoCall
           /\ finished' = finished \cup {<<call.backup, call.vm>>}

\* Without a manifest there is nothing (left) to do.
GetVMBackupManifest ==
    /\ At("manifest")
    /\ LET chain == chains[<<call.backup, call.vm>>] IN
       IF chain = {}
       THEN Succeed
       ELSE call' = [call EXCEPT !.pc = "index", !.chain = chain]
            /\ UNCHANGED finished
    /\ UNCHANGED <<store, stage, taken, interruptions>>

\* Mutant: a missing index is an error, and Execute ends without success.
MissingIndexIsAnError ==
    /\ At("index")
    /\ call' = IF index[call.vm] = {}
               THEN NoCall
               ELSE [call EXCEPT !.pc = "visit", !.todo = index[call.vm]]
    /\ UNCHANGED <<store, stage, finished, taken, interruptions>>

\* Without an index the checkpoints are skipped.
GetVMIndex ==
    /\ At("index")
    /\ call' = IF index[call.vm] = {}
               THEN [call EXCEPT !.pc = "backup"]
               ELSE [call EXCEPT !.pc = "visit", !.todo = index[call.vm]]
    /\ UNCHANGED <<store, stage, finished, taken, interruptions>>

\* The entry the loop is at, and the references that are left on it.
Current == CHOOSE e \in call.todo : \A f \in call.todo : e.id <= f.id

\* Mutant: a chain's checkpoint goes although other backups refer to it.
NoReferences(e) == IF e.id \in call.chain THEN {} ELSE e.referencedBy

\* Mutant: the backup's own reference stays on older checkpoints.
LastReferenceOnly(e) ==
    IF \A c \in call.chain : c <= e.id
    THEN e.referencedBy \ {call.backup}
    ELSE e.referencedBy

ReferencesLeft(e) == IF e.id \in call.chain
                     THEN e.referencedBy \ {call.backup}
                     ELSE e.referencedBy

\* An entry with references is kept; the files of one without are deleted.
Visit ==
    /\ At("visit") /\ call.todo # {}
    /\ LET left == ReferencesLeft(Current) IN
       call' = IF left = {}
               THEN [call EXCEPT !.pc = "files", !.part = 1]
               ELSE [call EXCEPT !.todo = @ \ {Current},
                        !.kept = @ \cup {[id |-> Current.id,
                                          referencedBy |-> left]}]
    /\ UNCHANGED <<store, stage, finished, taken, interruptions>>

\* One deletion, after which the store is one of results; count kinds in all.
FileStep(results, count) ==
    /\ At("files")
    /\ files' \in results
    /\ call' = IF call.part < count
               THEN [call EXCEPT !.part = @ + 1]
               ELSE [call EXCEPT !.pc = "visit", !.todo = @ \ {Current}]
    /\ UNCHANGED <<index, chains, manifest, stage, finished, taken,
                   interruptions>>

CurrentFile == <<call.vm, Current.id, KindAt(call.part)>>

\* Mutant: the loop goes on although the file could not be deleted.
FileFailureIgnored == FileStep({files, files \ {CurrentFile}}, 3)

\* DeleteQCOW, DeleteVMB and DeleteVMBT, which are repeatable.
DeleteFile == FileStep({files \ {CurrentFile}}, 3)

\* PutVMIndex, or DeleteVMIndex when no entry is left.
WriteVMIndex ==
    /\ At("visit") /\ call.todo = {}
    /\ index' = [index EXCEPT ![call.vm] = call.kept]
    /\ call' = [call EXCEPT !.pc = "backup"]
    /\ UNCHANGED <<files, chains, manifest, stage, finished, taken,
                   interruptions>>

GetBackupManifest ==
    /\ At("backup")
    /\ LET listed == manifest[call.backup] IN
       call' = IF listed = {}
               THEN [call EXCEPT !.pc = "last"]
               ELSE [call EXCEPT !.pc = "update", !.listed = listed \ {call.vm}]
    /\ UNCHANGED <<store, stage, finished, taken, interruptions>>

\* PutBackupManifest, or DeleteBackupManifest when no VM is left.
WriteBackupManifest ==
    /\ At("update")
    /\ manifest' = [manifest EXCEPT ![call.backup] = call.listed]
    /\ call' = [call EXCEPT !.pc = "last"]
    /\ UNCHANGED <<files, index, chains, stage, finished, taken, interruptions>>

\* The VM's manifest goes last: it is what makes a repeated Execute resume.
DeleteVMBackupManifest ==
    /\ At("last")
    /\ chains' = [chains EXCEPT ![<<call.backup, call.vm>>] = {}]
    /\ Succeed
    /\ UNCHANGED <<files, index, manifest, stage, taken, interruptions>>

Steps == \/ GetVMBackupManifest
         \/ GetVMIndex
         \/ Visit
         \/ DeleteFile
         \/ WriteVMIndex
         \/ GetBackupManifest
         \/ WriteBackupManifest
         \/ DeleteVMBackupManifest

Next ==
    \/ \E b \in Backups, v \in VMs : Upload(b, v) \/ Execute(b, v)
    \/ \E b \in Backups : DeleteBackup(b)
    \/ Interrupt
    \/ Steps

Spec == Init /\ [][Next]_vars

\* Execute runs on, and Velero's deletion controller repeats what failed.
Fairness == /\ WF_vars(Steps)
            /\ WF_vars(\E b \in Backups, v \in VMs : Execute(b, v))

FairSpec == Spec /\ Fairness

-------------------------------------------------------------------------------
(* Properties.                                                                 *)

TypeOK ==
    /\ files \subseteq VMs \X Checkpoints \X Kinds
    /\ index \in [VMs -> SUBSET Entries]
    /\ chains \in [Backups \X VMs -> SUBSET Checkpoints]
    /\ manifest \in [Backups -> SUBSET VMs]
    /\ stage \in [Backups -> {"none", "stored", "deleting"}]
    /\ finished \subseteq Backups \X VMs
    /\ call \in CallStates
    /\ taken \in 0..MaxCheckpoints /\ interruptions \in 0..MaxInterruptions

\* Deleting one backup, however often it is interrupted and repeated, never
\* breaks another: every checkpoint in the chain of a backup that is not being
\* deleted has all its files and an index entry that names the backup.
KeptBackupsAreRestorable ==
    \A b \in Backups, v \in VMs : stage[b] = "stored" =>
        \A c \in chains[<<b, v>>] :
            /\ \A k \in Kinds : <<v, c, k>> \in files
            /\ \E e \in index[v] : e.id = c /\ b \in e.referencedBy

\* Nothing is leaked: a stored file belongs to a checkpoint that the index
\* lists and that some backup's manifest still needs, so a later Execute can
\* find it.
NoStrayFiles ==
    \A v \in VMs, c \in Checkpoints, k \in Kinds : <<v, c, k>> \in files =>
        /\ \E e \in index[v] : e.id = c
        /\ \E b \in Backups : c \in chains[<<b, v>>]

\* Execute reports success only when no trace of the backup is left on the VM:
\* a repeated call that finds no manifest is right to skip everything else.
SuccessLeavesNoTrace ==
    \A b \in Backups, v \in VMs : <<b, v>> \in finished =>
        /\ chains[<<b, v>>] = {} /\ v \notin manifest[b]
        /\ \A e \in index[v] : b \notin e.referencedBy

\* A deletion that failed half way can always be resumed to its end.
DeletionCompletes ==
    <>[](\A b \in Backups, v \in VMs :
             stage[b] = "deleting" => <<b, v>> \in finished)

===============================================================================
