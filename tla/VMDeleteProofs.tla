---------------------------- MODULE VMDeleteProofs -----------------------------
(* Proofs about VMDelete, for any number of VMs, backups and checkpoints and   *)
(* any number of interruptions: the deletion of a backup breaks no other, leaks *)
(* no file, and leaves no trace when it reports success.                       *)
EXTENDS VMDelete, TLAPS, WellFoundedInduction

-------------------------------------------------------------------------------
(* The inductive invariant.                                                    *)

Listed(v, c) == \E e \in index[v] : e.id = c

\* One entry per checkpoint; each is there for some backup that needs it.
IndexInv ==
    \A v \in VMs : \A e \in index[v] :
        /\ e.id <= taken /\ e.referencedBy # {}
        /\ \A f \in index[v] : f.id = e.id => f = e
        /\ \A b \in e.referencedBy : e.id \in chains[<<b, v>>]

FilesInv ==
    \A v \in VMs, c \in Checkpoints, k \in Kinds :
        <<v, c, k>> \in files => Listed(v, c)

BackupsInv ==
    \A b \in Backups, v \in VMs :
        /\ stage[b] = "none" \/ <<b, v>> \in finished => chains[<<b, v>>] = {}
        /\ <<b, v>> \in finished => stage[b] = "deleting"
        /\ v \in manifest[b] => chains[<<b, v>>] # {}

\* While the loop runs, what it has been through is either kept, without the
\* reference, or its files are gone.
LoopInv ==
    /\ call.todo \subseteq index[call.vm]
    /\ \A k \in call.kept : \E e \in index[call.vm] :
          k.id = e.id /\ k.referencedBy = ReferencesLeft(e)
              /\ ReferencesLeft(e) # {}
    /\ \A e \in index[call.vm] \ call.todo :
          IF ReferencesLeft(e) = {}
          THEN \A k \in Kinds : <<call.vm, e.id, k>> \notin files
          ELSE [id |-> e.id, referencedBy |-> ReferencesLeft(e)] \in call.kept

FilesGoInv ==
    /\ call.todo # {} /\ ReferencesLeft(Current) = {}
    /\ \A n \in 1..3 :
          n < call.part => <<call.vm, Current.id, KindAt(n)>> \notin files

\* What each request of Execute may rely on.
CallInv ==
    call # NoCall =>
        /\ stage[call.backup] = "deleting"
        /\ call.pc \in {"manifest", "index"} => call.kept = {}
        /\ call.pc # "manifest" => call.chain = chains[<<call.backup, call.vm>>]
        /\ call.pc \in {"visit", "files"} => LoopInv
        /\ call.pc = "files" => FilesGoInv
        /\ call.pc \in {"backup", "update", "last"} =>
              \A e \in index[call.vm] : call.backup \notin e.referencedBy
        /\ call.pc = "update" =>
              call.listed = manifest[call.backup] \ {call.vm}
        /\ call.pc = "last" => call.vm \notin manifest[call.backup]

IInv == TypeOK /\ IndexInv /\ FilesInv /\ BackupsInv /\ CallInv
            /\ KeptBackupsAreRestorable

-------------------------------------------------------------------------------
(* The running call.                                                           *)

CallRecords ==
    [pc : {"manifest", "index", "visit", "files", "backup", "update", "last"},
     backup : Backups, vm : VMs, chain : SUBSET Checkpoints,
     todo : SUBSET Entries, kept : SUBSET Entries, part : 1..3,
     listed : SUBSET VMs]

LEMMA CallType ==
    ASSUME TypeOK
    PROVE  /\ call # NoCall <=> call \in CallRecords
           /\ call.pc # "idle" <=> call \in CallRecords
           /\ CallRecords \subseteq CallStates /\ NoCall \in CallStates
           /\ NoCall.pc = "idle" /\ NoCall \notin CallRecords
<1>1. CallStates = {NoCall} \cup CallRecords
  BY DEF CallStates, CallRecords
<1>2. \A r \in CallRecords : r.pc # "idle"
  BY DEF CallRecords
<1>3. NoCall.pc = "idle"
  BY DEF NoCall
<1>4. call = NoCall \/ call \in CallRecords
  BY <1>1 DEF TypeOK
<1> QED
  BY <1>1, <1>2, <1>3, <1>4

\* The loop's entry exists: ids are numbers, so a set of entries has a first.
LEMMA CurrentType ==
    ASSUME NEW todo \in SUBSET Entries, todo # {}
    PROVE  (CHOOSE e \in todo : \A f \in todo : e.id <= f.id) \in todo
<1> DEFINE ids == {e.id : e \in todo}
<1>1. ids \subseteq Nat /\ ids # {}
  BY DEF Entries, Checkpoints
<1> HIDE DEF ids
<1>2. \E x \in ids : \A y \in ids : <<y, x>> \notin OpToRel(<, Nat)
  BY <1>1, NatLessThanWellFounded, WFMin
<1>3. \A x, y \in Nat : <<y, x>> \in OpToRel(<, Nat) <=> y < x
  BY DEF OpToRel
<1>4. PICK x \in ids : \A y \in ids : <<y, x>> \notin OpToRel(<, Nat)
  BY <1>2
<1>5. x \in Nat /\ \A y \in ids : y \in Nat /\ ~(y < x)
  BY <1>1, <1>3, <1>4
<1>6. \A y \in ids : x <= y
  BY <1>5
<1>7. \E e \in todo : \A f \in todo : e.id <= f.id
  BY <1>6 DEF ids
<1> QED
  BY <1>7

LEMMA CurrentIsDue ==
    ASSUME TypeOK, call \in CallRecords, call.todo # {}
    PROVE  Current \in call.todo
  BY CurrentType DEF Current, CallRecords

LEMMA InitIInv == Init => IInv
<1> SUFFICES ASSUME Init PROVE IInv
  OBVIOUS
<1>1. TypeOK
  BY BoundsAssumption DEF Init, TypeOK, CallStates
<1>2. IndexInv /\ FilesInv /\ BackupsInv
  BY DEF Init, IndexInv, FilesInv, BackupsInv
<1>3. CallInv /\ KeptBackupsAreRestorable
  BY DEF Init, CallInv, KeptBackupsAreRestorable
<1> QED
  BY <1>1, <1>2, <1>3 DEF IInv

-------------------------------------------------------------------------------
(* A backup is taken: nobody refers to the new checkpoint, and everything that *)
(* refers to an old one still does.                                            *)

\* What the index entry e becomes when backup b extends the chain base.
Referenced(e, base, b) ==
    IF e.id \in base THEN [e EXCEPT !.referencedBy = @ \cup {b}] ELSE e

LEMMA ReferencedType ==
    ASSUME NEW e \in Entries, NEW base, NEW b \in Backups
    PROVE  /\ Referenced(e, base, b) \in Entries
           /\ Referenced(e, base, b).id = e.id
           /\ Referenced(e, base, b).referencedBy =
                  IF e.id \in base THEN e.referencedBy \cup {b}
                                   ELSE e.referencedBy
  BY DEF Referenced, Entries

LEMMA UploadStep ==
    ASSUME IInv, NEW b \in Backups, NEW v \in VMs, Upload(b, v)
    PROVE  IInv'
<1> DEFINE new == taken + 1
<1>1. PICK base \in BaseChains(v) :
          /\ files' = files \cup {<<v, new, k>> : k \in Kinds}
          /\ index' = [index EXCEPT ![v] =
                 {Referenced(e, base, b) : e \in index[v]}
                     \cup {[id |-> new, referencedBy |-> {b}]}]
          /\ chains' = [chains EXCEPT ![<<b, v>>] = base \cup {new}]
  BY DEF Upload, Referenced
<1>2. /\ call = NoCall /\ call' = NoCall /\ stage[b] # "deleting"
      /\ chains[<<b, v>>] = {} /\ new \in Checkpoints /\ taken' = new
      /\ manifest' = [manifest EXCEPT ![b] = manifest[b] \cup {v}]
      /\ stage' = [stage EXCEPT ![b] = "stored"]
      /\ finished' = finished /\ interruptions' = interruptions
  BY BoundsAssumption DEF Upload, IInv, TypeOK, Checkpoints
<1>3. /\ files \subseteq VMs \X Checkpoints \X Kinds
      /\ index \in [VMs -> SUBSET Entries]
      /\ chains \in [Backups \X VMs -> SUBSET Checkpoints]
      /\ manifest \in [Backups -> SUBSET VMs]
      /\ stage \in [Backups -> {"none", "stored", "deleting"}]
      /\ taken \in 0..MaxCheckpoints
  BY DEF IInv, TypeOK
\* What the base chain rests on.
<1> DEFINE Sound(chain) ==
               /\ chain \subseteq Checkpoints
               /\ \A c \in chain : /\ \A k \in Kinds : <<v, c, k>> \in files
                                   /\ \E e \in index[v] : e.id = c
<1>4. Sound(base)
  <2>1. CASE base = {}
    BY <2>1
  <2>2. ASSUME NEW d \in Backups, stage[d] = "stored", base = chains[<<d, v>>]
        PROVE  Sound(base)
    BY <1>3, <2>2 DEF IInv, KeptBackupsAreRestorable
  <2> QED
    BY <1>1, <2>1, <2>2 DEF BaseChains
<1>5. /\ \A w \in VMs \ {v} : index'[w] = index[w]
      /\ \A e \in index'[v] :
            \/ e = [id |-> new, referencedBy |-> {b}]
            \/ \E o \in index[v] : e = Referenced(o, base, b)
      /\ \A o \in index[v] : Referenced(o, base, b) \in index'[v]
      /\ [id |-> new, referencedBy |-> {b}] \in index'[v]
  BY <1>1, <1>3
<1>6. /\ \A d \in Backups, w \in VMs :
            <<d, w>> # <<b, v>> => chains'[<<d, w>>] = chains[<<d, w>>]
      /\ chains'[<<b, v>>] = base \cup {new}
  BY <1>1, <1>3
<1>7. TypeOK'
  <2>1. files' \subseteq VMs \X Checkpoints \X Kinds
    BY <1>1, <1>2, <1>3
  <2>2. [id |-> new, referencedBy |-> {b}] \in Entries
    BY <1>2 DEF Entries
  <2>3. index' \in [VMs -> SUBSET Entries]
    <3>1. ASSUME NEW e \in index[v] PROVE Referenced(e, base, b) \in Entries
      <4>1. e \in Entries
        BY <1>3
      <4> QED
        BY <4>1, ReferencedType
    <3> QED
      BY <1>1, <1>3, <2>2, <3>1
  <2>4. chains' \in [Backups \X VMs -> SUBSET Checkpoints]
    BY <1>1, <1>2, <1>3, <1>4
  <2>5. taken' \in 0..MaxCheckpoints
    BY <1>2 DEF Checkpoints
  <2> QED
    BY <1>2, <1>3, <2>1, <2>3, <2>4, <2>5 DEF TypeOK, IInv
<1>8. \A o \in index[v] :
          /\ o.id # new /\ o.id <= new
          /\ Referenced(o, base, b).id = o.id
          /\ o.referencedBy \subseteq Referenced(o, base, b).referencedBy
          /\ Referenced(o, base, b).referencedBy \subseteq o.referencedBy \cup {b}
          /\ b \in Referenced(o, base, b).referencedBy =>
                o.id \in base \/ b \in o.referencedBy
          /\ o.id \in base => b \in Referenced(o, base, b).referencedBy
  <2> TAKE o \in index[v]
  <2>1. o \in Entries /\ o.id \in Nat /\ o.id <= taken /\ taken \in Nat
    BY <1>3 DEF IInv, IndexInv, Entries, Checkpoints
  <2>2. o.id # new /\ o.id <= new
    BY <2>1
  <2>3. /\ Referenced(o, base, b).id = o.id
        /\ Referenced(o, base, b).referencedBy =
               IF o.id \in base THEN o.referencedBy \cup {b}
                                ELSE o.referencedBy
    BY <2>1, ReferencedType
  <2> QED
    BY <2>2, <2>3
<1>9. new \in Nat
  BY <1>2 DEF Checkpoints
<1> HIDE DEF new
<1>10. IndexInv'
  <2>1. ASSUME NEW w \in VMs, w # v, NEW e \in index'[w]
        PROVE  /\ e.id <= new /\ e.referencedBy # {}
               /\ \A f \in index'[w] : f.id = e.id => f = e
               /\ \A d \in e.referencedBy : e.id \in chains'[<<d, w>>]
    <3>1. e \in index[w] /\ index'[w] = index[w] /\ e \in Entries
      BY <1>3, <1>5, <2>1
    <3>2. \A d \in Backups : chains'[<<d, w>>] = chains[<<d, w>>]
      BY <1>6, <2>1
    <3>3. e.id <= new
      <4>1. e.id \in Nat /\ e.id <= taken /\ taken \in Nat
        BY <1>3, <3>1 DEF IInv, IndexInv, Entries, Checkpoints
      <4> QED
        BY <4>1 DEF new
    <3> QED
      BY <3>1, <3>2, <3>3 DEF IInv, IndexInv, Entries
  <2> DEFINE EntryInv(e) ==
                 /\ e.id <= new /\ e.referencedBy # {}
                 /\ \A f \in index'[v] : f.id = e.id => f = e
                 /\ \A d \in e.referencedBy : e.id \in chains'[<<d, v>>]
  <2>2. ASSUME NEW e \in index'[v]
        PROVE  EntryInv(e)
    <3>1. CASE e = [id |-> new, referencedBy |-> {b}]
      <4>1. e.id = new /\ e.referencedBy = {b}
        BY <3>1
      <4>2. \A f \in index'[v] : f.id = e.id => f = e
        BY <1>5, <1>8, <3>1, <4>1
      <4> QED
        BY <1>6, <1>9, <4>1, <4>2
    <3>2. ASSUME NEW o \in index[v], e = Referenced(o, base, b)
          PROVE  EntryInv(e)
      <4>1. e.id <= new /\ e.referencedBy # {}
        BY <1>8, <3>2 DEF IInv, IndexInv
      <4>2. \A f \in index'[v] : f.id = e.id => f = e
        BY <1>5, <1>8, <3>2 DEF IInv, IndexInv
      <4>3. o \in Entries /\ o.referencedBy \subseteq Backups
            /\ b \notin o.referencedBy
        BY <1>2, <1>3 DEF IInv, IndexInv, Entries
      <4>4. ASSUME NEW d \in e.referencedBy PROVE e.id \in chains'[<<d, v>>]
        BY <1>6, <1>8, <3>2, <4>3, <4>4 DEF IInv, IndexInv
      <4> QED
        BY <4>1, <4>2, <4>4
    <3> QED
      BY <1>5, <3>1, <3>2
  <2> QED
    BY <1>2, <2>1, <2>2 DEF IndexInv
<1>11. ASSUME NEW w \in VMs, NEW c, Listed(w, c)
       PROVE  Listed(w, c)'
  BY <1>5, <1>8, <1>11 DEF Listed
<1>12. FilesInv'
  BY <1>1, <1>5, <1>11 DEF FilesInv, IInv, Listed
<1>13. BackupsInv'
  BY <1>2, <1>3, <1>6 DEF BackupsInv, IInv
<1>14. CallInv'
  BY <1>2 DEF CallInv
<1>15. KeptBackupsAreRestorable'
  <2> SUFFICES ASSUME NEW d \in Backups, NEW w \in VMs, stage'[d] = "stored",
                      NEW c \in chains'[<<d, w>>]
               PROVE  /\ \A k \in Kinds : <<w, c, k>> \in files'
                      /\ \E e \in index'[w] : e.id = c /\ d \in e.referencedBy
    BY DEF KeptBackupsAreRestorable
  <2>1. CASE <<d, w>> = <<b, v>>
    <3>1. CASE c = new
      BY <1>1, <1>5, <2>1, <3>1
    <3>2. CASE c \in base
      BY <1>1, <1>4, <1>5, <1>8, <2>1, <3>2
    <3> QED
      BY <1>6, <2>1, <3>1, <3>2
  <2>2. CASE <<d, w>> # <<b, v>>
    <3>1. c \in chains[<<d, w>>] /\ stage[d] = "stored"
      BY <1>2, <1>3, <1>6, <2>2 DEF IInv, BackupsInv
    <3>2. PICK o \in index[w] : o.id = c /\ d \in o.referencedBy
      BY <3>1 DEF IInv, KeptBackupsAreRestorable
    <3>3. \E e \in index'[w] : e.id = c /\ d \in e.referencedBy
      BY <1>5, <1>8, <3>2
    <3>4. \A k \in Kinds : <<w, c, k>> \in files'
      BY <1>1, <3>1 DEF IInv, KeptBackupsAreRestorable
    <3> QED
      BY <3>3, <3>4
  <2> QED
    BY <2>1, <2>2
<1> QED
  BY <1>7, <1>10, <1>12, <1>13, <1>14, <1>15 DEF IInv

-------------------------------------------------------------------------------
(* Velero's steps, and interruptions.                                          *)

\* The store's part of the invariant stays when the store does, as backups only
\* go from "stored" to "deleting".
LEMMA StoreFrame ==
    ASSUME IInv, UNCHANGED <<store, taken, finished>>,
           \A b \in Backups : \/ stage'[b] = stage[b]
                              \/ stage[b] = "stored" /\ stage'[b] = "deleting"
    PROVE  IndexInv' /\ FilesInv' /\ BackupsInv' /\ KeptBackupsAreRestorable'
<1>1. IndexInv'
  BY DEF IInv, IndexInv, store
<1>2. FilesInv'
  BY DEF IInv, FilesInv, Listed, store
<1>3. BackupsInv'
  BY DEF IInv, BackupsInv, store
<1>4. KeptBackupsAreRestorable'
  BY DEF IInv, KeptBackupsAreRestorable, store
<1> QED
  BY <1>1, <1>2, <1>3, <1>4

LEMMA DeleteBackupStep ==
    ASSUME IInv, NEW b \in Backups, DeleteBackup(b)
    PROVE  IInv'
<1>1. stage' = [stage EXCEPT ![b] = "deleting"] /\ stage[b] = "stored"
      /\ stage \in [Backups -> {"none", "stored", "deleting"}]
  BY DEF DeleteBackup, IInv, TypeOK
<1>2. TypeOK'
  BY <1>1 DEF DeleteBackup, IInv, TypeOK, store
<1>3. CallInv'
  BY DEF DeleteBackup, CallInv
<1> QED
  BY <1>1, <1>2, <1>3, StoreFrame DEF DeleteBackup, IInv

LEMMA ExecuteStep ==
    ASSUME IInv, NEW b \in Backups, NEW v \in VMs, Execute(b, v)
    PROVE  IInv'
<1>1. call' = [pc |-> "manifest", backup |-> b, vm |-> v, chain |-> {},
               todo |-> {}, kept |-> {}, part |-> 1, listed |-> {}]
  BY DEF Execute
<1>2. call' \in CallRecords
  BY <1>1 DEF CallRecords
<1>3. TypeOK'
  BY <1>2, CallType DEF Execute, IInv, TypeOK, store
<1>4. CallInv'
  BY <1>1 DEF Execute, CallInv
<1> QED
  BY <1>3, <1>4, StoreFrame DEF Execute, IInv

LEMMA InterruptStep == ASSUME IInv, Interrupt PROVE IInv'
<1>1. TypeOK'
  BY BoundsAssumption, CallType DEF Interrupt, IInv, TypeOK, store
<1>2. CallInv'
  BY DEF Interrupt, CallInv
<1> QED
  BY <1>1, <1>2, StoreFrame DEF Interrupt, IInv

-------------------------------------------------------------------------------
(* The requests of Execute that only read.                                     *)

LEMMA ReferencesLeftType ==
    ASSUME NEW e \in Entries
    PROVE  [id |-> e.id, referencedBy |-> ReferencesLeft(e)] \in Entries
  BY DEF Entries, ReferencesLeft

\* A step of Execute that leaves the store alone, to another request.
LEMMA ReadFrame ==
    ASSUME IInv, UNCHANGED <<store, stage, finished, taken, interruptions>>,
           call' \in CallRecords, CallInv'
    PROVE  IInv'
<1>1. TypeOK'
  BY CallType DEF IInv, TypeOK, store
<1> QED
  BY <1>1, StoreFrame DEF IInv

LEMMA GetVMBackupManifestStep ==
    ASSUME IInv, GetVMBackupManifest
    PROVE  IInv'
<1>1. call \in CallRecords /\ call.pc = "manifest" /\ call # NoCall
      /\ stage[call.backup] = "deleting" /\ call.kept = {}
  BY CallType DEF IInv, GetVMBackupManifest, At, CallInv
<1>2. call.backup \in Backups /\ call.vm \in VMs
  BY <1>1 DEF CallRecords
<1>3. CASE chains[<<call.backup, call.vm>>] = {}
  <2>1. /\ call' = NoCall /\ finished' = finished \cup {<<call.backup, call.vm>>}
        /\ UNCHANGED <<store, stage, taken, interruptions>>
    BY <1>3 DEF GetVMBackupManifest, Succeed
  <2>2. TypeOK'
    BY <1>2, <2>1, CallType DEF IInv, TypeOK, store
  <2>3. CallInv'
    BY <2>1 DEF CallInv
  <2>4. BackupsInv'
    BY <1>1, <1>3, <2>1 DEF IInv, BackupsInv, store
  <2>5. IndexInv' /\ FilesInv' /\ KeptBackupsAreRestorable'
    BY <2>1
    DEF IInv, IndexInv, FilesInv, Listed, KeptBackupsAreRestorable, store
  <2> QED
    BY <2>2, <2>3, <2>4, <2>5 DEF IInv
<1>4. CASE chains[<<call.backup, call.vm>>] # {}
  <2>1. /\ call' = [call EXCEPT !.pc = "index",
                                !.chain = chains[<<call.backup, call.vm>>]]
        /\ UNCHANGED <<store, stage, finished, taken, interruptions>>
    BY <1>4 DEF GetVMBackupManifest
  <2>2. chains[<<call.backup, call.vm>>] \in SUBSET Checkpoints
    BY <1>2 DEF IInv, TypeOK
  <2>3. /\ call' \in CallRecords /\ call'.pc = "index" /\ call'.kept = {}
        /\ call'.backup = call.backup /\ call'.vm = call.vm
        /\ call'.chain = chains[<<call.backup, call.vm>>]
    BY <1>1, <2>1, <2>2 DEF CallRecords
  <2>4. CallInv'
    BY <1>1, <2>1, <2>3 DEF CallInv, store
  <2> QED
    BY <2>1, <2>3, <2>4, ReadFrame
<1> QED
  BY <1>3, <1>4

LEMMA GetVMIndexStep ==
    ASSUME IInv, GetVMIndex
    PROVE  IInv'
<1>1. /\ call \in CallRecords /\ call.pc = "index" /\ call # NoCall
      /\ stage[call.backup] = "deleting" /\ call.kept = {}
      /\ call.chain = chains[<<call.backup, call.vm>>]
      /\ UNCHANGED <<store, stage, finished, taken, interruptions>>
  BY CallType DEF IInv, GetVMIndex, At, CallInv
<1>2. index[call.vm] \in SUBSET Entries
  BY <1>1 DEF CallRecords, IInv, TypeOK
<1>3. CASE index[call.vm] = {}
  <2>1. call' = [call EXCEPT !.pc = "backup"]
    BY <1>3 DEF GetVMIndex
  <2>2. /\ call' \in CallRecords /\ call'.pc = "backup"
        /\ call'.backup = call.backup /\ call'.vm = call.vm
        /\ call'.chain = call.chain
    BY <1>1, <2>1 DEF CallRecords
  <2>3. CallInv'
    BY <1>1, <1>3, <2>2 DEF CallInv, store
  <2> QED
    BY <1>1, <2>2, <2>3, ReadFrame
<1>4. CASE index[call.vm] # {}
  <2>1. call' = [call EXCEPT !.pc = "visit", !.todo = index[call.vm]]
    BY <1>4 DEF GetVMIndex
  <2>2. /\ call' \in CallRecords /\ call'.pc = "visit"
        /\ call'.backup = call.backup /\ call'.vm = call.vm
        /\ call'.chain = call.chain
        /\ call'.todo = index[call.vm] /\ call'.kept = {}
    BY <1>1, <1>2, <2>1 DEF CallRecords
  <2>3. LoopInv'
    BY <1>1, <2>2 DEF LoopInv, store
  <2>4. CallInv'
    BY <1>1, <2>2, <2>3 DEF CallInv, store
  <2> QED
    BY <1>1, <2>2, <2>4, ReadFrame
<1> QED
  BY <1>3, <1>4

LEMMA VisitStep ==
    ASSUME IInv, Visit
    PROVE  IInv'
<1>1. /\ call \in CallRecords /\ call.pc = "visit" /\ call # NoCall
      /\ stage[call.backup] = "deleting" /\ LoopInv
      /\ call.chain = chains[<<call.backup, call.vm>>] /\ call.todo # {}
      /\ UNCHANGED <<store, stage, finished, taken, interruptions>>
  BY CallType DEF IInv, Visit, At, CallInv
<1>2. Current \in call.todo /\ call.todo \subseteq Entries
      /\ call.kept \subseteq Entries
  BY <1>1, CurrentIsDue DEF IInv, CallRecords
<1>3. CASE ReferencesLeft(Current) = {}
  <2>1. call' = [call EXCEPT !.pc = "files", !.part = 1]
    BY <1>3 DEF Visit
  <2>2. /\ call' \in CallRecords /\ call'.pc = "files" /\ call'.part = 1
        /\ call'.backup = call.backup /\ call'.vm = call.vm
        /\ call'.chain = call.chain
        /\ call'.todo = call.todo /\ call'.kept = call.kept
    <3>1. 1 \in 1..3
      OBVIOUS
    <3> QED
      BY <1>1, <2>1, <3>1 DEF CallRecords
  <2>3. Current' = Current /\ \A e : ReferencesLeft(e)' = ReferencesLeft(e)
    BY <2>2 DEF Current, ReferencesLeft
  <2>4. LoopInv'
    BY <1>1, <2>2, <2>3 DEF LoopInv, store
  <2>5. FilesGoInv'
    BY <1>1, <1>3, <2>2, <2>3 DEF FilesGoInv
  <2>6. CallInv'
    BY <1>1, <2>2, <2>4, <2>5 DEF CallInv, store
  <2> QED
    BY <1>1, <2>2, <2>6, ReadFrame
<1>4. CASE ReferencesLeft(Current) # {}
  <2> DEFINE k == [id |-> Current.id, referencedBy |-> ReferencesLeft(Current)]
  <2>1. call' = [call EXCEPT !.todo = call.todo \ {Current},
                             !.kept = call.kept \cup {k}]
    BY <1>4 DEF Visit
  <2>2. k \in Entries /\ k.id = Current.id
        /\ k.referencedBy = ReferencesLeft(Current)
    BY <1>2, ReferencesLeftType
  <2> HIDE DEF k
  <2>3. /\ call' \in CallRecords /\ call'.pc = "visit"
        /\ call'.backup = call.backup /\ call'.vm = call.vm
        /\ call'.chain = call.chain
        /\ call'.todo = call.todo \ {Current} /\ call'.kept = call.kept \cup {k}
    BY <1>1, <2>1, <2>2 DEF CallRecords
  <2>4. \A e : ReferencesLeft(e)' = ReferencesLeft(e)
    BY <2>3 DEF ReferencesLeft
  <2>5. LoopInv'
    <3>1. call'.todo \subseteq index'[call'.vm]
      BY <1>1, <2>3 DEF LoopInv, store
    <3>2. ASSUME NEW n \in call'.kept
          PROVE  \E e \in index'[call'.vm] :
                    n.id = e.id /\ n.referencedBy = ReferencesLeft(e)'
                        /\ ReferencesLeft(e)' # {}
      <4>1. CASE n = k
        BY <1>1, <1>2, <1>4, <2>2, <2>3, <2>4, <4>1 DEF LoopInv, store
      <4>2. CASE n \in call.kept
        BY <1>1, <2>3, <2>4, <4>2 DEF LoopInv, store
      <4> QED
        BY <2>3, <4>1, <4>2
    <3>3. ASSUME NEW e \in index'[call'.vm] \ call'.todo
          PROVE  IF ReferencesLeft(e)' = {}
                 THEN \A n \in Kinds : <<call'.vm, e.id, n>> \notin files'
                 ELSE [id |-> e.id, referencedBy |-> ReferencesLeft(e)']
                          \in call'.kept
      <4>1. CASE e = Current
        BY <1>4, <2>3, <2>4, <4>1 DEF k
      <4>2. CASE e # Current
        BY <1>1, <2>3, <2>4, <4>2 DEF LoopInv, store
      <4> QED
        BY <4>1, <4>2
    <3> QED
      BY <3>1, <3>2, <3>3 DEF LoopInv
  <2>6. CallInv'
    BY <1>1, <2>3, <2>5 DEF CallInv, store
  <2> QED
    BY <1>1, <2>3, <2>6, ReadFrame
<1> QED
  BY <1>3, <1>4

LEMMA GetBackupManifestStep ==
    ASSUME IInv, GetBackupManifest
    PROVE  IInv'
<1>1. /\ call \in CallRecords /\ call.pc = "backup" /\ call # NoCall
      /\ stage[call.backup] = "deleting"
      /\ \A e \in index[call.vm] : call.backup \notin e.referencedBy
      /\ call.chain = chains[<<call.backup, call.vm>>]
      /\ UNCHANGED <<store, stage, finished, taken, interruptions>>
  BY CallType DEF IInv, GetBackupManifest, At, CallInv
<1>2. manifest[call.backup] \in SUBSET VMs
  BY <1>1 DEF CallRecords, IInv, TypeOK
<1>3. CASE manifest[call.backup] = {}
  <2>1. call' = [call EXCEPT !.pc = "last"]
    BY <1>3 DEF GetBackupManifest
  <2>2. /\ call' \in CallRecords /\ call'.pc = "last"
        /\ call'.backup = call.backup /\ call'.vm = call.vm
        /\ call'.chain = call.chain
    BY <1>1, <2>1 DEF CallRecords
  <2>3. CallInv'
    BY <1>1, <1>3, <2>2 DEF CallInv, store
  <2> QED
    BY <1>1, <2>2, <2>3, ReadFrame
<1>4. CASE manifest[call.backup] # {}
  <2>1. call' = [call EXCEPT !.pc = "update",
                             !.listed = manifest[call.backup] \ {call.vm}]
    BY <1>4 DEF GetBackupManifest
  <2>2. /\ call' \in CallRecords /\ call'.pc = "update"
        /\ call'.backup = call.backup /\ call'.vm = call.vm
        /\ call'.chain = call.chain
        /\ call'.listed = manifest[call.backup] \ {call.vm}
    BY <1>1, <1>2, <2>1 DEF CallRecords
  <2>3. CallInv'
    BY <1>1, <2>2 DEF CallInv, store
  <2> QED
    BY <1>1, <2>2, <2>3, ReadFrame
<1> QED
  BY <1>3, <1>4

-------------------------------------------------------------------------------
(* The requests that write.                                                    *)

\* The files that go are of a checkpoint that no kept backup needs: it would be
\* among the references that are left.
LEMMA DeleteFileStep ==
    ASSUME IInv, DeleteFile
    PROVE  IInv'
<1>1. /\ call \in CallRecords /\ call.pc = "files" /\ call # NoCall
      /\ stage[call.backup] = "deleting" /\ LoopInv /\ FilesGoInv
      /\ call.chain = chains[<<call.backup, call.vm>>]
      /\ files' = files \ {CurrentFile}
      /\ UNCHANGED <<index, chains, manifest, stage, finished, taken,
                     interruptions>>
  BY CallType DEF IInv, DeleteFile, FileStep, At, CallInv
<1>2. /\ Current \in call.todo /\ Current \in index[call.vm]
      /\ call.backup \in Backups /\ call.vm \in VMs /\ call.part \in 1..3
      /\ ReferencesLeft(Current) = {}
  BY <1>1, CurrentIsDue DEF FilesGoInv, LoopInv, IInv, CallRecords
<1>3. KeptBackupsAreRestorable'
  <2> SUFFICES ASSUME NEW b \in Backups, NEW v \in VMs, stage[b] = "stored",
                      NEW c \in chains[<<b, v>>], NEW k \in Kinds
               PROVE  <<v, c, k>> \in files'
    BY <1>1 DEF IInv, KeptBackupsAreRestorable
  <2>1. <<v, c, k>> \in files
    BY DEF IInv, KeptBackupsAreRestorable
  <2>2. ASSUME v = call.vm, c = Current.id
        PROVE  FALSE
    <3>1. PICK e \in index[v] : e.id = c /\ b \in e.referencedBy
      BY DEF IInv, KeptBackupsAreRestorable
    <3>2. e = Current
      BY <1>2, <2>2, <3>1 DEF IInv, IndexInv
    <3>3. b # call.backup
      BY <1>1
    <3> QED
      BY <1>2, <3>1, <3>2, <3>3 DEF ReferencesLeft
  <2> QED
    BY <1>1, <2>1, <2>2 DEF CurrentFile
<1>4. IndexInv' /\ BackupsInv'
  BY <1>1 DEF IInv, IndexInv, BackupsInv
<1>5. FilesInv'
  BY <1>1 DEF IInv, FilesInv, Listed
<1>6. CASE call.part < 3
  <2>1. call' = [call EXCEPT !.part = call.part + 1]
    BY <1>6 DEF DeleteFile, FileStep
  <2>2. call.part + 1 \in 1..3
    BY <1>2, <1>6
  <2>3. /\ call' \in CallRecords /\ call'.pc = "files"
        /\ call'.backup = call.backup /\ call'.vm = call.vm
        /\ call'.chain = call.chain /\ call'.part = call.part + 1
        /\ call'.todo = call.todo /\ call'.kept = call.kept
    BY <1>1, <2>1, <2>2 DEF CallRecords
  <2>4. Current' = Current /\ \A e : ReferencesLeft(e)' = ReferencesLeft(e)
    BY <2>3 DEF Current, ReferencesLeft
  <2>5. LoopInv'
    BY <1>1, <2>3, <2>4 DEF LoopInv
  <2>6. FilesGoInv'
    <3>1. ASSUME NEW n \in 1..3, n < call.part + 1
          PROVE  <<call.vm, Current.id, KindAt(n)>> \notin files'
      <4>1. CASE n = call.part
        BY <1>1, <4>1 DEF CurrentFile
      <4>2. CASE n < call.part
        BY <1>1, <4>2 DEF FilesGoInv
      <4> QED
        BY <1>2, <3>1, <4>1, <4>2
    <3> QED
      BY <1>1, <2>3, <2>4, <3>1 DEF FilesGoInv
  <2>7. CallInv'
    BY <1>1, <2>3, <2>5, <2>6 DEF CallInv
  <2>8. TypeOK'
    BY <1>1, <2>3, CallType DEF IInv, TypeOK
  <2> QED
    BY <1>3, <1>4, <1>5, <2>7, <2>8 DEF IInv
<1>7. CASE ~(call.part < 3)
  <2>1. call' = [call EXCEPT !.pc = "visit", !.todo = call.todo \ {Current}]
    BY <1>7 DEF DeleteFile, FileStep
  <2>2. /\ call' \in CallRecords /\ call'.pc = "visit"
        /\ call'.backup = call.backup /\ call'.vm = call.vm
        /\ call'.chain = call.chain
        /\ call'.todo = call.todo \ {Current} /\ call'.kept = call.kept
    BY <1>1, <2>1 DEF CallRecords
  <2>3. \A e : ReferencesLeft(e)' = ReferencesLeft(e)
    BY <2>2 DEF ReferencesLeft
  <2>4. \A k \in Kinds : <<call.vm, Current.id, k>> \notin files'
    <3>1. call.part = 3
      BY <1>2, <1>7
    <3>2. \A n \in {1, 2} : <<call.vm, Current.id, KindAt(n)>> \notin files
      BY <1>1, <3>1 DEF FilesGoInv
    <3>3. <<call.vm, Current.id, KindAt(3)>> \notin files'
      BY <1>1, <3>1 DEF CurrentFile
    <3>4. KindAt(1) = "qcow" /\ KindAt(2) = "vmb" /\ KindAt(3) = "vmbt"
      BY DEF KindAt
    <3> QED
      BY <1>1, <3>2, <3>3, <3>4 DEF Kinds
  <2>5. LoopInv'
    <3>1. ASSUME NEW e \in index[call.vm] \ call'.todo
          PROVE  IF ReferencesLeft(e) = {}
                 THEN \A k \in Kinds : <<call.vm, e.id, k>> \notin files'
                 ELSE [id |-> e.id, referencedBy |-> ReferencesLeft(e)]
                          \in call.kept
      <4>1. CASE e = Current
        BY <1>2, <2>4, <4>1
      <4>2. CASE e # Current
        BY <1>1, <2>2, <4>2 DEF LoopInv
      <4> QED
        BY <4>1, <4>2
    <3> QED
      BY <1>1, <2>2, <2>3, <3>1 DEF LoopInv
  <2>6. CallInv'
    BY <1>1, <2>2, <2>5 DEF CallInv
  <2>7. TypeOK'
    BY <1>1, <2>2, CallType DEF IInv, TypeOK
  <2> QED
    BY <1>3, <1>4, <1>5, <2>6, <2>7 DEF IInv
<1> QED
  BY <1>6, <1>7

LEMMA WriteVMIndexStep ==
    ASSUME IInv, WriteVMIndex
    PROVE  IInv'
<1>1. /\ call \in CallRecords /\ call.pc = "visit" /\ call # NoCall
      /\ stage[call.backup] = "deleting" /\ LoopInv /\ call.todo = {}
      /\ call.chain = chains[<<call.backup, call.vm>>]
      /\ index' = [index EXCEPT ![call.vm] = call.kept]
      /\ call' = [call EXCEPT !.pc = "backup"]
      /\ UNCHANGED <<files, chains, manifest, stage, finished, taken,
                     interruptions>>
  BY CallType DEF IInv, WriteVMIndex, At, CallInv
<1>2. /\ call.backup \in Backups /\ call.vm \in VMs
      /\ call.kept \in SUBSET Entries /\ index \in [VMs -> SUBSET Entries]
  BY <1>1 DEF CallRecords, IInv, TypeOK
<1>3. /\ index'[call.vm] = call.kept
      /\ \A v \in VMs \ {call.vm} : index'[v] = index[v]
  BY <1>1, <1>2
<1>4. /\ call' \in CallRecords /\ call'.pc = "backup"
      /\ call'.backup = call.backup /\ call'.vm = call.vm
      /\ call'.chain = call.chain
  BY <1>1 DEF CallRecords
<1>5. TypeOK'
  BY <1>1, <1>2, <1>4, CallType DEF IInv, TypeOK
\* What is kept, and that what is not has no reference and no file left.
<1>6. \A k \in call.kept : \E e \in index[call.vm] :
          k.id = e.id /\ k.referencedBy = ReferencesLeft(e) /\ k.referencedBy # {}
  BY <1>1 DEF LoopInv
<1>7. \A e \in index[call.vm] :
          IF ReferencesLeft(e) = {}
          THEN \A k \in Kinds : <<call.vm, e.id, k>> \notin files
          ELSE \E k \in call.kept :
                  k.id = e.id /\ k.referencedBy = ReferencesLeft(e)
  <2> SUFFICES ASSUME NEW e \in index[call.vm], ReferencesLeft(e) # {}
               PROVE  \E k \in call.kept :
                         k.id = e.id /\ k.referencedBy = ReferencesLeft(e)
    BY <1>1 DEF LoopInv
  <2>1. [id |-> e.id, referencedBy |-> ReferencesLeft(e)] \in call.kept
    BY <1>1 DEF LoopInv
  <2> QED
    BY <2>1
<1>8. \A e : ReferencesLeft(e) \subseteq e.referencedBy
  BY DEF ReferencesLeft
\* Every reference of the backup was on its chain, so it is gone.
<1>9. \A e \in index[call.vm] : call.backup \notin ReferencesLeft(e)
  BY <1>1, <1>2 DEF ReferencesLeft, IInv, IndexInv
<1>10. CallInv'
  BY <1>1, <1>3, <1>4, <1>6, <1>9 DEF CallInv
<1>11. IndexInv'
  <2> SUFFICES ASSUME NEW v \in VMs, NEW k \in index'[v]
               PROVE  /\ k.id <= taken /\ k.referencedBy # {}
                      /\ \A f \in index'[v] : f.id = k.id => f = k
                      /\ \A b \in k.referencedBy : k.id \in chains[<<b, v>>]
    BY <1>1 DEF IndexInv
  <2>1. CASE v # call.vm
    BY <1>3, <2>1 DEF IInv, IndexInv
  <2>2. CASE v = call.vm
    <3>1. PICK e \in index[v] : /\ k.id = e.id /\ k.referencedBy # {}
                                /\ k.referencedBy = ReferencesLeft(e)
      BY <1>3, <1>6, <2>2
    <3>2. ASSUME NEW f \in index'[v], f.id = k.id
          PROVE  f = k
      <4>1. PICK g \in index[v] : /\ f.id = g.id
                                  /\ f.referencedBy = ReferencesLeft(g)
        BY <1>3, <1>6, <2>2
      <4>2. g = e
        BY <3>1, <3>2, <4>1 DEF IInv, IndexInv
      <4>3. f \in Entries /\ k \in Entries
        BY <1>2, <1>3, <2>2
      <4> QED
        BY <3>1, <3>2, <4>1, <4>2, <4>3 DEF Entries
    <3> QED
      BY <1>8, <3>1, <3>2 DEF IInv, IndexInv
  <2> QED
    BY <2>1, <2>2
<1>12. FilesInv'
  <2> SUFFICES ASSUME NEW v \in VMs, NEW c \in Checkpoints, NEW k \in Kinds,
                      <<v, c, k>> \in files
               PROVE  \E e \in index'[v] : e.id = c
    BY <1>1 DEF FilesInv, Listed
  <2>1. PICK e \in index[v] : e.id = c
    BY DEF IInv, FilesInv, Listed
  <2>2. CASE v # call.vm
    BY <1>3, <2>1, <2>2
  <2>3. CASE v = call.vm
    BY <1>3, <1>7, <2>1, <2>3
  <2> QED
    BY <2>2, <2>3
<1>13. BackupsInv'
  BY <1>1 DEF IInv, BackupsInv
<1>14. KeptBackupsAreRestorable'
  <2> SUFFICES ASSUME NEW b \in Backups, NEW v \in VMs, stage[b] = "stored",
                      NEW c \in chains[<<b, v>>]
               PROVE  \E e \in index'[v] : e.id = c /\ b \in e.referencedBy
    BY <1>1 DEF IInv, KeptBackupsAreRestorable
  <2>1. PICK e \in index[v] : e.id = c /\ b \in e.referencedBy
    BY DEF IInv, KeptBackupsAreRestorable
  <2>2. CASE v # call.vm
    BY <1>3, <2>1, <2>2
  <2>3. CASE v = call.vm
    <3>1. b \in ReferencesLeft(e)
      BY <1>1, <2>1 DEF ReferencesLeft
    <3> QED
      BY <1>3, <1>7, <2>1, <2>3, <3>1
  <2> QED
    BY <2>2, <2>3
<1> QED
  BY <1>5, <1>10, <1>11, <1>12, <1>13, <1>14 DEF IInv

LEMMA WriteBackupManifestStep ==
    ASSUME IInv, WriteBackupManifest
    PROVE  IInv'
<1>1. /\ call \in CallRecords /\ call.pc = "update" /\ call # NoCall
      /\ stage[call.backup] = "deleting"
      /\ call.listed = manifest[call.backup] \ {call.vm}
      /\ \A e \in index[call.vm] : call.backup \notin e.referencedBy
      /\ call.chain = chains[<<call.backup, call.vm>>]
      /\ manifest' = [manifest EXCEPT ![call.backup] = call.listed]
      /\ call' = [call EXCEPT !.pc = "last"]
      /\ UNCHANGED <<files, index, chains, stage, finished, taken,
                     interruptions>>
  BY CallType DEF IInv, WriteBackupManifest, At, CallInv
<1>2. /\ call.backup \in Backups /\ call.vm \in VMs
      /\ call.listed \in SUBSET VMs /\ manifest \in [Backups -> SUBSET VMs]
  BY <1>1 DEF CallRecords, IInv, TypeOK
<1>3. /\ call' \in CallRecords /\ call'.pc = "last"
      /\ call'.backup = call.backup /\ call'.vm = call.vm
      /\ call'.chain = call.chain
  BY <1>1 DEF CallRecords
<1>4. /\ manifest'[call.backup] = manifest[call.backup] \ {call.vm}
      /\ \A b \in Backups : manifest'[b] \subseteq manifest[b]
      /\ manifest' \in [Backups -> SUBSET VMs]
  BY <1>1, <1>2
<1>5. TypeOK'
  BY <1>1, <1>3, <1>4, CallType DEF IInv, TypeOK
<1>6. BackupsInv'
  BY <1>1, <1>4 DEF IInv, BackupsInv
<1>7. CallInv'
  BY <1>1, <1>3, <1>4 DEF CallInv
<1>8. IndexInv' /\ FilesInv' /\ KeptBackupsAreRestorable'
  BY <1>1 DEF IInv, IndexInv, FilesInv, Listed, KeptBackupsAreRestorable
<1> QED
  BY <1>5, <1>6, <1>7, <1>8 DEF IInv

LEMMA DeleteVMBackupManifestStep ==
    ASSUME IInv, DeleteVMBackupManifest
    PROVE  IInv'
<1> DEFINE bv == <<call.backup, call.vm>>
<1>1. /\ call \in CallRecords /\ call.pc = "last" /\ call # NoCall
      /\ stage[call.backup] = "deleting" /\ call.vm \notin manifest[call.backup]
      /\ \A e \in index[call.vm] : call.backup \notin e.referencedBy
      /\ chains' = [chains EXCEPT ![bv] = {}]
      /\ call' = NoCall /\ finished' = finished \cup {bv}
      /\ UNCHANGED <<files, index, manifest, stage, taken, interruptions>>
  BY CallType DEF IInv, DeleteVMBackupManifest, Succeed, At, CallInv
<1>2. call.backup \in Backups /\ call.vm \in VMs /\ bv \in Backups \X VMs
      /\ chains \in [Backups \X VMs -> SUBSET Checkpoints]
  BY <1>1 DEF CallRecords, IInv, TypeOK
<1>3. /\ chains'[bv] = {}
      /\ \A b \in Backups, v \in VMs :
            b # call.backup \/ v # call.vm => chains'[<<b, v>>] = chains[<<b, v>>]
  BY <1>1, <1>2
<1>4. TypeOK'
  BY <1>1, <1>2, CallType DEF IInv, TypeOK
<1>5. IndexInv'
  <2> SUFFICES ASSUME NEW v \in VMs, NEW e \in index[v],
                      NEW b \in e.referencedBy
               PROVE  e.id \in chains'[<<b, v>>]
    BY <1>1 DEF IInv, IndexInv
  <2>1. b \in Backups /\ e.id \in chains[<<b, v>>]
    BY DEF IInv, IndexInv, TypeOK, Entries
  <2> QED
    BY <1>1, <1>3, <2>1
<1>6. BackupsInv'
  <2> SUFFICES ASSUME NEW b \in Backups, NEW v \in VMs
               PROVE  /\ stage[b] = "none" \/ <<b, v>> \in finished' =>
                             chains'[<<b, v>>] = {}
                      /\ <<b, v>> \in finished' => stage[b] = "deleting"
                      /\ v \in manifest[b] => chains'[<<b, v>>] # {}
    BY <1>1 DEF BackupsInv
  <2>1. CASE b = call.backup /\ v = call.vm
    BY <1>1, <1>3, <2>1
  <2>2. CASE b # call.backup \/ v # call.vm
    <3>1. <<b, v>> \in finished' => <<b, v>> \in finished
      BY <1>1, <2>2
    <3> QED
      BY <1>3, <2>2, <3>1 DEF IInv, BackupsInv
  <2> QED
    BY <2>1, <2>2
<1>7. CallInv'
  BY <1>1 DEF CallInv
<1>8. FilesInv'
  BY <1>1 DEF IInv, FilesInv, Listed
<1>9. KeptBackupsAreRestorable'
  BY <1>1, <1>2, <1>3 DEF IInv, KeptBackupsAreRestorable
<1> QED
  BY <1>4, <1>5, <1>6, <1>7, <1>8, <1>9 DEF IInv

-------------------------------------------------------------------------------
LEMMA Inductive == IInv /\ [Next]_vars => IInv'
<1> SUFFICES ASSUME IInv, [Next]_vars PROVE IInv'
  OBVIOUS
<1>1. CASE Steps
  BY <1>1, GetVMBackupManifestStep, GetVMIndexStep, VisitStep, DeleteFileStep,
     WriteVMIndexStep, GetBackupManifestStep, WriteBackupManifestStep,
     DeleteVMBackupManifestStep
  DEF Steps
<1>2. CASE UNCHANGED vars
  <2>1. TypeOK'
    BY <1>2 DEF vars, store, IInv, TypeOK
  <2>2. Current' = Current /\ \A e : ReferencesLeft(e)' = ReferencesLeft(e)
    BY <1>2 DEF vars, Current, ReferencesLeft
  <2>3. LoopInv => LoopInv'
    BY <1>2, <2>2 DEF vars, store, LoopInv
  <2>4. FilesGoInv => FilesGoInv'
    BY <1>2, <2>2 DEF vars, store, FilesGoInv
  <2>5. CallInv'
    BY <1>2, <2>3, <2>4 DEF vars, store, IInv, CallInv
  <2> QED
    BY <1>2, <2>1, <2>5, StoreFrame DEF vars, IInv
<1> QED
  BY <1>1, <1>2, UploadStep, ExecuteStep, DeleteBackupStep, InterruptStep
  DEF Next

LEMMA Invariance == Spec => []IInv
  BY InitIInv, Inductive, PTL DEF Spec

\* The type invariant.
THEOREM TypeCorrect == Spec => []TypeOK
<1>1. IInv => TypeOK
  BY DEF IInv
<1> QED
  BY <1>1, Invariance, PTL

\* However often deletions are interrupted and repeated (Execute), every backup
\* that is not being deleted keeps all files and index entries of its chain.
THEOREM DeletionIsSafe == Spec => []KeptBackupsAreRestorable
<1>1. IInv => KeptBackupsAreRestorable
  BY DEF IInv
<1> QED
  BY <1>1, Invariance, PTL

\* No file is stored that neither the index nor a manifest leads to, after any
\* interruption of Execute.
THEOREM NothingLeaks == Spec => []NoStrayFiles
<1>1. ASSUME IInv
      PROVE  NoStrayFiles
  <2> SUFFICES ASSUME NEW v \in VMs, NEW c \in Checkpoints, NEW k \in Kinds,
                      <<v, c, k>> \in files
               PROVE  /\ \E e \in index[v] : e.id = c
                      /\ \E b \in Backups : c \in chains[<<b, v>>]
    BY DEF NoStrayFiles
  <2>1. PICK e \in index[v] : e.id = c
    BY <1>1 DEF IInv, FilesInv, Listed
  <2>2. PICK b \in e.referencedBy : TRUE
    BY <1>1 DEF IInv, IndexInv
  <2>3. b \in Backups
    BY <1>1 DEF IInv, TypeOK, Entries
  <2> QED
    BY <1>1, <2>1, <2>3 DEF IInv, IndexInv
<1> QED
  BY <1>1, Invariance, PTL

\* When Execute reports success, no chain, no manifest entry and no reference of
\* the backup is left on the VM, and none comes back.
THEOREM SuccessIsClean == Spec => []SuccessLeavesNoTrace
<1>1. IInv => SuccessLeavesNoTrace
  BY DEF IInv, BackupsInv, IndexInv, SuccessLeavesNoTrace
<1> QED
  BY <1>1, Invariance, PTL
===============================================================================
