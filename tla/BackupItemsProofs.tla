--------------------------- MODULE BackupItemsProofs --------------------------
(* Proofs about BackupItems, for every value of its constants: the plugins for *)
(* VMs and PVCs come to one verdict on whatever is left alone, stamp no shared *)
(* PVC, and refuse none that is not shared.                                    *)
EXTENDS BackupItems, FiniteSetTheorems, SequenceTheorems, TLAPS

-------------------------------------------------------------------------------
(* The variables keep their types.                                             *)

LEMMA VolumesType ==
    ASSUME NEW m \in Machines
    PROVE  /\ m.exists \in BOOLEAN /\ m.ready \in BOOLEAN
           /\ m.volumes \in VolumeLists \cup {<< >>}
           /\ Len(m.volumes) \in Nat /\ DOMAIN m.volumes = 1..Len(m.volumes)
           /\ m.volumes # << >> => Len(m.volumes) >= 1
<1>1. /\ m.exists \in BOOLEAN /\ m.ready \in BOOLEAN
      /\ m.volumes \in VolumeLists \cup {<< >>}
  <2>1. CASE m = NoMachine
    BY <2>1 DEF NoMachine
  <2>2. CASE m \in [exists : {TRUE}, ready : BOOLEAN, volumes : VolumeLists]
    BY <2>2
  <2> QED
    BY <2>1, <2>2 DEF Machines
<1>2. CASE m.volumes \in VolumeLists
  <2>1. m.volumes \in Seq({m.volumes[k] : k \in DOMAIN m.volumes})
    BY <1>2, ItemsAssumption
  <2> QED
    BY <1>1, <2>1, EmptySeq
<1>3. CASE m.volumes = << >>
  BY <1>1, <1>3
<1> QED
  BY <1>1, <1>2, <1>3

LEMMA WalkTypes ==
    /\ NoWalk \in Walks
    /\ \A m \in Machines : WalkOver(m) \in Walks
    /\ \A w \in Walks : \A p : SeeVolume(w, p) \in Walks
<1> DEFINE lists == VolumeLists \cup {<< >>}
<1>1. NoWalk \in Walks
  <2>1. << >> \in lists /\ 1 \in Nat \ {0}
    OBVIOUS
  <2> HIDE DEF lists
  <2>2. NoWalk \in [volumes : lists, at : Nat \ {0},
                     kubevirt : BOOLEAN, conflict : BOOLEAN]
    BY <2>1 DEF NoWalk
  <2> QED
    BY <2>2 DEF Walks, lists
<1>2. ASSUME NEW m \in Machines PROVE WalkOver(m) \in Walks
  <2>1. m.volumes \in lists
    BY VolumesType
  <2> HIDE DEF lists
  <2>2. Walks = [volumes : lists, at : Nat \ {0},
                 kubevirt : BOOLEAN, conflict : BOOLEAN]
    BY DEF Walks, lists
  <2>3. ASSUME NEW w \in Walks PROVE [w EXCEPT !.volumes = m.volumes] \in Walks
    BY <2>1, <2>2
  <2> QED
    BY <1>1, <2>3 DEF WalkOver
<1>3. ASSUME NEW w \in Walks, NEW p PROVE SeeVolume(w, p) \in Walks
  <2> HIDE DEF lists
  <2>1. Walks = [volumes : lists, at : Nat \ {0},
                 kubevirt : BOOLEAN, conflict : BOOLEAN]
    BY DEF Walks, lists
  <2>2. ASSUME NEW a \in Nat \ {0}, NEW k \in BOOLEAN, NEW c \in BOOLEAN
        PROVE  [w EXCEPT !.at = a, !.kubevirt = k, !.conflict = c] \in Walks
    BY <2>1
  <2>3. /\ (w.kubevirt \/ Policy(p) = "kubevirt") \in BOOLEAN
        /\ (w.conflict \/ Policy(p) = "snapshot") \in BOOLEAN
    OBVIOUS
  <2>4. w.at + 1 \in Nat \ {0}
    BY <2>1
  <2> QED
    BY <2>2, <2>3, <2>4 DEF SeeVolume
<1> QED
  BY <1>1, <1>2, <1>3

LEMMA UsersType ==
    ASSUME NEW ms, NEW p
    PROVE  /\ Users(ms, p) \subseteq VMs /\ IsFiniteSet(Users(ms, p))
           /\ Cardinality(Users(ms, p)) \in 0..Cardinality(VMs)
<1>1. Users(ms, p) \subseteq VMs
  BY DEF Users
<1>2. /\ IsFiniteSet(Users(ms, p))
      /\ Cardinality(Users(ms, p)) <= Cardinality(VMs)
  BY <1>1, ItemsAssumption, FS_Subset
<1>3. Cardinality(Users(ms, p)) \in Nat /\ Cardinality(VMs) \in Nat
  BY <1>2, ItemsAssumption, FS_CardinalityType
<1> QED
  BY <1>1, <1>2, <1>3

LEMMA InitTypes == Init => TypeOK
<1> SUFFICES ASSUME Init PROVE TypeOK
  OBVIOUS
<1>1. machines \in [VMs -> Machines] /\ collected \in [VMs -> Machines]
  BY ItemsAssumption DEF Init
<1>2. vmRun \in [VMs -> VMRuns]
  BY WalkTypes DEF Init, NewVMRun, VMRuns
<1>3. 0 \in 0..Cardinality(VMs)
  BY ItemsAssumption, FS_CardinalityType
<1>4. pvcRun \in [PVCs -> PVCRuns]
  BY <1>3, WalkTypes DEF Init, NewPVCRun, PVCRuns
<1> QED
  BY <1>1, <1>2, <1>4 DEF Init, TypeOK

LEMMA EndedVM ==
    ASSUME NEW run \in VMRuns, NEW r \in {"asis", "uploaded", "error"}
    PROVE  /\ Ended(run, r) \in VMRuns
           /\ Ended(run, r).pc = "done" /\ Ended(run, r).result = r
           /\ Ended(run, r).source = run.source
  BY DEF Ended, VMRuns

LEMMA EndedPVC ==
    ASSUME NEW run \in PVCRuns, NEW r \in {"asis", "stamped", "error"}
    PROVE  /\ Ended(run, r) \in PVCRuns
           /\ Ended(run, r).pc = "done" /\ Ended(run, r).result = r
           /\ Ended(run, r).vm = run.vm
  BY DEF Ended, PVCRuns

\* What a step of the VM plugin makes of its run.
LEMMA VMRunTypes ==
    ASSUME TypeOK, NEW v \in VMs, VMSteps(v)
    PROVE  /\ \E run \in VMRuns : SetVM(v, run)
           /\ VMUnchanged
           /\ faults' \in Nat /\ (faults' = 0 => faults = 0)
<1>0. /\ vmRun[v] \in VMRuns /\ collected[v] \in Machines /\ faults \in Nat
  BY DEF TypeOK
<1>1. CASE ExecuteVM(v)
  <2>1. [vmRun[v] EXCEPT !.pc = "check", !.walk = WalkOver(collected[v])]
            \in VMRuns
    BY <1>0, WalkTypes DEF VMRuns
  <2>2. Ended(vmRun[v], "asis") \in VMRuns
    BY <1>0, EndedVM
  <2> QED
    BY <1>0, <1>1, <2>1, <2>2 DEF ExecuteVM
<1>2. CASE CheckVM(v)
  <2> DEFINE seen == SeeVolume(vmRun[v].walk,
                        <<v[1], vmRun[v].walk.volumes[vmRun[v].walk.at]>>)
  <2>1. vmRun[v].walk \in Walks
    BY <1>0 DEF VMRuns
  <2>2. seen \in Walks
    BY <2>1, WalkTypes
  <2> HIDE DEF seen
  <2>3. /\ [vmRun[v] EXCEPT !.walk = seen] \in VMRuns
        /\ [vmRun[v] EXCEPT !.pc = "source", !.walk = WalkOver(collected[v])]
               \in VMRuns
    BY <1>0, <2>2, WalkTypes DEF VMRuns
  <2>4. /\ Ended(vmRun[v], "asis") \in VMRuns
        /\ Ended(vmRun[v], "error") \in VMRuns
    BY <1>0, EndedVM
  <2> QED
    BY <1>0, <1>2, <2>3, <2>4 DEF CheckVM, Fault, seen
<1>3. CASE getFirstKubevirtPVC(v)
  <2> DEFINE p    == <<v[1], vmRun[v].walk.volumes[vmRun[v].walk.at]>>
             next == [vmRun[v].walk EXCEPT !.at = @ + 1]
  <2>1. Policy(p) = "kubevirt" => p \in PVCs
    BY DEF Policy
  <2> HIDE DEF p
  <2>2. Ended(vmRun[v], "uploaded") \in VMRuns /\ Ended(vmRun[v], "error") \in VMRuns
    BY <1>0, EndedVM
  <2>3. p \in PVCs => [Ended(vmRun[v], "uploaded") EXCEPT !.source = p] \in VMRuns
    BY <2>2 DEF VMRuns
  <2>4. next \in Walks
    BY <1>0 DEF VMRuns, Walks
  <2>5. [vmRun[v] EXCEPT !.walk = next] \in VMRuns
    BY <1>0, <2>4 DEF VMRuns
  <2> HIDE DEF next
  <2> QED
    BY <1>0, <1>3, <2>1, <2>2, <2>3, <2>5 DEF getFirstKubevirtPVC, Fault, p, next
<1> QED
  BY <1>1, <1>2, <1>3 DEF VMSteps

LEMMA UseVMsType ==
    ASSUME TypeOK, NEW p \in PVCs, NEW users \in SUBSET VMs, UseVMs(p, users)
    PROVE  \E run \in PVCRuns : SetPVC(p, run)
<1>1. pvcRun[p] \in PVCRuns
  BY DEF TypeOK
<1>2. Cardinality(users) \in 0..Cardinality(VMs)
  BY ItemsAssumption, FS_Subset, FS_CardinalityType
<1>3. [pvcRun[p] EXCEPT !.pc = "get", !.left = users,
                        !.total = Cardinality(users)] \in PVCRuns
  BY <1>1, <1>2 DEF PVCRuns
<1> QED
  BY <1>1, <1>3, EndedPVC DEF UseVMs

LEMMA NextVMType ==
    ASSUME NEW run \in PVCRuns
    PROVE  NextVM(run) \in PVCRuns
  BY EndedPVC, WalkTypes DEF NextVM, PVCRuns

LEMMA MapType ==
    ASSUME TypeOK, NEW p \in PVCs, getPVCList(p)
    PROVE  /\ \E run \in PVCRuns : SetPVC(p, run)
           /\ nsPVCs' \in [Namespaces -> [known : BOOLEAN, users : [PVCs -> SUBSET VMs]]]
<1> DEFINE listed == [q \in PVCs |-> IF q[1] = p[1] THEN Users(machines, q) ELSE {}]
<1>0. /\ pvcRun[p] \in PVCRuns /\ p[1] \in Namespaces
      /\ nsPVCs \in [Namespaces -> [known : BOOLEAN, users : [PVCs -> SUBSET VMs]]]
  BY DEF TypeOK, Namespaces
<1>1. listed \in [PVCs -> SUBSET VMs]
  BY UsersType
<1>2. nsPVCs[p[1]].users[p] \in SUBSET VMs /\ listed[p] \in SUBSET VMs
  BY <1>0, <1>1
<1>3. [known |-> TRUE, users |-> listed]
          \in [known : BOOLEAN, users : [PVCs -> SUBSET VMs]]
  BY <1>1
<1> HIDE DEF listed
<1> QED
  BY <1>0, <1>2, <1>3, UseVMsType, EndedPVC DEF getPVCList, listed

\* What a step of the PVC plugin makes of its run.
LEMMA PVCRunTypes ==
    ASSUME TypeOK, NEW p \in PVCs, PVCSteps(p)
    PROVE  /\ pvcRun' = pvcRun \/ \E run \in PVCRuns : SetPVC(p, run)
           /\ UNCHANGED <<cluster, vmRun, ghosts>>
           /\ kubevirtInstall' \in {"unknown", "missing", "present"}
           /\ nsPVCs' \in [Namespaces -> [known : BOOLEAN, users : [PVCs -> SUBSET VMs]]]
           /\ faults' \in Nat /\ (faults' = 0 => faults = 0)
<1>0. /\ pvcRun[p] \in PVCRuns /\ machines \in [VMs -> Machines]
      /\ kubevirtInstall \in {"unknown", "missing", "present"}
      /\ nsPVCs \in [Namespaces -> [known : BOOLEAN, users : [PVCs -> SUBSET VMs]]]
      /\ faults \in Nat
  BY DEF TypeOK
<1>1. /\ UNCHANGED <<cluster, vmRun, ghosts>>
      /\ faults' \in Nat /\ (faults' = 0 => faults = 0)
  <2>1. UNCHANGED <<cluster, vmRun, ghosts>>
    BY DEF PVCSteps, shouldListVMsLocked, getPVCList, GetVM, CheckVMOfPVC
  <2>2. faults' = faults \/ Fault
    BY DEF PVCSteps, shouldListVMsLocked, getPVCList, GetVM, CheckVMOfPVC
  <2> QED
    BY <1>0, <2>1, <2>2 DEF Fault
<1>2. CASE shouldListVMsLocked(p)
  BY <1>0, <1>1, <1>2, EndedPVC DEF shouldListVMsLocked
<1>3. CASE getPVCList(p)
  BY <1>0, <1>1, <1>3, MapType DEF getPVCList
<1>4. CASE GetVM(p)
  <2>1. PICK v \in pvcRun[p].left :
          LET run == [pvcRun[p] EXCEPT !.left = @ \ {v}] IN
          \/ SetPVC(p, CASE ~machines[v].exists -> Ended(run, "error")
                         [] machines[v].exists /\ WorthChecking(machines[v]) ->
                               [run EXCEPT !.pc = "check", !.vm = v,
                                           !.walk = WalkOver(machines[v])]
                         [] OTHER -> NextVM(run))
          \/ SetPVC(p, Ended(run, "error"))
    BY <1>4 DEF GetVM
  <2> DEFINE run == [pvcRun[p] EXCEPT !.left = @ \ {v}]
  <2>2. v \in VMs /\ run \in PVCRuns
    BY <1>0 DEF PVCRuns
  <2> HIDE DEF run
  <2>3. /\ Ended(run, "error") \in PVCRuns /\ NextVM(run) \in PVCRuns
        /\ [run EXCEPT !.pc = "check", !.vm = v, !.walk = WalkOver(machines[v])]
               \in PVCRuns
    BY <1>0, <2>2, EndedPVC, NextVMType, WalkTypes DEF PVCRuns
  <2>4. \E r \in PVCRuns : SetPVC(p, r)
    BY <2>1, <2>3 DEF run
  <2> QED
    BY <1>0, <1>1, <1>4, <2>4 DEF GetVM
<1>5. CASE CheckVMOfPVC(p)
  <2> DEFINE seen == SeeVolume(pvcRun[p].walk,
         <<pvcRun[p].vm[1], pvcRun[p].walk.volumes[pvcRun[p].walk.at]>>)
  <2>1. pvcRun[p].walk \in Walks
    BY <1>0 DEF PVCRuns
  <2>2. seen \in Walks
    BY <2>1, WalkTypes
  <2> HIDE DEF seen
  <2>3. /\ [pvcRun[p] EXCEPT !.walk = seen] \in PVCRuns
        /\ NextVM(pvcRun[p]) \in PVCRuns /\ Stamp(pvcRun[p]) \in PVCRuns
        /\ Ended(pvcRun[p], "error") \in PVCRuns
    BY <1>0, <2>2, NextVMType, EndedPVC DEF PVCRuns, Stamp
  <2>4. \E r \in PVCRuns : SetPVC(p, r)
    BY <1>5, <2>3 DEF CheckVMOfPVC, seen
  <2> QED
    BY <1>0, <1>1, <1>5, <2>4 DEF CheckVMOfPVC
<1> QED
  BY <1>2, <1>3, <1>4, <1>5 DEF PVCSteps

LEMMA TypeStep == TypeOK /\ [Next]_vars => TypeOK'
<1> SUFFICES ASSUME TypeOK, [Next]_vars PROVE TypeOK'
  OBVIOUS
<1>1. ASSUME NEW v \in VMs, VMSteps(v)
      PROVE  TypeOK'
  BY <1>1, VMRunTypes DEF TypeOK, SetVM, VMUnchanged, cluster, ghosts
<1>2. ASSUME NEW p \in PVCs, PVCSteps(p)
      PROVE  TypeOK'
  BY <1>2, PVCRunTypes DEF TypeOK, SetPVC, cluster, ghosts
<1>3. ASSUME NEW v \in VMs, ChangeVM(v)
      PROVE  TypeOK'
  <2>1. /\ machines' \in [VMs -> Machines] /\ changes' \in Nat
        /\ touched' \subseteq VMs \cup PVCs
    BY <1>3 DEF ChangeVM, Change, PVCsOf, TypeOK
  <2> QED
    BY <1>3, <2>1 DEF ChangeVM, TypeOK
<1>4. ASSUME NEW p \in PVCs, ChangePVC(p)
      PROVE  TypeOK'
  BY <1>4 DEF ChangePVC, Change, TypeOK
<1>5. CASE InstallKubeVirt
  BY <1>5 DEF InstallKubeVirt, Change, TypeOK
<1>6. CASE UNCHANGED vars
  BY <1>6 DEF vars, cluster, ghosts, TypeOK
<1> QED
  BY <1>1, <1>2, <1>3, <1>4, <1>5, <1>6 DEF Next

\* The variables of the model keep their types.
THEOREM TypeCorrect == Spec => []TypeOK
  BY InitTypes, TypeStep, PTL DEF Spec

-------------------------------------------------------------------------------
(* The invariant.  What is said of an item is said in terms of the VMs as they *)
(* were collected and of the policies, as long as no change concerned it.      *)

\* The policy for the k-th volume of VM v.
PolicyOf(v, k) == Policy(<<v[1], collected[v].volumes[k]>>)

\* What both plugins should find about v.
Verdict(v) ==
    /\ WorthChecking(collected[v])
    /\ \E k \in DOMAIN collected[v].volumes : PolicyOf(v, k) = "kubevirt"
    /\ \A k \in DOMAIN collected[v].volumes : PolicyOf(v, k) # "snapshot"

\* A VM that a plugin has found not to be eligible.
Refuted(v) == Untouched(v) => ~Verdict(v)

\* A walk over the volumes of v is not over and has seen what there was to see.
WalkOK(w, v) ==
    /\ w.volumes = collected[v].volumes /\ w.at \in DOMAIN collected[v].volumes
    /\ w.kubevirt <=> \E k \in 1..(w.at - 1) : PolicyOf(v, k) = "kubevirt"
    /\ w.conflict <=> \E k \in 1..(w.at - 1) : PolicyOf(v, k) = "snapshot"

VMRunOK(run, v) ==
    Untouched(v) =>
        /\ run.pc = "check" => WorthChecking(collected[v]) /\ WalkOK(run.walk, v)
        /\ run.pc = "source" =>
              /\ Verdict(v) /\ run.walk.volumes = collected[v].volumes
              /\ run.walk.at \in DOMAIN collected[v].volumes
              /\ \A k \in 1..(run.walk.at - 1) : PolicyOf(v, k) # "kubevirt"
        /\ run.result = "uploaded" =>
              Verdict(v) /\ run.source \in PVCsOf(v, collected[v])
        /\ run.result = "asis" => ~Verdict(v)

PVCRunOK(run, p) ==
    p \notin touched =>
        /\ run.pc # "done" => run.result = "none"
        /\ run.pc \in {"get", "check"} =>
              /\ run.left \subseteq Users(collected, p)
              /\ run.total = Cardinality(Users(collected, p))
              /\ \A u \in Users(collected, p) \ run.left :
                     Refuted(u) \/ (run.pc = "check" /\ u = run.vm)
        /\ run.pc = "check" =>
              /\ run.vm \in Users(collected, p)
              /\ \A u \in VMs : u = run.vm /\ Untouched(u) =>
                     WorthChecking(collected[u]) /\ WalkOK(run.walk, u)
        /\ run.result = "stamped" =>
              /\ Users(collected, p) = {run.vm}
              /\ \A u \in VMs : u = run.vm /\ Untouched(u) => Verdict(u)
        /\ run.result = "asis" => \A u \in Users(collected, p) : Refuted(u)

\* The VMs that concern an untouched item are as they were collected.
ClusterInv ==
    /\ \A v \in VMs \ touched : machines[v] = collected[v]
    /\ \A p \in PVCs \ touched : \A v \in VMs :
           p \in PVCsOf(v, machines[v]) \cup PVCsOf(v, collected[v])
               => machines[v] = collected[v]
    /\ (\E v \in VMs : collected[v].exists)
           => installed /\ kubevirtInstall # "missing"

\* So is what the PVC plugin keeps of them.
MapInv ==
    \A p \in PVCs \ touched : nsPVCs[p[1]].known
        => nsPVCs[p[1]].users[p] = Users(collected, p)

RunsInv ==
    /\ \A v \in VMs : VMRunOK(vmRun[v], v)
    /\ \A p \in PVCs : PVCRunOK(pvcRun[p], p)

\* Nothing failed for an item left alone unless a request did, or it is shared.
ErrorsInv ==
    /\ \A v \in VMs :
           Untouched(v) /\ vmRun[v].result = "error" => faults # 0
    /\ \A p \in PVCs : p \notin touched /\ pvcRun[p].result = "error"
           => faults # 0 \/ Cardinality(Users(collected, p)) > 1

ItemsInv == TypeOK /\ ClusterInv /\ MapInv /\ RunsInv /\ ErrorsInv

-------------------------------------------------------------------------------
(* Lemmas about one state.                                                     *)

\* Only a VM that exists uses a PVC.
LEMMA UsersExist ==
    ASSUME TypeOK, NEW v \in VMs, NEW p \in PVCs
    PROVE  /\ p \in PVCsOf(v, machines[v]) => machines[v].exists
           /\ p \in PVCsOf(v, collected[v]) => collected[v].exists
<1>1. ASSUME NEW m \in Machines, p \in PVCsOf(v, m) PROVE m.exists
  <2>1. CASE m = NoMachine
    <3>1. DOMAIN m.volumes = {}
      BY <2>1 DEF NoMachine
    <3> QED
      BY <1>1, <3>1 DEF PVCsOf
  <2>2. CASE m \in [exists : {TRUE}, ready : BOOLEAN, volumes : VolumeLists]
    BY <2>2
  <2> QED
    BY <2>1, <2>2 DEF Machines
<1> QED
  BY <1>1 DEF TypeOK

\* The users of an untouched PVC are those it had in the beginning.
LEMMA UsersFrozen ==
    ASSUME TypeOK, ClusterInv, NEW p \in PVCs \ touched
    PROVE  Users(machines, p) = Users(collected, p)
  BY UsersExist DEF Users, ClusterInv

\* One more PVC seen: the walk goes on, or it is over and the verdict is there.
LEMMA SeeingDecides ==
    ASSUME TypeOK, NEW v \in VMs, NEW w \in Walks, WalkOK(w, v),
           WorthChecking(collected[v]),
           NEW seen, seen = SeeVolume(w, <<v[1], w.volumes[w.at]>>)
    PROVE  /\ ~Over(seen) => WalkOK(seen, v)
           /\ Over(seen) => (Eligible(seen) <=> Verdict(v))
<1> DEFINE l == collected[v].volumes
<1>1. Len(l) \in Nat /\ DOMAIN l = 1..Len(l)
  BY VolumesType DEF TypeOK
<1>2. /\ w.volumes = l /\ w.at \in 1..Len(l)
      /\ w.kubevirt <=> \E k \in 1..(w.at - 1) : PolicyOf(v, k) = "kubevirt"
      /\ w.conflict <=> \E k \in 1..(w.at - 1) : PolicyOf(v, k) = "snapshot"
  BY <1>1 DEF WalkOK
<1>3. Policy(<<v[1], w.volumes[w.at]>>) = PolicyOf(v, w.at)
  BY <1>2 DEF PolicyOf
<1> HIDE DEF l
<1>4. /\ seen.volumes = l /\ seen.at = w.at + 1
      /\ seen.kubevirt <=> w.kubevirt \/ PolicyOf(v, w.at) = "kubevirt"
      /\ seen.conflict <=> w.conflict \/ PolicyOf(v, w.at) = "snapshot"
  BY <1>2, <1>3 DEF SeeVolume, Walks
<1>5. 1..(seen.at - 1) = 1..(w.at - 1) \cup {w.at}
  BY <1>1, <1>2, <1>4
<1>6. /\ seen.kubevirt <=> \E k \in 1..(seen.at - 1) : PolicyOf(v, k) = "kubevirt"
      /\ seen.conflict <=> \E k \in 1..(seen.at - 1) : PolicyOf(v, k) = "snapshot"
  BY <1>2, <1>4, <1>5
<1>7. CASE ~Over(seen)
  <2>1. seen.at \in 1..Len(l)
    BY <1>1, <1>2, <1>4, <1>7 DEF Over
  <2> QED
    BY <1>1, <1>4, <1>6, <1>7, <2>1 DEF WalkOK, l
<1>8. CASE Over(seen)
  <2>1. 1..(seen.at - 1) = DOMAIN l
    BY <1>1, <1>2, <1>4, <1>8 DEF Over
  <2> QED
    BY <1>6, <1>8, <2>1 DEF Eligible, Verdict, l
<1> QED
  BY <1>7, <1>8

-------------------------------------------------------------------------------
(* The invariant holds in the beginning and is kept.                           *)

LEMMA InitInv == Init => ItemsInv
<1> SUFFICES ASSUME Init PROVE ItemsInv
  OBVIOUS
<1>1. TypeOK
  BY InitTypes
<1>2. ClusterInv
  BY DEF Init, ClusterInv
<1>3. MapInv
  BY <1>1 DEF Init, MapInv, TypeOK, Namespaces
<1>4. ASSUME NEW v \in VMs
      PROVE  VMRunOK(vmRun[v], v) /\ vmRun[v].result = "none"
  BY DEF Init, NewVMRun, VMRunOK
<1>5. ASSUME NEW p \in PVCs
      PROVE  PVCRunOK(pvcRun[p], p) /\ pvcRun[p].result = "none"
  BY DEF Init, NewPVCRun, PVCRunOK
<1> QED
  BY <1>1, <1>2, <1>3, <1>4, <1>5 DEF ItemsInv, RunsInv, ErrorsInv

\* No step forgets a change, and none changes what no change concerns.
Frame ==
    /\ touched \subseteq touched' /\ UNCHANGED <<collected, snapshotMoveData>>
    /\ \A p \in PVCs \ touched' : policy'[p] = policy[p]

LEMMA VerdictKept ==
    ASSUME Frame, NEW v, Untouched(v)'
    PROVE  /\ Untouched(v)
           /\ \A k \in DOMAIN collected[v].volumes : PolicyOf(v, k)' = PolicyOf(v, k)
           /\ Verdict(v)' <=> Verdict(v)
<1>1. Untouched(v)
  BY DEF Frame, Untouched, PVCsOf
<1>2. ASSUME NEW k \in DOMAIN collected[v].volumes
      PROVE  PolicyOf(v, k)' = PolicyOf(v, k)
  <2> DEFINE x == <<v[1], collected[v].volumes[k]>>
  <2>1. x \in PVCs => x \in PVCsOf(v, collected[v])'
    BY DEF Frame, PVCsOf
  <2>2. x \in PVCs => policy'[x] = policy[x]
    BY <2>1 DEF Frame, Untouched
  <2>3. x' = x
    BY DEF Frame
  <2> HIDE DEF x
  <2> QED
    BY <2>2, <2>3 DEF PolicyOf, Policy, x
<1>3. WorthChecking(collected[v])' <=> WorthChecking(collected[v])
  BY DEF Frame, WorthChecking
<1> QED
  BY <1>1, <1>2, <1>3 DEF Verdict, Frame

LEMMA VMRunKept ==
    ASSUME TypeOK, Frame, NEW v \in VMs, NEW run \in VMRuns, VMRunOK(run, v)
    PROVE  VMRunOK(run, v)'
<1> SUFFICES ASSUME Untouched(v)'
             PROVE  VMRunOK(run, v)'
  BY DEF VMRunOK
<1>1. /\ Untouched(v) /\ (Verdict(v)' <=> Verdict(v))
      /\ \A k \in DOMAIN collected[v].volumes : PolicyOf(v, k)' = PolicyOf(v, k)
  BY VerdictKept
<1>2. /\ collected' = collected
      /\ WorthChecking(collected[v])' <=> WorthChecking(collected[v])
      /\ PVCsOf(v, collected[v])' = PVCsOf(v, collected[v])
  BY DEF Frame, WorthChecking, PVCsOf
<1>3. /\ DOMAIN collected[v].volumes = 1..Len(collected[v].volumes)
      /\ Len(collected[v].volumes) \in Nat
  BY VolumesType DEF TypeOK
<1>4. ASSUME NEW at \in DOMAIN collected[v].volumes, NEW k \in 1..(at - 1)
      PROVE  PolicyOf(v, k)' = PolicyOf(v, k)
  BY <1>1, <1>3
<1>5. WalkOK(run.walk, v) => WalkOK(run.walk, v)'
  BY <1>2, <1>4 DEF WalkOK
<1>6. (/\ run.walk.at \in DOMAIN collected[v].volumes
       /\ \A k \in 1..(run.walk.at - 1) : PolicyOf(v, k) # "kubevirt")
         => \A k \in 1..(run.walk.at - 1) : PolicyOf(v, k)' # "kubevirt"
  BY <1>4
<1> QED
  BY <1>1, <1>2, <1>5, <1>6 DEF VMRunOK

LEMMA PVCRunKept ==
    ASSUME TypeOK, Frame, NEW p \in PVCs, NEW run \in PVCRuns, PVCRunOK(run, p)
    PROVE  PVCRunOK(run, p)'
<1> SUFFICES ASSUME p \notin touched'
             PROVE  PVCRunOK(run, p)'
  BY DEF PVCRunOK
<1>1. p \notin touched /\ collected' = collected
  BY DEF Frame
<1>2. Users(collected, p)' = Users(collected, p)
  BY <1>1 DEF Users, PVCsOf
<1>3. ASSUME NEW u, Refuted(u) PROVE Refuted(u)'
  BY <1>3, VerdictKept DEF Refuted
<1>4. ASSUME NEW u \in VMs, Untouched(u)'
      PROVE  /\ Untouched(u) /\ (Verdict(u) => Verdict(u)')
             /\ WorthChecking(collected[u]) => WorthChecking(collected[u])'
             /\ WalkOK(run.walk, u) => WalkOK(run.walk, u)'
  <2>1. /\ Untouched(u) /\ (Verdict(u)' <=> Verdict(u))
        /\ \A k \in DOMAIN collected[u].volumes : PolicyOf(u, k)' = PolicyOf(u, k)
    BY <1>4, VerdictKept
  <2>2. /\ DOMAIN collected[u].volumes = 1..Len(collected[u].volumes)
        /\ Len(collected[u].volumes) \in Nat
    BY VolumesType DEF TypeOK
  <2>3. ASSUME NEW at \in DOMAIN collected[u].volumes, NEW k \in 1..(at - 1)
        PROVE  PolicyOf(u, k)' = PolicyOf(u, k)
    BY <2>1, <2>2
  <2>4. WalkOK(run.walk, u) => WalkOK(run.walk, u)'
    BY <1>1, <2>3 DEF WalkOK
  <2>5. WorthChecking(collected[u]) => WorthChecking(collected[u])'
    BY DEF Frame, WorthChecking
  <2> QED
    BY <2>1, <2>4, <2>5
<1>5. Users(collected, p) \subseteq VMs
  BY UsersType
<1> QED
  BY <1>1, <1>2, <1>3, <1>4, <1>5 DEF PVCRunOK

\* A step of the VM plugin leaves its run as the invariant wants it.
LEMMA VMStepOK ==
    ASSUME ItemsInv, NEW v \in VMs, VMSteps(v)
    PROVE  \E run \in VMRuns :
              /\ SetVM(v, run) /\ VMRunOK(run, v)
              /\ Untouched(v) /\ run.result = "error" => faults' # 0
<1> DEFINE old == vmRun[v]
           l   == collected[v].volumes
<1>0. /\ TypeOK /\ old \in VMRuns /\ old.walk \in Walks
      /\ VMRunOK(old, v) /\ collected[v] \in Machines /\ faults \in Nat
      /\ Untouched(v) /\ old.result = "error" => faults # 0
  BY DEF ItemsInv, TypeOK, RunsInv, ErrorsInv, VMRuns
<1>1. /\ Len(l) \in Nat /\ DOMAIN l = 1..Len(l)
      /\ l # << >> => 1 \in DOMAIN l
  BY <1>0, VolumesType
<1>2. 1..(1 - 1) = {}
  OBVIOUS
<1>3. WalkOver(collected[v]) \in Walks
  BY <1>0, WalkTypes
<1>4. /\ WalkOver(collected[v]).volumes = l /\ WalkOver(collected[v]).at = 1
      /\ ~WalkOver(collected[v]).kubevirt /\ ~WalkOver(collected[v]).conflict
  BY DEF WalkOver, NoWalk
<1>5. /\ Ended(old, "asis") \in VMRuns /\ Ended(old, "asis").pc = "done"
      /\ Ended(old, "asis").result = "asis"
      /\ Ended(old, "error") \in VMRuns /\ Ended(old, "error").pc = "done"
      /\ Ended(old, "error").result = "error"
      /\ Ended(old, "uploaded") \in VMRuns /\ Ended(old, "uploaded").pc = "done"
      /\ Ended(old, "uploaded").result = "uploaded"
  BY <1>0, EndedVM
<1> HIDE DEF old, l
<1>6. CASE ExecuteVM(v)
  <2>1. /\ faults' = faults
        /\ SetVM(v, IF WorthChecking(collected[v])
                    THEN [old EXCEPT !.pc = "check",
                                     !.walk = WalkOver(collected[v])]
                    ELSE Ended(old, "asis"))
    BY <1>6 DEF ExecuteVM, old
  <2>2. CASE WorthChecking(collected[v])
    <3> DEFINE run == [old EXCEPT !.pc = "check", !.walk = WalkOver(collected[v])]
    <3>1. /\ run \in VMRuns /\ run.pc = "check" /\ run.result = old.result
          /\ run.walk = WalkOver(collected[v]) /\ run.source = old.source
      BY <1>0, <1>3 DEF VMRuns
    <3>2. WalkOK(run.walk, v)
      BY <1>1, <1>2, <1>4, <2>2, <3>1 DEF WalkOK, WorthChecking, l
    <3>3. SetVM(v, run)
      BY <2>1, <2>2
    <3> HIDE DEF run
    <3>4. VMRunOK(run, v)
      BY <1>0, <2>2, <3>1, <3>2 DEF VMRunOK
    <3> QED
      BY <1>0, <2>1, <3>1, <3>3, <3>4
  <2>3. CASE ~WorthChecking(collected[v])
    <3>1. VMRunOK(Ended(old, "asis"), v)
      BY <1>5, <2>3 DEF VMRunOK, Verdict
    <3> QED
      BY <1>5, <2>1, <2>3, <3>1
  <2> QED
    BY <2>2, <2>3
<1>7. CASE CheckVM(v)
  <2> DEFINE seen == SeeVolume(old.walk, <<v[1], old.walk.volumes[old.walk.at]>>)
  <2>1. /\ old.pc = "check"
        /\ \/ /\ CASE ~Over(seen) -> SetVM(v, [old EXCEPT !.walk = seen])
                   [] Over(seen) /\ Eligible(seen) ->
                         SetVM(v, [old EXCEPT !.pc = "source",
                                              !.walk = WalkOver(collected[v])])
                   [] OTHER -> SetVM(v, Ended(old, "asis"))
              /\ faults' = faults
           \/ SetVM(v, Ended(old, "error")) /\ faults' = faults + 1
    BY <1>7 DEF CheckVM, Fault, old
  <2>2. Untouched(v) => WorthChecking(collected[v]) /\ WalkOK(old.walk, v)
    BY <1>0, <2>1 DEF VMRunOK
  <2>3. seen \in Walks
    BY <1>0, WalkTypes
  <2>4. Untouched(v) => /\ ~Over(seen) => WalkOK(seen, v)
                        /\ Over(seen) => (Eligible(seen) <=> Verdict(v))
    BY <1>0, <2>2, SeeingDecides
  <2> HIDE DEF seen
  <2>5. CASE ~Over(seen) /\ SetVM(v, [old EXCEPT !.walk = seen])
                         /\ faults' = faults
    <3> DEFINE run == [old EXCEPT !.walk = seen]
    <3>1. /\ run \in VMRuns /\ run.pc = "check" /\ run.walk = seen
          /\ run.result = old.result /\ run.source = old.source
      BY <1>0, <2>1, <2>3 DEF VMRuns
    <3>2. SetVM(v, run)
      BY <2>5
    <3> HIDE DEF run
    <3>3. VMRunOK(run, v)
      BY <1>0, <2>2, <2>4, <2>5, <3>1 DEF VMRunOK
    <3> QED
      BY <1>0, <2>5, <3>1, <3>2, <3>3
  <2>6. CASE /\ Over(seen) /\ Eligible(seen) /\ faults' = faults
             /\ SetVM(v, [old EXCEPT !.pc = "source",
                                     !.walk = WalkOver(collected[v])])
    <3> DEFINE run == [old EXCEPT !.pc = "source", !.walk = WalkOver(collected[v])]
    <3>1. /\ run \in VMRuns /\ run.pc = "source"
          /\ run.walk = WalkOver(collected[v])
          /\ run.result = old.result /\ run.source = old.source
      BY <1>0, <1>3 DEF VMRuns
    <3>2. SetVM(v, run)
      BY <2>6
    <3> HIDE DEF run
    <3>3. Untouched(v) => 1 \in DOMAIN l
      BY <1>1, <2>2 DEF WorthChecking, l
    <3>4. VMRunOK(run, v)
      BY <1>0, <1>2, <1>4, <2>4, <2>6, <3>1, <3>3 DEF VMRunOK, l
    <3> QED
      BY <1>0, <2>6, <3>1, <3>2, <3>4
  <2>7. CASE /\ Over(seen) /\ ~Eligible(seen) /\ faults' = faults
             /\ SetVM(v, Ended(old, "asis"))
    <3>1. VMRunOK(Ended(old, "asis"), v)
      BY <1>5, <2>4, <2>7 DEF VMRunOK
    <3> QED
      BY <1>5, <2>7, <3>1
  <2>8. CASE SetVM(v, Ended(old, "error")) /\ faults' = faults + 1
    <3>1. VMRunOK(Ended(old, "error"), v)
      BY <1>5 DEF VMRunOK
    <3> QED
      BY <1>0, <1>5, <2>8, <3>1
  <2> QED
    BY <2>1, <2>5, <2>6, <2>7, <2>8
<1>8. CASE getFirstKubevirtPVC(v)
  <2> DEFINE p    == <<v[1], old.walk.volumes[old.walk.at]>>
             next == [old.walk EXCEPT !.at = @ + 1]
  <2>1. /\ old.pc = "source"
        /\ \/ /\ Policy(p) = "kubevirt" /\ faults' = faults
              /\ SetVM(v, [Ended(old, "uploaded") EXCEPT !.source = p])
           \/ /\ Policy(p) # "kubevirt" /\ faults' = faults
              /\ SetVM(v, IF Over(next) THEN Ended(old, "error")
                          ELSE [old EXCEPT !.walk = next])
           \/ SetVM(v, Ended(old, "error")) /\ faults' = faults + 1
    BY <1>8 DEF getFirstKubevirtPVC, Fault, old
  <2>2. Untouched(v) =>
          /\ Verdict(v) /\ old.walk.volumes = l
          /\ old.walk.at \in DOMAIN l
          /\ \A k \in 1..(old.walk.at - 1) : PolicyOf(v, k) # "kubevirt"
    BY <1>0, <2>1 DEF VMRunOK, l
  <2>3. Untouched(v) => Policy(p) = PolicyOf(v, old.walk.at)
    BY <2>2 DEF PolicyOf, l
  <2>4. Policy(p) = "kubevirt" => p \in PVCs
    BY DEF Policy
  <2>5. Untouched(v) /\ p \in PVCs => p \in PVCsOf(v, collected[v])
    BY <2>2 DEF PVCsOf, l
  <2> HIDE DEF p
  <2>6. /\ next \in Walks /\ next.volumes = old.walk.volumes
        /\ next.at = old.walk.at + 1
    BY <1>0 DEF Walks
  <2> HIDE DEF next
  <2>7. CASE /\ Policy(p) = "kubevirt" /\ faults' = faults
             /\ SetVM(v, [Ended(old, "uploaded") EXCEPT !.source = p])
    <3> DEFINE run == [Ended(old, "uploaded") EXCEPT !.source = p]
    <3>1. /\ run \in VMRuns /\ run.pc = "done" /\ run.result = "uploaded"
          /\ run.source = p
      BY <1>5, <2>4, <2>7 DEF VMRuns
    <3>2. SetVM(v, run)
      BY <2>7
    <3> HIDE DEF run
    <3>3. VMRunOK(run, v)
      BY <2>2, <2>4, <2>5, <2>7, <3>1 DEF VMRunOK
    <3> QED
      BY <3>1, <3>2, <3>3
  <2>8. ASSUME Policy(p) # "kubevirt", Untouched(v)
        PROVE  /\ ~Over(next) /\ next.at \in DOMAIN l
               /\ \A k \in 1..(next.at - 1) : PolicyOf(v, k) # "kubevirt"
    <3>1. \A k \in 1..(next.at - 1) : PolicyOf(v, k) # "kubevirt"
      <4>1. 1..(next.at - 1) = 1..(old.walk.at - 1) \cup {old.walk.at}
        BY <1>1, <2>2, <2>6, <2>8
      <4> QED
        BY <2>2, <2>3, <2>8, <4>1
    <3>2. ~Over(next)
      <4>1. SUFFICES ASSUME Over(next) PROVE FALSE
        OBVIOUS
      <4>2. 1..(next.at - 1) = DOMAIN l
        BY <1>1, <2>2, <2>6, <2>8, <4>1 DEF Over
      <4> QED
        BY <2>2, <2>8, <3>1, <4>2 DEF Verdict, l
    <3>3. next.at \in DOMAIN l
      BY <1>1, <2>2, <2>6, <2>8, <3>2 DEF Over
    <3> QED
      BY <3>1, <3>2, <3>3
  <2>9. CASE /\ Policy(p) # "kubevirt" /\ faults' = faults
             /\ SetVM(v, IF Over(next) THEN Ended(old, "error")
                         ELSE [old EXCEPT !.walk = next])
    <3> DEFINE run == IF Over(next) THEN Ended(old, "error")
                      ELSE [old EXCEPT !.walk = next]
    <3>1. run \in VMRuns /\ SetVM(v, run)
      BY <1>0, <1>5, <2>6, <2>9 DEF VMRuns
    <3>2. ~Over(next) => /\ run.pc = "source" /\ run.walk = next
                         /\ run.result = old.result /\ run.source = old.source
      BY <1>0, <2>1 DEF VMRuns
    <3> HIDE DEF run
    <3>3. Untouched(v) =>
            /\ ~Over(next) /\ next.at \in DOMAIN l
            /\ \A k \in 1..(next.at - 1) : PolicyOf(v, k) # "kubevirt"
      BY <2>8, <2>9
    <3>4. VMRunOK(run, v)
      BY <1>0, <2>2, <2>6, <3>2, <3>3 DEF VMRunOK, l
    <3>5. Untouched(v) /\ run.result = "error" => faults' # 0
      BY <1>0, <2>9, <3>2, <3>3
    <3> QED
      BY <3>1, <3>4, <3>5
  <2>10. CASE SetVM(v, Ended(old, "error")) /\ faults' = faults + 1
    <3>1. VMRunOK(Ended(old, "error"), v)
      BY <1>5 DEF VMRunOK
    <3> QED
      BY <1>0, <1>5, <2>10, <3>1
  <2> QED
    BY <2>1, <2>7, <2>9, <2>10
<1> QED
  BY <1>6, <1>7, <1>8 DEF VMSteps

\* How a run of the PVC plugin goes on after a VM that is not eligible.
LEMMA NextVMOK ==
    ASSUME NEW p \in PVCs, NEW run \in PVCRuns,
           p \notin touched =>
               /\ run.result = "none" /\ run.left \subseteq Users(collected, p)
               /\ run.total = Cardinality(Users(collected, p))
               /\ \A u \in Users(collected, p) \ run.left : Refuted(u)
    PROVE  /\ PVCRunOK(NextVM(run), p)
           /\ p \notin touched => NextVM(run).result # "error"
<1>1. CASE run.left = {}
  <2>1. NextVM(run).pc = "done" /\ NextVM(run).result = "asis"
    BY <1>1, EndedPVC DEF NextVM
  <2> HIDE DEF NextVM
  <2> QED
    BY <1>1, <2>1 DEF PVCRunOK
<1>2. CASE run.left # {}
  <2>1. /\ NextVM(run).pc = "get" /\ NextVM(run).result = run.result
        /\ NextVM(run).left = run.left /\ NextVM(run).total = run.total
    BY <1>2 DEF NextVM, PVCRuns
  <2> QED
    BY <2>1 DEF PVCRunOK
<1> QED
  BY <1>1, <1>2

\* A run that ends with an error says nothing.
LEMMA ErrorOK ==
    ASSUME NEW p \in PVCs, NEW run \in PVCRuns
    PROVE  /\ Ended(run, "error") \in PVCRuns /\ PVCRunOK(Ended(run, "error"), p)
           /\ Ended(run, "error").result = "error"
  BY EndedPVC DEF PVCRunOK

\* What the invariant asks of the run of p after a step, and of its errors.
StepOK(p, run) ==
    /\ SetPVC(p, run) /\ PVCRunOK(run, p)
    /\ p \notin touched /\ run.result = "error"
           => faults' # 0 \/ Cardinality(Users(collected, p)) > 1

LEMMA UseVMsOK ==
    ASSUME TypeOK, NEW p \in PVCs, NEW users \in SUBSET VMs, UseVMs(p, users),
           pvcRun[p].pc = "list", PVCRunOK(pvcRun[p], p),
           p \notin touched => users = Users(collected, p)
    PROVE  \E run \in PVCRuns : StepOK(p, run)
<1>1. pvcRun[p] \in PVCRuns
  BY DEF TypeOK
<1>2. CASE users = {}
  <2> DEFINE run == Ended(pvcRun[p], "asis")
  <2>1. run \in PVCRuns /\ run.pc = "done" /\ run.result = "asis"
    BY <1>1, EndedPVC
  <2>2. SetPVC(p, run)
    BY <1>2 DEF UseVMs
  <2> HIDE DEF run
  <2>3. PVCRunOK(run, p)
    BY <1>2, <2>1 DEF PVCRunOK
  <2> QED
    BY <2>1, <2>2, <2>3 DEF StepOK
<1>3. CASE users # {}
  <2> DEFINE run == [pvcRun[p] EXCEPT !.pc = "get", !.left = users,
                                      !.total = Cardinality(users)]
  <2>1. Cardinality(users) \in 0..Cardinality(VMs)
    BY ItemsAssumption, FS_Subset, FS_CardinalityType
  <2>2. /\ run \in PVCRuns /\ run.pc = "get" /\ run.left = users
        /\ run.total = Cardinality(users) /\ run.result = pvcRun[p].result
    BY <1>1, <2>1 DEF PVCRuns
  <2>3. SetPVC(p, run)
    BY <1>3 DEF UseVMs
  <2> HIDE DEF run
  <2>4. p \notin touched => run.result = "none"
    BY <2>2 DEF PVCRunOK
  <2>5. PVCRunOK(run, p)
    BY <2>2, <2>4 DEF PVCRunOK
  <2> QED
    BY <2>2, <2>3, <2>4, <2>5 DEF StepOK
<1> QED
  BY <1>2, <1>3

\* The users of an untouched PVC exist, and KubeVirt with them.
LEMMA UsedMeansInstalled ==
    ASSUME TypeOK, ClusterInv, NEW p \in PVCs \ touched,
           NEW u \in Users(collected, p)
    PROVE  /\ u \in VMs /\ machines[u] = collected[u] /\ machines[u].exists
           /\ installed /\ kubevirtInstall # "missing"
  BY DEF Users, ClusterInv

LEMMA ListStepOK ==
    ASSUME ItemsInv, NEW p \in PVCs, shouldListVMsLocked(p)
    PROVE  /\ pvcRun' = pvcRun \/ \E run \in PVCRuns : StepOK(p, run)
           /\ kubevirtInstall' = "missing" => kubevirtInstall = "missing" \/ ~installed
<1>0. /\ TypeOK /\ ClusterInv /\ pvcRun[p] \in PVCRuns
      /\ PVCRunOK(pvcRun[p], p) /\ faults \in Nat
  BY DEF ItemsInv, TypeOK, RunsInv
<1>1. ASSUME ~installed \/ kubevirtInstall = "missing"
      PROVE  PVCRunOK(Ended(pvcRun[p], "asis"), p)
  <2>1. p \notin touched => Users(collected, p) = {}
    BY <1>0, <1>1, UsedMeansInstalled
  <2>2. /\ Ended(pvcRun[p], "asis").pc = "done"
        /\ Ended(pvcRun[p], "asis").result = "asis"
    BY <1>0, EndedPVC
  <2> QED
    BY <2>1, <2>2 DEF PVCRunOK
<1>2. /\ Ended(pvcRun[p], "asis") \in PVCRuns
      /\ Ended(pvcRun[p], "asis").result = "asis"
  BY <1>0, EndedPVC
<1>3. /\ Ended(pvcRun[p], "error") \in PVCRuns
      /\ PVCRunOK(Ended(pvcRun[p], "error"), p)
  BY <1>0, ErrorOK
<1>4. /\ \/ pvcRun' = pvcRun
         \/ /\ SetPVC(p, Ended(pvcRun[p], "asis"))
            /\ ~installed \/ kubevirtInstall = "missing"
         \/ SetPVC(p, Ended(pvcRun[p], "error")) /\ faults' = faults + 1
      /\ kubevirtInstall' = "missing" => kubevirtInstall = "missing" \/ ~installed
  BY DEF shouldListVMsLocked, Fault
<1>5. faults + 1 # 0
  BY <1>0
<1> QED
  BY <1>1, <1>2, <1>3, <1>4, <1>5 DEF StepOK

LEMMA MapStepOK ==
    ASSUME ItemsInv, NEW p \in PVCs, getPVCList(p)
    PROVE  MapInv' /\ \E run \in PVCRuns : StepOK(p, run)
<1> DEFINE listed == [q \in PVCs |-> IF q[1] = p[1] THEN Users(machines, q) ELSE {}]
<1>0. /\ TypeOK /\ ClusterInv /\ MapInv /\ PVCRunOK(pvcRun[p], p)
      /\ pvcRun[p] \in PVCRuns /\ faults \in Nat /\ p[1] \in Namespaces
      /\ nsPVCs \in [Namespaces -> [known : BOOLEAN, users : [PVCs -> SUBSET VMs]]]
  BY DEF ItemsInv, TypeOK, RunsInv, Namespaces
<1>1. /\ listed[p] \in SUBSET VMs
      /\ \A q \in PVCs \ touched :
             q[1] = p[1] => listed[q] = Users(collected, q)
  BY <1>0, UsersFrozen, UsersType
<1>2. nsPVCs[p[1]].users[p] \in SUBSET VMs
  BY <1>0
<1>3. /\ pvcRun[p].pc = "list" /\ touched' = touched /\ collected' = collected
      /\ \/ UseVMs(p, nsPVCs[p[1]].users[p]) /\ nsPVCs[p[1]].known /\ nsPVCs' = nsPVCs
         \/ /\ UseVMs(p, listed[p])
            /\ nsPVCs' = [nsPVCs EXCEPT ![p[1]] = [known |-> TRUE, users |-> listed]]
         \/ /\ SetPVC(p, Ended(pvcRun[p], "error"))
            /\ faults' = faults + 1 /\ nsPVCs' = nsPVCs
  BY DEF getPVCList, Fault, cluster, ghosts
<1> HIDE DEF listed
<1>4. ASSUME NEW q \in PVCs \ touched
      PROVE  Users(collected, q)' = Users(collected, q)
  BY <1>3 DEF Users, PVCsOf
<1>5. ASSUME nsPVCs' = nsPVCs PROVE MapInv'
  BY <1>0, <1>3, <1>4, <1>5 DEF MapInv
<1>6. ASSUME nsPVCs' = [nsPVCs EXCEPT ![p[1]] = [known |-> TRUE, users |-> listed]]
      PROVE  MapInv'
  <2>1. ASSUME NEW q \in PVCs \ touched, nsPVCs'[q[1]].known
        PROVE  nsPVCs'[q[1]].users[q] = Users(collected, q)
    <3>1. q[1] \in Namespaces
      BY DEF Namespaces
    <3>2. CASE q[1] = p[1]
      BY <1>0, <1>1, <1>6, <3>2
    <3>3. CASE q[1] # p[1]
      BY <1>0, <1>6, <2>1, <3>1, <3>3 DEF MapInv
    <3> QED
      BY <3>2, <3>3
  <2> QED
    BY <1>3, <1>4, <2>1 DEF MapInv
<1>7. ASSUME UseVMs(p, nsPVCs[p[1]].users[p]), nsPVCs[p[1]].known
      PROVE  \E run \in PVCRuns : StepOK(p, run)
  <2>1. p \notin touched => nsPVCs[p[1]].users[p] = Users(collected, p)
    BY <1>0, <1>7 DEF MapInv
  <2> QED
    BY <1>0, <1>2, <1>3, <1>7, <2>1, UseVMsOK
<1>8. ASSUME UseVMs(p, listed[p])
      PROVE  \E run \in PVCRuns : StepOK(p, run)
  <2>1. p \notin touched => listed[p] = Users(collected, p)
    BY <1>1
  <2> QED
    BY <1>0, <1>1, <1>3, <1>8, <2>1, UseVMsOK
<1>9. ASSUME SetPVC(p, Ended(pvcRun[p], "error")), faults' = faults + 1
      PROVE  \E run \in PVCRuns : StepOK(p, run)
  BY <1>0, <1>9, ErrorOK DEF StepOK
<1> QED
  BY <1>3, <1>5, <1>6, <1>7, <1>8, <1>9

LEMMA GetVMOK ==
    ASSUME ItemsInv, NEW p \in PVCs, GetVM(p)
    PROVE  \E run \in PVCRuns : StepOK(p, run)
<1>0. /\ TypeOK /\ ClusterInv /\ PVCRunOK(pvcRun[p], p)
      /\ pvcRun[p] \in PVCRuns /\ faults \in Nat /\ machines \in [VMs -> Machines]
  BY DEF ItemsInv, TypeOK, RunsInv
<1>1. PICK v \in pvcRun[p].left :
        LET run == [pvcRun[p] EXCEPT !.left = @ \ {v}] IN
        \/ SetPVC(p, CASE ~machines[v].exists -> Ended(run, "error")
                       [] machines[v].exists /\ WorthChecking(machines[v]) ->
                             [run EXCEPT !.pc = "check", !.vm = v,
                                         !.walk = WalkOver(machines[v])]
                       [] OTHER -> NextVM(run))
        \/ SetPVC(p, Ended(run, "error")) /\ faults' = faults + 1
  BY DEF GetVM, Fault
<1> DEFINE got == [pvcRun[p] EXCEPT !.left = @ \ {v}]
<1>2. /\ v \in VMs /\ got \in PVCRuns /\ got.pc = "get"
      /\ got.left = pvcRun[p].left \ {v} /\ got.total = pvcRun[p].total
      /\ got.result = pvcRun[p].result
  BY <1>0 DEF PVCRuns, GetVM
<1>3. pvcRun[p].pc = "get"
  BY DEF GetVM
<1>4. p \notin touched =>
        /\ got.result = "none" /\ got.left \subseteq Users(collected, p)
        /\ got.total = Cardinality(Users(collected, p))
        /\ v \in Users(collected, p)
        /\ \A u \in Users(collected, p) \ (got.left \cup {v}) : Refuted(u)
  BY <1>0, <1>2, <1>3 DEF PVCRunOK
<1>5. p \notin touched => machines[v] = collected[v] /\ machines[v].exists
  BY <1>0, <1>4, UsedMeansInstalled
<1> HIDE DEF got
<1>6. \/ SetPVC(p, Ended(got, "error")) /\ ~machines[v].exists
      \/ SetPVC(p, Ended(got, "error")) /\ faults' = faults + 1
      \/ /\ machines[v].exists /\ WorthChecking(machines[v])
         /\ SetPVC(p, [got EXCEPT !.pc = "check", !.vm = v,
                                  !.walk = WalkOver(machines[v])])
      \/ /\ machines[v].exists /\ ~WorthChecking(machines[v])
         /\ SetPVC(p, NextVM(got))
  BY <1>1 DEF got
<1>7. CASE SetPVC(p, Ended(got, "error")) /\ ~machines[v].exists
  BY <1>2, <1>5, <1>7, ErrorOK DEF StepOK
<1>8. CASE SetPVC(p, Ended(got, "error")) /\ faults' = faults + 1
  BY <1>0, <1>2, <1>8, ErrorOK DEF StepOK
<1>9. CASE /\ machines[v].exists /\ WorthChecking(machines[v])
           /\ SetPVC(p, [got EXCEPT !.pc = "check", !.vm = v,
                                    !.walk = WalkOver(machines[v])])
  <2> DEFINE run == [got EXCEPT !.pc = "check", !.vm = v,
                                !.walk = WalkOver(machines[v])]
             w   == WalkOver(machines[v])
  <2>1. w \in Walks
    BY <1>0, <1>2, WalkTypes
  <2>2. /\ w.volumes = machines[v].volumes /\ w.at = 1
        /\ ~w.kubevirt /\ ~w.conflict
    BY DEF WalkOver, NoWalk
  <2> HIDE DEF w
  <2>3. /\ run \in PVCRuns /\ run.pc = "check" /\ run.vm = v /\ run.walk = w
        /\ run.left = got.left /\ run.total = got.total /\ run.result = got.result
    BY <1>2, <2>1 DEF PVCRuns, w
  <2>4. SetPVC(p, run)
    BY <1>9
  <2> HIDE DEF run
  <2>5. 1 \in DOMAIN machines[v].volumes
    BY <1>0, <1>2, <1>9, VolumesType DEF WorthChecking
  <2>6. machines[v] = collected[v] => WalkOK(w, v)
    <3>1. 1..(w.at - 1) = {}
      BY <2>2
    <3> QED
      BY <2>2, <2>5, <3>1 DEF WalkOK
  <2>7. PVCRunOK(run, p)
    BY <1>4, <1>5, <1>9, <2>3, <2>6 DEF PVCRunOK
  <2> QED
    BY <1>4, <2>3, <2>4, <2>7 DEF StepOK
<1>10. CASE /\ machines[v].exists /\ ~WorthChecking(machines[v])
            /\ SetPVC(p, NextVM(got))
  <2>1. p \notin touched => Refuted(v)
    BY <1>5, <1>10 DEF Refuted, Verdict
  <2> QED
    BY <1>2, <1>4, <1>10, <2>1, NextVMOK, NextVMType DEF StepOK
<1> QED
  BY <1>6, <1>7, <1>8, <1>9, <1>10

LEMMA CheckVMOK ==
    ASSUME ItemsInv, NEW p \in PVCs, CheckVMOfPVC(p)
    PROVE  \E run \in PVCRuns : StepOK(p, run)
<1> DEFINE old  == pvcRun[p]
           seen == SeeVolume(old.walk, <<old.vm[1], old.walk.volumes[old.walk.at]>>)
           U    == Users(collected, p)
<1>0. /\ TypeOK /\ PVCRunOK(old, p) /\ faults \in Nat
      /\ old \in PVCRuns /\ old.walk \in Walks
  BY DEF ItemsInv, TypeOK, RunsInv, PVCRuns
<1>1. /\ U \subseteq VMs /\ IsFiniteSet(U)
      /\ Cardinality(U) \in Nat
  BY UsersType, FS_CardinalityType
<1>2. /\ old.pc = "check"
      /\ \/ ~Over(seen) /\ SetPVC(p, [old EXCEPT !.walk = seen])
         \/ Over(seen) /\ Eligible(seen) /\ SetPVC(p, Stamp(old))
         \/ Over(seen) /\ ~Eligible(seen) /\ SetPVC(p, NextVM(old))
         \/ SetPVC(p, Ended(old, "error")) /\ faults' = faults + 1
  BY DEF CheckVMOfPVC, Fault
<1>3. p \notin touched =>
        /\ old.result = "none" /\ old.left \subseteq U
        /\ old.total = Cardinality(U) /\ old.vm \in U
        /\ \A u \in U \ old.left : Refuted(u) \/ u = old.vm
        /\ Untouched(old.vm) => /\ WorthChecking(collected[old.vm])
                                /\ WalkOK(old.walk, old.vm)
  BY <1>0, <1>1, <1>2 DEF PVCRunOK
<1>4. seen \in Walks
  BY <1>0, WalkTypes
<1>5. p \notin touched /\ Untouched(old.vm) =>
        /\ ~Over(seen) => WalkOK(seen, old.vm)
        /\ Over(seen) => (Eligible(seen) <=> Verdict(old.vm))
  BY <1>0, <1>1, <1>3, SeeingDecides
<1> HIDE DEF seen, old, U
<1>6. CASE ~Over(seen) /\ SetPVC(p, [old EXCEPT !.walk = seen])
  <2> DEFINE run == [old EXCEPT !.walk = seen]
  <2>1. /\ run \in PVCRuns /\ run.pc = "check" /\ run.walk = seen
        /\ run.vm = old.vm /\ run.left = old.left /\ run.total = old.total
        /\ run.result = old.result
    BY <1>0, <1>2, <1>4 DEF PVCRuns
  <2>2. SetPVC(p, run)
    BY <1>6
  <2> HIDE DEF run
  <2>3. PVCRunOK(run, p)
    BY <1>3, <1>5, <1>6, <2>1 DEF PVCRunOK, U
  <2> QED
    BY <1>3, <2>1, <2>2, <2>3 DEF StepOK
<1>7. CASE Over(seen) /\ Eligible(seen) /\ SetPVC(p, Stamp(old))
  <2>1. CASE old.total > 1
    <3>1. Stamp(old) = Ended(old, "error")
      BY <2>1 DEF Stamp
    <3> QED
      BY <1>0, <1>3, <1>7, <2>1, <3>1, ErrorOK DEF StepOK, U
  <2>2. CASE ~(old.total > 1)
    <3>1. Stamp(old) = Ended(old, "stamped")
      BY <2>2 DEF Stamp
    <3>2. /\ Ended(old, "stamped") \in PVCRuns
          /\ Ended(old, "stamped").pc = "done"
          /\ Ended(old, "stamped").result = "stamped"
          /\ Ended(old, "stamped").vm = old.vm
      BY <1>0, EndedPVC
    <3>3. p \notin touched => U = {old.vm}
      <4> SUFFICES ASSUME p \notin touched PROVE U = {old.vm}
        OBVIOUS
      <4>1. Cardinality(U) <= 1 /\ old.vm \in U
        BY <1>1, <1>3, <2>2
      <4>2. Cardinality(U) # 0
        BY <1>1, <4>1, FS_EmptySet
      <4>3. Cardinality(U) = 1
        BY <1>1, <4>1, <4>2
      <4> QED
        BY <1>1, <4>1, <4>3, FS_Singleton
    <3>4. PVCRunOK(Ended(old, "stamped"), p)
      BY <1>5, <1>7, <3>2, <3>3 DEF PVCRunOK, U
    <3> QED
      BY <1>7, <3>1, <3>2, <3>4 DEF StepOK
  <2> QED
    BY <2>1, <2>2
<1>8. CASE Over(seen) /\ ~Eligible(seen) /\ SetPVC(p, NextVM(old))
  <2>1. p \notin touched => Refuted(old.vm)
    BY <1>5, <1>8 DEF Refuted
  <2> QED
    BY <1>0, <1>3, <1>8, <2>1, NextVMOK, NextVMType DEF StepOK, U
<1>9. CASE SetPVC(p, Ended(old, "error")) /\ faults' = faults + 1
  BY <1>0, <1>9, ErrorOK DEF StepOK
<1> QED
  BY <1>2, <1>6, <1>7, <1>8, <1>9

\* A change of a VM concerns the VM and what it used or is to use.
LEMMA ChangeVMKeepsCluster ==
    ASSUME TypeOK, ClusterInv, NEW v \in VMs, ChangeVM(v)
    PROVE  ClusterInv'
<1>1. PICK m \in Machines :
        /\ machines' = [machines EXCEPT ![v] = m]
        /\ touched' = touched \cup {v} \cup PVCsOf(v, m) \cup PVCsOf(v, machines[v])
  BY DEF ChangeVM
<1>2. /\ machines \in [VMs -> Machines] /\ collected' = collected
      /\ installed' = installed /\ kubevirtInstall' = kubevirtInstall
  BY DEF ChangeVM, TypeOK
<1>3. ASSUME NEW u \in VMs \ touched' PROVE machines'[u] = collected'[u]
  BY <1>1, <1>2 DEF ClusterInv
<1>4. ASSUME NEW p \in PVCs \ touched', NEW u \in VMs,
             p \in PVCsOf(u, machines'[u]) \cup PVCsOf(u, collected[u])
      PROVE  machines'[u] = collected[u]
  <2>1. CASE u = v
    <3>1. p \notin PVCsOf(v, m) /\ p \notin PVCsOf(v, machines[v])
      BY <1>1
    <3>2. machines'[u] = m
      BY <1>1, <1>2, <2>1
    <3>3. p \in PVCsOf(v, collected[v])
      BY <1>4, <2>1, <3>1, <3>2
    <3>4. machines[v] = collected[v]
      BY <1>1, <3>3 DEF ClusterInv
    <3> QED
      BY <3>1, <3>3, <3>4
  <2>2. CASE u # v
    BY <1>1, <1>2, <1>4, <2>2 DEF ClusterInv
  <2> QED
    BY <2>1, <2>2
<1>5. ASSUME NEW p \in PVCs \ touched', NEW u \in VMs,
             p \in PVCsOf(u, machines[u])' \cup PVCsOf(u, collected[u])'
      PROVE  machines'[u] = collected'[u]
  BY <1>2, <1>4, <1>5 DEF PVCsOf
<1> QED
  BY <1>2, <1>3, <1>5 DEF ClusterInv

LEMMA ClusterKept ==
    ASSUME TypeOK, ClusterInv, UNCHANGED <<machines, collected>>,
           touched \subseteq touched', installed => installed',
           kubevirtInstall' = "missing" => kubevirtInstall = "missing" \/ ~installed
    PROVE  ClusterInv'
  BY DEF ClusterInv, PVCsOf

LEMMA MapKept ==
    ASSUME MapInv, UNCHANGED <<nsPVCs, collected>>, touched \subseteq touched'
    PROVE  MapInv'
  BY DEF MapInv, Users, PVCsOf

\* Where no run changes, the invariant about the runs is kept.
LEMMA RunsKept ==
    ASSUME TypeOK, RunsInv, ErrorsInv, Frame, UNCHANGED <<vmRun, pvcRun, faults>>
    PROVE  RunsInv' /\ ErrorsInv'
<1>1. ASSUME NEW v \in VMs
      PROVE  VMRunOK(vmRun[v], v)'
  <2>1. VMRunOK(vmRun[v], v) /\ vmRun[v] \in VMRuns
    BY DEF RunsInv, TypeOK
  <2>2. PICK run \in VMRuns : run = vmRun[v]
    BY <2>1
  <2>3. VMRunOK(run, v)'
    BY <2>1, <2>2, VMRunKept
  <2>4. run = vmRun'[v]
    BY <2>2
  <2> QED
    BY <2>3, <2>4 DEF VMRunOK, WalkOK
<1>2. ASSUME NEW p \in PVCs
      PROVE  PVCRunOK(pvcRun[p], p)'
  <2>1. PVCRunOK(pvcRun[p], p) /\ pvcRun[p] \in PVCRuns
    BY DEF RunsInv, TypeOK
  <2>2. PICK run \in PVCRuns : run = pvcRun[p]
    BY <2>1
  <2>3. PVCRunOK(run, p)'
    BY <2>1, <2>2, PVCRunKept
  <2>4. run = pvcRun'[p]
    BY <2>2
  <2> QED
    BY <2>3, <2>4 DEF PVCRunOK, WalkOK
<1>3. \A v \in VMs : Untouched(v)' => Untouched(v)
  BY VerdictKept
<1>4. \A p \in PVCs : Users(collected, p)' = Users(collected, p)
  BY DEF Frame, Users, PVCsOf
<1> QED
  BY <1>1, <1>2, <1>3, <1>4 DEF RunsInv, ErrorsInv, Frame

LEMMA VMStepKeeps ==
    ASSUME ItemsInv, NEW v \in VMs, VMSteps(v)
    PROVE  RunsInv' /\ ErrorsInv'
<1>0. /\ TypeOK /\ RunsInv /\ ErrorsInv /\ vmRun \in [VMs -> VMRuns]
      /\ pvcRun \in [PVCs -> PVCRuns]
  BY DEF ItemsInv, TypeOK
<1>1. /\ UNCHANGED <<cluster, pvcRun, ghosts>>
      /\ faults' \in Nat /\ (faults' = 0 => faults = 0)
  BY <1>0, VMRunTypes DEF VMUnchanged
<1>2. Frame
  BY <1>1 DEF Frame, cluster, ghosts
<1>3. PICK run \in VMRuns :
        /\ SetVM(v, run) /\ VMRunOK(run, v)
        /\ Untouched(v) /\ run.result = "error" => faults' # 0
  BY VMStepOK
<1>4. vmRun'[v] = run /\ \A u \in VMs \ {v} : vmRun'[u] = vmRun[u]
  BY <1>0, <1>3 DEF SetVM
<1>5. ASSUME NEW u \in VMs PROVE VMRunOK(vmRun[u], u)'
  <2>1. PICK r \in VMRuns : r = vmRun'[u] /\ VMRunOK(r, u)
    <3>1. CASE u = v
      BY <1>3, <1>4, <3>1
    <3>2. CASE u # v
      BY <1>0, <1>4, <3>2 DEF RunsInv
    <3> QED
      BY <3>1, <3>2
  <2>2. VMRunOK(r, u)'
    BY <1>0, <1>2, <2>1, VMRunKept
  <2> QED
    BY <2>1, <2>2 DEF VMRunOK, WalkOK
<1>6. ASSUME NEW p \in PVCs PROVE PVCRunOK(pvcRun[p], p)'
  <2>1. PICK r \in PVCRuns : r = pvcRun'[p] /\ PVCRunOK(r, p)
    BY <1>0, <1>1 DEF RunsInv
  <2>2. PVCRunOK(r, p)'
    BY <1>0, <1>2, <2>1, PVCRunKept
  <2> QED
    BY <2>1, <2>2 DEF PVCRunOK, WalkOK
<1>7. ASSUME NEW u \in VMs, Untouched(u)', vmRun'[u].result = "error"
      PROVE  faults' # 0
  <2>1. Untouched(u)
    BY <1>2, <1>7, VerdictKept
  <2>2. CASE u = v
    BY <1>3, <1>4, <1>7, <2>1, <2>2
  <2>3. CASE u # v
    BY <1>0, <1>1, <1>4, <1>7, <2>1, <2>3 DEF ErrorsInv
  <2> QED
    BY <2>2, <2>3
<1>8. ASSUME NEW p \in PVCs, p \notin touched', pvcRun'[p].result = "error"
      PROVE  faults' # 0 \/ Cardinality(Users(collected, p)') > 1
  <2>1. Users(collected, p)' = Users(collected, p)
    BY <1>2 DEF Frame, Users, PVCsOf
  <2>2. p \notin touched /\ pvcRun' = pvcRun
    BY <1>1, <1>8 DEF ghosts
  <2> QED
    BY <1>0, <1>1, <1>8, <2>1, <2>2 DEF ErrorsInv
<1> QED
  BY <1>5, <1>6, <1>7, <1>8 DEF RunsInv, ErrorsInv

LEMMA PVCStepOK ==
    ASSUME ItemsInv, NEW p \in PVCs, PVCSteps(p)
    PROVE  pvcRun' = pvcRun \/ \E run \in PVCRuns : StepOK(p, run)
  BY ListStepOK, MapStepOK, GetVMOK, CheckVMOK DEF PVCSteps

LEMMA PVCStepKeeps ==
    ASSUME ItemsInv, NEW p \in PVCs, PVCSteps(p)
    PROVE  RunsInv' /\ ErrorsInv'
<1>0. /\ TypeOK /\ RunsInv /\ ErrorsInv /\ vmRun \in [VMs -> VMRuns]
      /\ pvcRun \in [PVCs -> PVCRuns]
  BY DEF ItemsInv, TypeOK
<1>1. /\ UNCHANGED <<cluster, vmRun, ghosts>>
      /\ faults' \in Nat /\ (faults' = 0 => faults = 0)
  BY <1>0, PVCRunTypes
<1>2. Frame
  BY <1>1 DEF Frame, cluster, ghosts
<1>3. ASSUME NEW q \in PVCs
      PROVE  \E r \in PVCRuns :
                /\ r = pvcRun'[q] /\ PVCRunOK(r, q)
                /\ q \notin touched /\ r.result = "error"
                      => faults' # 0 \/ Cardinality(Users(collected, q)) > 1
  <2>1. CASE pvcRun'[q] = pvcRun[q]
    BY <1>0, <1>1, <2>1 DEF RunsInv, ErrorsInv
  <2>2. CASE pvcRun'[q] # pvcRun[q]
    <3>1. PICK run \in PVCRuns : StepOK(p, run)
      BY <2>2, PVCStepOK
    <3>2. q = p /\ pvcRun'[p] = run
      BY <1>0, <2>2, <3>1 DEF StepOK, SetPVC
    <3> QED
      BY <3>1, <3>2 DEF StepOK
  <2> QED
    BY <2>1, <2>2
<1>4. ASSUME NEW q \in PVCs PROVE PVCRunOK(pvcRun[q], q)'
  <2>1. PICK r \in PVCRuns : r = pvcRun'[q] /\ PVCRunOK(r, q)
    BY <1>3
  <2>2. PVCRunOK(r, q)'
    BY <1>0, <1>2, <2>1, PVCRunKept
  <2> QED
    BY <2>1, <2>2 DEF PVCRunOK, WalkOK
<1>5. ASSUME NEW v \in VMs PROVE VMRunOK(vmRun[v], v)'
  <2>1. PICK r \in VMRuns : r = vmRun'[v] /\ VMRunOK(r, v)
    BY <1>0, <1>1 DEF RunsInv
  <2>2. VMRunOK(r, v)'
    BY <1>0, <1>2, <2>1, VMRunKept
  <2> QED
    BY <2>1, <2>2 DEF VMRunOK, WalkOK
<1>6. ASSUME NEW v \in VMs, Untouched(v)', vmRun'[v].result = "error"
      PROVE  faults' # 0
  <2>1. Untouched(v)
    BY <1>2, <1>6, VerdictKept
  <2> QED
    BY <1>0, <1>1, <1>6, <2>1 DEF ErrorsInv
<1>7. ASSUME NEW q \in PVCs, q \notin touched', pvcRun'[q].result = "error"
      PROVE  faults' # 0 \/ Cardinality(Users(collected, q)') > 1
  <2>1. Users(collected, q)' = Users(collected, q)
    BY <1>2 DEF Frame, Users, PVCsOf
  <2>2. q \notin touched
    BY <1>1, <1>7 DEF ghosts
  <2> QED
    BY <1>3, <1>7, <2>1, <2>2
<1> QED
  BY <1>4, <1>5, <1>6, <1>7 DEF RunsInv, ErrorsInv

LEMMA ItemsStep == ItemsInv /\ [Next]_vars => ItemsInv'
<1> SUFFICES ASSUME ItemsInv, [Next]_vars PROVE ItemsInv'
  OBVIOUS
<1>0. TypeOK /\ ClusterInv /\ MapInv /\ RunsInv /\ ErrorsInv
  BY DEF ItemsInv
<1>1. TypeOK'
  BY <1>0, TypeStep
<1>2. ASSUME NEW v \in VMs, VMSteps(v) PROVE ItemsInv'
  <2>1. UNCHANGED <<cluster, kubevirtInstall, nsPVCs, ghosts>>
    BY <1>0, <1>2, VMRunTypes DEF VMUnchanged
  <2>2. ClusterInv' /\ MapInv'
    BY <1>0, <2>1, ClusterKept, MapKept DEF cluster, ghosts
  <2> QED
    BY <1>1, <1>2, <2>2, VMStepKeeps DEF ItemsInv
<1>3. ASSUME NEW p \in PVCs, PVCSteps(p) PROVE ItemsInv'
  <2>1. UNCHANGED <<cluster, ghosts>>
    BY <1>0, <1>3, PVCRunTypes
  <2>2. kubevirtInstall' = "missing" => kubevirtInstall = "missing" \/ ~installed
    <3>1. CASE shouldListVMsLocked(p)
      BY <3>1, ListStepOK
    <3>2. CASE ~shouldListVMsLocked(p)
      BY <1>3, <3>2 DEF PVCSteps, getPVCList, GetVM, CheckVMOfPVC
    <3> QED
      BY <3>1, <3>2
  <2>3. ClusterInv'
    BY <1>0, <2>1, <2>2, ClusterKept DEF cluster, ghosts
  <2>4. MapInv'
    <3>1. CASE getPVCList(p)
      BY <3>1, MapStepOK
    <3>2. CASE ~getPVCList(p)
      <4>1. nsPVCs' = nsPVCs
        BY <1>3, <3>2 DEF PVCSteps, shouldListVMsLocked, GetVM, CheckVMOfPVC
      <4> QED
        BY <1>0, <2>1, <4>1, MapKept DEF cluster, ghosts
    <3> QED
      BY <3>1, <3>2
  <2> QED
    BY <1>1, <1>3, <2>3, <2>4, PVCStepKeeps DEF ItemsInv
<1>4. ASSUME NEW v \in VMs, ChangeVM(v) PROVE ItemsInv'
  <2>1. UNCHANGED <<snapshotMoveData, policy, collected, vmRun, pvcRun, nsPVCs, faults>>
        /\ touched \subseteq touched'
    BY <1>4 DEF ChangeVM
  <2>2. Frame
    BY <2>1 DEF Frame
  <2> QED
    BY <1>0, <1>1, <1>4, <2>1, <2>2, ChangeVMKeepsCluster, MapKept, RunsKept
       DEF ItemsInv
<1>5. ASSUME NEW p \in PVCs, ChangePVC(p) PROVE ItemsInv'
  <2>1. /\ UNCHANGED <<snapshotMoveData, installed, machines, collected, vmRun,
                       pvcRun, kubevirtInstall, nsPVCs, faults>>
        /\ touched' = touched \cup {p}
        /\ \E c : policy' = [policy EXCEPT ![p] = c]
    BY <1>5 DEF ChangePVC
  <2>2. Frame
    BY <1>0, <2>1 DEF Frame, TypeOK
  <2> QED
    BY <1>0, <1>1, <2>1, <2>2, ClusterKept, MapKept, RunsKept DEF ItemsInv
<1>6. CASE InstallKubeVirt
  <2>1. /\ UNCHANGED <<snapshotMoveData, machines, policy, collected, vmRun,
                       pvcRun, kubevirtInstall, nsPVCs, touched, faults>>
        /\ installed'
    BY <1>6 DEF InstallKubeVirt
  <2>2. Frame
    BY <2>1 DEF Frame
  <2> QED
    BY <1>0, <1>1, <2>1, <2>2, ClusterKept, MapKept, RunsKept DEF ItemsInv
<1>7. CASE UNCHANGED vars
  <2>1. Frame
    BY <1>7 DEF Frame, vars, cluster, ghosts
  <2> QED
    BY <1>0, <1>1, <1>7, <2>1, ClusterKept, MapKept, RunsKept
       DEF ItemsInv, vars, cluster, ghosts
<1> QED
  BY <1>2, <1>3, <1>4, <1>5, <1>6, <1>7 DEF Next

-------------------------------------------------------------------------------
(* The theorems.                                                               *)

\* The invariant holds in every state.
THEOREM Invariance == Spec => []ItemsInv
  BY InitInv, ItemsStep, PTL DEF Spec

LEMMA InvImpliesAgreement == ItemsInv => Agreement
<1> SUFFICES ASSUME ItemsInv, NEW v \in VMs, NEW p \in PVCsOf(v, collected[v]),
                    Untouched(v), vmRun[v].result \in {"asis", "uploaded"},
                    pvcRun[p].result \in {"asis", "stamped"}
             PROVE  vmRun[v].result = "uploaded"
                        <=> pvcRun[p].result = "stamped" /\ pvcRun[p].vm = v
  BY DEF Agreement
<1>1. p \in PVCs /\ p \notin touched /\ TypeOK
  BY DEF PVCsOf, Untouched, ItemsInv
<1>2. v \in Users(collected, p)
  BY <1>1, UsersExist DEF Users
<1>3. vmRun[v].result = "uploaded" <=> Verdict(v)
  BY DEF ItemsInv, RunsInv, VMRunOK
<1>4. PVCRunOK(pvcRun[p], p)
  BY <1>1 DEF ItemsInv, RunsInv
<1>5. CASE pvcRun[p].result = "stamped"
  BY <1>1, <1>2, <1>3, <1>4, <1>5 DEF PVCRunOK
<1>6. CASE pvcRun[p].result = "asis"
  BY <1>1, <1>2, <1>3, <1>4, <1>6 DEF PVCRunOK, Refuted
<1> QED
  BY <1>5, <1>6

\* Whatever becomes of the others, the two plugins come to one verdict on a VM
\* that is left alone, and its PVCs are stamped if and only if it is uploaded.
THEOREM OneVerdict == Spec => []Agreement
  BY Invariance, InvImpliesAgreement, PTL

LEMMA InvImpliesExclusive == ItemsInv => StampIsExclusive
<1> SUFFICES ASSUME ItemsInv, NEW p \in PVCs, pvcRun[p].result = "stamped",
                    p \notin touched
             PROVE  Users(machines, p) = {pvcRun[p].vm}
  BY DEF StampIsExclusive
<1>1. Users(machines, p) = Users(collected, p)
  BY UsersFrozen DEF ItemsInv
<1> QED
  BY <1>1 DEF ItemsInv, RunsInv, PVCRunOK

\* A PVC that carries a stamp and is left alone has no other VM that uses it.
THEOREM NoSharedStamp == Spec => []StampIsExclusive
  BY Invariance, InvImpliesExclusive, PTL

LEMMA InvImpliesRefusal == ItemsInv => RefusedOnlyIfShared
<1> SUFFICES ASSUME ItemsInv, NEW p \in PVCs, pvcRun[p].result = "error",
                    p \notin touched, faults = 0
             PROVE  Cardinality(Users(machines, p)) > 1
  BY DEF RefusedOnlyIfShared
<1>1. Users(machines, p) = Users(collected, p)
  BY UsersFrozen DEF ItemsInv
<1> QED
  BY <1>1 DEF ItemsInv, ErrorsInv

\* Without a failed request, only a PVC that VMs share is refused.
THEOREM RefusalIsDue == Spec => []RefusedOnlyIfShared
  BY Invariance, InvImpliesRefusal, PTL

LEMMA InvImpliesSource == ItemsInv => VerdictHasSource
<1> SUFFICES ASSUME ItemsInv, NEW v \in VMs, Untouched(v), faults = 0
             PROVE  /\ vmRun[v].result # "error"
                    /\ vmRun[v].result = "uploaded" =>
                          /\ vmRun[v].source \in PVCsOf(v, collected[v])
                          /\ \A p \in PVCsOf(v, collected[v]) :
                                 policy[p] # "snapshot"
  BY DEF VerdictHasSource
<1>1. vmRun[v].result # "error"
  BY DEF ItemsInv, ErrorsInv
<1>2. vmRun[v].result = "uploaded" =>
          Verdict(v) /\ vmRun[v].source \in PVCsOf(v, collected[v])
  BY DEF ItemsInv, RunsInv, VMRunOK
<1>3. ASSUME Verdict(v), NEW p \in PVCsOf(v, collected[v])
      PROVE  policy[p] # "snapshot"
  BY <1>3 DEF Verdict, PVCsOf, PolicyOf, Policy
<1> QED
  BY <1>1, <1>2, <1>3

\* An eligible VM has a source PVC when the plugin looks for it, and none of
\* its PVCs is to be snapshot.
THEOREM SourceIsFound == Spec => []VerdictHasSource
  BY Invariance, InvImpliesSource, PTL
===============================================================================
