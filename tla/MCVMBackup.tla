------------------------------ MODULE MCVMBackup ------------------------------
(* Instances of VMBackup for TLC. *)
EXTENDS VMBackup, TLC

CONSTANTS v1, v2, p1, p2, c1, c2

OneVM   == {v1}
OnePVC  == {p1}
TwoVMs  == {v1, v2}
TwoPVCs == {p1, p2}
OneCall  == {c1}
TwoCalls == {c1, c2}

\* Execute calls are interchangeable.
CallSymmetry == Permutations(Calls)

\* A Backup that is recreated meets its predecessor's calls and objects, and one
\* kind of failed request, but neither third parties nor a crash nor a change of
\* the source PVC.
Undisturbed == /\ meddled = 0 /\ crashes = 0
               /\ Cardinality({k \in FaultKinds : faults[k] > 0}) <= 1
               /\ \A d \in uploads : d.pvc = p1
               /\ \A c \in Calls : calls[c].pc # "idle" => calls[c].pvc = p1

\* A first Backup meets all of these, and failed requests, but not all at once.
OneTroubleAtATime ==
    \/ Undisturbed
    \/ /\ epoch = 1 /\ meddled + crashes <= 2
       /\ meddled + crashes + Cardinality({k \in FaultKinds : faults[k] > 0}) <= 3

Faults(create, get, list, patch, hang) ==
    [k \in FaultKinds |-> CASE k = "create" -> create
                            [] k = "get"    -> get
                            [] k = "list"   -> list
                            [] k = "patch"  -> patch
                            [] k = "hang"   -> hang]

NoFaults     == Faults(0, 0, 0, 0, 0)
ExecFaults   == Faults(1, 1, 0, 0, 0)
CancelFaults == Faults(0, 0, 1, 1, 1)
===============================================================================
