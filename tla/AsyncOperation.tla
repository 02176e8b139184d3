---------------------------- MODULE AsyncOperation ----------------------------
(* What a backup item action with asynchronous operations promises Velero: an  *)
(* operation stands for one task; its outcome is reported once, success only   *)
(* for a task that succeeded.  A task whose object is deleted from under the   *)
(* plugin is "lost": then nothing is promised about it.                        *)
CONSTANT Operations

VARIABLES task, report

Finished == {"succeeded", "failed"}

Init == /\ task = [o \in Operations |-> "absent"]
        /\ report = [o \in Operations |-> "none"]

\* An operation is handed over; its task may be under way, or, when it is
\* adopted from an earlier attempt, finished or lost already.
Start(o) ==
    /\ report[o] = "none"
    /\ report' = [report EXCEPT ![o] = "pending"]
    /\ \E t \in {"running", "lost"} \cup Finished :
           task' = [task EXCEPT ![o] = t]

TaskEnds(o) ==
    /\ task[o] = "running"
    /\ \E t \in Finished : task' = [task EXCEPT ![o] = t]
    /\ UNCHANGED report

TaskIsLost(o) ==
    /\ report[o] # "none"
    /\ task' = [task EXCEPT ![o] = "lost"]
    /\ UNCHANGED report

ReportSuccess(o) ==
    /\ report[o] = "pending" /\ task[o] \in {"succeeded", "lost"}
    /\ report' = [report EXCEPT ![o] = "success"]
    /\ UNCHANGED task

\* A timeout or an error may fail the operation at any time.
ReportFailure(o) ==
    /\ report[o] = "pending"
    /\ report' = [report EXCEPT ![o] = "failure"]
    /\ UNCHANGED task

Next == \E o \in Operations :
            \/ Start(o)
            \/ TaskEnds(o)
            \/ TaskIsLost(o)
            \/ ReportSuccess(o)
            \/ ReportFailure(o)

Spec == Init /\ [][Next]_<<task, report>>
===============================================================================
