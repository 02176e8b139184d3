SPECIFICATION MCSpec
CONSTANTS
    d1 = d1  d2 = d2  d3 = d3
    OwnDisks = {d1, d2}
    OtherDisks = {d3}
    Grace = 2
    PatchSteps = 2
    TotalTimeout = 3
    CallTimeout = 2
    MaxFaults <- AllFaults
    MaxDeletes = 1
    MaxRestarts = 2
    MaxRestores = 2
    EarlyDisks = {TRUE, FALSE}
CHECK_DEADLOCK FALSE
INVARIANTS NoStartBeforeData ReleaseRestoresRunState SuccessMeansAllData
PROPERTIES GraceIsGranted CancelIsExact OperationSettles
