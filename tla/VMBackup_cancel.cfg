SPECIFICATION FairSpec
CONSTANTS
    v1 = v1  v2 = v2  p1 = p1  p2 = p2  c1 = c1  c2 = c2
    VMs <- TwoVMs
    PVCs <- OnePVC
    Calls <- OneCall
    MaxBackups = 1
    MaxCreateAttempts = 3
    PatchSteps = 3
    TotalTimeout = 3
    CallTimeout = 2
    MaxFaults <- CancelFaults
    MaxMeddling = 0
    MaxCrashes = 0
    EmptyFailure = FALSE
CHECK_DEADLOCK FALSE
PROPERTIES CancelHitsOwnUpload CancelStopsUpload
