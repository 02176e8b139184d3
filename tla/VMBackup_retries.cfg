SPECIFICATION Spec
CONSTANTS
    v1 = v1  v2 = v2  p1 = p1  p2 = p2  c1 = c1  c2 = c2
    VMs <- OneVM
    PVCs <- TwoPVCs
    Calls <- TwoCalls
    MaxBackups = 2
    MaxCreateAttempts = 3
    PatchSteps = 3
    TotalTimeout = 3
    CallTimeout = 2
    MaxFaults <- ExecFaults
    MaxMeddling = 2
    MaxCrashes = 1
    EmptyFailure = FALSE
CHECK_DEADLOCK FALSE
SYMMETRY CallSymmetry
CONSTRAINT OneTroubleAtATime
INVARIANTS TypeOK OneUploadPerItem RegisteredOperationTracksItsUpload
PROPERTIES KeepsPromise
