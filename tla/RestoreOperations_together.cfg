SPECIFICATION MCSpec
CONSTANTS
    vm = vm  n1 = n1  n2 = n2  disk1 = disk1  disk2 = disk2  c1 = c1  c2 = c2
    PVCs <- ThreePVCs
    VMOf <- AllMoved
    NamespaceMapping <- AllOnto2
    Locations <- OneLocation
    Calls = {c1, c2}
    MaxRestores = 2
    MaxCreateAttempts = 2
    PatchSteps = 2
    TotalTimeout = 3
    CallTimeout = 2
    MaxFaults <- Faults
    MaxMeddling = 1
    MaxBackupChanges = 0
    MaxCrashes = 1
    MaxVMFaults = 1
CHECK_DEADLOCK FALSE
SYMMETRY CallSymmetry
CONSTRAINT InStory
INVARIANTS
    VMSuccessMeansOwnData FirstSuccessRestoredADisk VMCancelReachesFound
PROPERTIES VMCancelIsAimed KeepsToPVCRestore
