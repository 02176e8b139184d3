SPECIFICATION MCSpec
CONSTANTS
    vm = vm  n1 = n1  n2 = n2  n3 = n3  disk = disk  c1 = c1  c2 = c2
    PVCs <- ThreePVCs
    VMOf <- TwoMoved
    NamespaceMapping <- AllOnto2
    Locations <- TwoLocations
    Calls = {c1, c2}
    MaxRestores = 2
    MaxCreateAttempts = 3
    PatchSteps = 3
    TotalTimeout = 3
    CallTimeout = 2
    MaxFaults <- AllFaults
    MaxMeddling = 2
    MaxBackupChanges = 2
    MaxCrashes = 1
CHECK_DEADLOCK FALSE
SYMMETRY CallSymmetry
CONSTRAINT InStory
INVARIANTS
    RegisteredOperationTracksItsDownload StrippedPVCHasOperation
    SuccessMeansOwnData RebindIsNotPreempted OneLocationPerRestore
PROPERTIES KeepsPromise CancelIsPersistent
