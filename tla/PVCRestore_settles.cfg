SPECIFICATION MCFairSpec
CONSTANTS
    vm = vm  n1 = n1  n2 = n2  n3 = n3  disk = disk  c1 = c1  c2 = c2
    PVCs <- OnePVC
    VMOf <- AllMoved
    NamespaceMapping <- Identity
    Locations <- OneLocation
    Calls = {c1, c2}
    MaxRestores = 1
    MaxCreateAttempts = 1
    PatchSteps = 3
    TotalTimeout = 3
    CallTimeout = 2
    MaxFaults <- CancelFaults
    MaxMeddling = 2
    MaxBackupChanges = 0
    MaxCrashes = 1
CHECK_DEADLOCK FALSE
PROPERTIES OperationSettles
