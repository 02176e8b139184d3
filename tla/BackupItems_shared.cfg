SPECIFICATION Spec
CONSTANTS
    n1 = n1  n2 = n2  v1 = v1  v2 = v2  p1 = p1  p2 = p2
    VMs <- SomeVMs
    PVCs <- SomePVCs
    VolumeLists <- Lists
    InitialVMs <- SomeMachines
    MaxChanges = 1
    MaxFaults = 1
CHECK_DEADLOCK FALSE
CONSTRAINT InSetting
INVARIANTS
    Agreement StampIsExclusive RefusedOnlyIfShared VerdictHasSource
