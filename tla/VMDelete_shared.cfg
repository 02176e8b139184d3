SPECIFICATION FairSpec
CONSTANTS
    VMs = {v1, v2}
    MaxBackups = 3
    MaxCheckpoints = 3
    MaxInterruptions = 2
INVARIANTS KeptBackupsAreRestorable NoStrayFiles SuccessLeavesNoTrace
PROPERTIES DeletionCompletes
CHECK_DEADLOCK FALSE
