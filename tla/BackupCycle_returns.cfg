SPECIFICATION FairSpec
CONSTANTS
    a = a  b = b  d1 = d1  d2 = d2
    Disks = {d1, d2}
    Names = {a, b}
    MaxBackups = 2
    MaxEdits = 1
    MaxWrites = 2
CHECK_DEADLOCK FALSE
INVARIANTS FreshBackupsLeftToOthers
PROPERTIES RestoreEndsBack MoverBackupBringsBack
