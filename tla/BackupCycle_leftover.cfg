SPECIFICATION Spec
CONSTANTS
    a = a  b = b  d1 = d1  d2 = d2
    Disks = {d1}
    Names = {a, b}
    MaxBackups = 2
    MaxEdits = 1
    MaxWrites = 1
CHECK_DEADLOCK FALSE
INVARIANTS BackupsLeftToOthers
