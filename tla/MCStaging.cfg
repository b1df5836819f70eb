SPECIFICATION Spec
CONSTANTS
    Proc = {p1, p2}
    NoProc = NoProc
    NoDir = NoDir
    S3Dir = {s3}
    MountDir = {mnt}
    Budget = 2
    MaxCalls = 3
SYMMETRY Processes
CHECK_DEADLOCK FALSE
INVARIANT
    TypeOK
PROPERTIES
    NeverTornFromMount
    GoneOnlyIfRaced
    BudgetKept
