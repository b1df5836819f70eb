SPECIFICATION FairSpec
CONSTANTS
    NProc = 2
    MaxStep = 3
    MaxEpoch = 2
    MaxMissed = 2
    KeepLast = 1
    Resave = FALSE
INVARIANTS
    TypeOK
    ResumePointWhole
    RanksAgree
    RetentionBounded
PROPERTIES
    StoreSpec
    JobFinishes
