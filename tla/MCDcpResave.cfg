SPECIFICATION Spec
CONSTANTS
    NProc = 2
    MaxStep = 3
    MaxEpoch = 2
    MaxMissed = 0
    KeepLast = 1
    Resave = TRUE
INVARIANT
    ResumePointWhole
