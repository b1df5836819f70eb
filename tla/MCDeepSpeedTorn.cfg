SPECIFICATION Spec
CONSTANTS
    MaxNodes = 2
    MaxStep = 2
    MaxEpoch = 2
    KeepLast = 1
    KeepLocal = FALSE
INVARIANT
    ResumePointWhole
