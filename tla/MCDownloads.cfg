CONSTANTS
    Caller = {c1, c2}
    MaxVersion = 3
    MaxReads = 2
    Ranks = 2
    MaxSaved = 2
    Retries = 2
SYMMETRY Symmetric
SPECIFICATION Spec
INVARIANTS
    LoadsOneCheckpoint
    
PROPERTIES
    ReadsCurrent
    FoundIfThere
\* A job whose load is over does nothing more.
CHECK_DEADLOCK FALSE
