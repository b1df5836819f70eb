SPECIFICATION FairSpec
CONSTANTS
    MaxLines = 3
    MaxCrashes = 2
CHECK_DEADLOCK FALSE
INVARIANTS
    TypeOK
    SentIsPublished
    CloseUploadsAll
PROPERTIES
    NeverBack
    EveryLineArrives
