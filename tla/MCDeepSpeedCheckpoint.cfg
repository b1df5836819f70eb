SPECIFICATION FairSpec
CONSTANTS
    MaxNodes = 2
    MaxStep = 2
    MaxEpoch = 2
    KeepLast = 1
    KeepLocal = FALSE
INVARIANTS
    TypeOK
    ResumePointWholeOnOneNode
    ResumePointWholeUnlessCut
    NodesAgree
    RetentionBounded
PROPERTIES
    LocalUntilUploaded
    JobEnds
