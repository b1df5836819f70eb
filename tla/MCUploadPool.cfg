SPECIFICATION FairSpec
CONSTANTS
    t1 = t1
    t2 = t2
    a = a
    b = b
    NoPath = NoPath
    Thread <- MCThread
    Path <- MCPath
    Dirs <- MCDirs
    MaxJobs = 2
    MaxWrites = 2
    Attempts = 2
INVARIANTS
    TypeOK
    Accounted
    ReturnMeansFinishedAlone
    NoContentLostIfLeftAlone
    CleanExitPublishesAll
PROPERTIES
    MirrorSpec
    EveryUploadSettles
    EveryWaitEnds
