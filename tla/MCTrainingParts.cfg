CONSTANTS
    MaxKey = 3
    MaxWorld = 2
    MaxWorkers = 2
    MaxBuffer = 3
    ListTries = 2
    Model = {m1, m2}
    MaxWeights = 2
    MaxGen = 1
    MaxPending = 2
    MaxSteps = 3
    MaxEvents = 8
    File = {code, sub, out}
    Excluded = {out}
    Submodule = {sub}
    MaxShown = 1
    MaxEdits = 2
    MaxLines = 4
    MaxSize = 2
    ChunkBytes = 2
    MaxStarts = 3
    MaxRanks = 3
SPECIFICATION Spec
INVARIANTS
    EveryObjectOnce
    AveragesAndGivesBack
    StepsKept
    LoadsWhatWasSaved
PROPERTIES
    DeletesConfirmed
    ChunksOnS3
\* Every part comes to an end of its bounds.
CHECK_DEADLOCK FALSE
