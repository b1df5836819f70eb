SPECIFICATION Spec
CONSTANTS
    t1 = t1
    t2 = t2
    a = a
    b = b
    NoPath = NoPath
    Thread = {t1}
    Path = {a}
    Dirs = {}
    MaxJobs = 2
    MaxWrites = 2
    Attempts = 2
INVARIANT
    ReturnMeansFinished
