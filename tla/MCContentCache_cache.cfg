CONSTANTS
    b1 = b1
    b2 = b2
    b3 = b3
    t1 = t1
    t2 = t2
    Blocks = {b1, b2, b3}
    Size <- MCSize
    Cap = 1
    Threads = {t1, t2}
    NoThread = NoThread
    FetchOnMiss = TRUE
    MaxClock = 1
    Faults = {"write", "remove"}
SYMMETRY Symmetry
SPECIFICATION SpecCache
INVARIANT FilesAreIndexed
INVARIANT DiskBounded
 
