SPECIFICATION Spec
CONSTANTS
    t1 = t1
    t2 = t2
    None = None
    Threads <- TwoThreads
    OnlineTTL = 2
    OfflineTTL = 1
    CallMax = 1
    MaxTime = 4
PROPERTY BoundedStaleness
