SPECIFICATION Spec
CONSTANTS
    t1 = t1
    t2 = t2
    t3 = t3
    Threads <- MCThreads
    QueueCapacity = 3
    MaxOutstanding = 2
    MaxRequests = 5
    MaxStarts = 2
    None = None
SYMMETRY MCSymmetry
INVARIANT SlotsAreSound
PROPERTY PauseHolds
CHECK_DEADLOCK FALSE
