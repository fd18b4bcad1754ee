SPECIFICATION ServiceSpec
CONSTANTS
    c1 = c1
    c2 = c2
    s1 = s1
    Callers <- MCCallers
    Stoppers <- MCStoppers
    Uses <- MCUses
    RequestSlots = 2
    ResponseSlots = 2
    MaxTokens = 2
    MaxRequests = 2
    MaxStarts = 2
    Absent = Absent
INVARIANT ServiceSound
PROPERTY AnswersAreOwn
CHECK_DEADLOCK FALSE
