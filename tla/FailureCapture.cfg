SPECIFICATION FairSpec
CONSTANTS
    c1 = c1
    c2 = c2
    f1 = f1
    f2 = f2
    Failures = {f1, f2}
    Controllers = {c1, c2}
    Writers = {w1, w2}
    Capacity = 1
    MaxFailureRecords = 1
    MaxTime = 1
    Uses <- MCUses
    Unset = Unset
INVARIANT CaptureSound
PROPERTIES DrainedIfKnown AcceptedIsSettled
CHECK_DEADLOCK FALSE
