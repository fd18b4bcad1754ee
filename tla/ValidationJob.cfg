SPECIFICATION Spec
CONSTANTS
    Uses <- MCUses
    Phases = 2
    QueueSlots = 4
    MaxJobs = 2
    None = None
INVARIANT ChildrenAreOwned
PROPERTIES EvidenceDecides JobsEnd
CHECK_DEADLOCK FALSE
