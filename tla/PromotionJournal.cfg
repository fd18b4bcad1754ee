SPECIFICATION Spec
CONSTANTS
    Files = {f1, f2}
    Versions = {v1, v2}
    Foreign = {edit}
    MaxRecords = 2
    Environments <- AllEnvironments
    MaxPromotions = 3
    MaxCrashes = 1
    None = None
INVARIANT JournalSound
PROPERTIES PromotedIsKeptIfPrompt UnknownNeverOverwritten ImplementsStore
CHECK_DEADLOCK FALSE
