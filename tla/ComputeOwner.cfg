SPECIFICATION FairSpec
CONSTANTS
    Threads = {t1, t2, t3}
    Mixes <- AllMixes
    None = None
INVARIANTS OwnerSound ValidationAlone
PROPERTY AnsweredApart
CHECK_DEADLOCK FALSE
