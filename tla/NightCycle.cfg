SPECIFICATION FairSpec
CONSTANTS
    Requests = {r1}
    Consolidations = {t1}
    Harness = {h1, h2}
    Workflow = {w1}
    Startup = {s1}
    MaxProposals = 2
    Faults <- AllFaults
    None = None
INVARIANTS NightSound HandedBackIfRecovered
PROPERTIES ImplementsRhythm RollbackRestoresIfRecovered NightEnds
