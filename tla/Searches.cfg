SPECIFICATION MCSpec
CONSTANTS
    Width = 2
    MaxDepth = 4
    MaxNodes = 12
    Simulations = 8
    Capacity = 4
    Workflows <- MCWorkflows
    Budget <- MCBudget
    TopK = 1
    Scores <- MCScores
    Largest = 3
INVARIANTS TreeIsSound ArchiveIsSound
PROPERTY SearchesComplete
CHECK_DEADLOCK FALSE
