SPECIFICATION FairSpec
CONSTANTS
    MaxTurns = 4
    MaxChars = 6
    Sizes = {1, 3}
    MaxMessages = 4
    MaxContinuations = 2
    MaxChunks = 1
    Asked = 5
    None = None
INVARIANTS TurnSound VerdictIsTrue
PROPERTIES TurnEnds ImplementsDialogue
CHECK_DEADLOCK FALSE
