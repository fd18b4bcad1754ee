SPECIFICATION Spec
CONSTANTS
    None = None
    s1 = s1
    s2 = s2
    c1 = c1
    c2 = c2
    w1 = w1
    w2 = w2
    Callers <- MCCallers
    Workers <- MCWorkers
    Driver = driver
    Sessions <- MCSessions
    MaxSessions = 2
    MaxBytes = 3
    RouterSessions = 1
    Sizes = {1, 2, 3}
    SpectralMargin = 10
    OverlayBudget = 2
    CoreBudget = 7
    CoreNorms = {6, 9}
    MaxExperts = 2
    MinExperts = 1
    MinimumAge = 1
    MaxDomains = 2
    Budgets <- MCBudgets
INVARIANTS SessionsAreSound OverlayIsOwn LearningIsSound
PROPERTIES AtRestIsStill GuardedIsWhole
SYMMETRY MCSymmetry
