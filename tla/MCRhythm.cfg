SPECIFICATION Spec
CONSTANTS
    Requests = {r1, r2, r3}
    Tasks = {t1, t2, t3}
    Callers = {c1, c2}
INVARIANTS
    RhythmInv
PROPERTY
    ImplementsDayNight
