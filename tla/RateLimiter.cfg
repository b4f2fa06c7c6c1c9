\* two concurrent callers, two requests per window of two units
CONSTANTS
    c1 = c1
    c2 = c2
    Callers = {c1, c2}
    maxRequests = 2
    windowMs = 2
    keyTtl = 3
    MaxTime = 5
    MaxChecks = 4
SPECIFICATION LimiterSpec
SYMMETRY Symmetry
INVARIANTS
    LimiterTypeOK
    SlidingWindow
    ResetInSound
CHECK_DEADLOCK FALSE
