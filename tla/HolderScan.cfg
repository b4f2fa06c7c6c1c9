SPECIFICATION Spec
CONSTANTS
    w1 = w1
    w2 = w2
    w3 = w3
    w4 = w4
    w5 = w5
    c1 = c1
    c2 = c2
    Wallets = {w1, w2, w3, w4, w5}
    Callers = {c1, c2}
    PageSize = 2
    MaxPages = 2
    HoldersTtl = 1
    AnalysisTtl = 2
    MaxLatency = 1
    None = None
    Scenarios <- MCScenarios
    MaxFaults = 2
SYMMETRY MCSymmetry
INVARIANTS
    MissesBounded
    RepeatsBounded
    AgeBounded
CHECK_DEADLOCK FALSE
