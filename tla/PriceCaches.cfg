\* short behaviours with failures, and a chain of three caches on a clock that
\* runs past the bound of each
SPECIFICATION Spec
CONSTANTS
    c1 = c1
    c2 = c2
    Callers = {c1, c2}
    Rosters <- MCRosters
    Ttl <- MCTtl
    Lasting = {"solUsd", "full", "fallback"}
    MaxLatency = 1
    None = None
    MaxTime = 9
    MaxCalls = 5
    MaxFaults = 2
INVARIANTS
    StoredBounded
    AnswersBounded
    NobodyIsStuck
PROPERTIES
    FailuresAreContained
CHECK_DEADLOCK FALSE
