\* three starts, two attempts, eight errors; the server may end two streams
CONSTANTS
    a = a
    b = b
    c = c
    Subscriptions = {a, b, c}
    maxReconnectAttempts = 2
    MaxStarts = 3
    MaxErrors = 8
    MaxEnds = 2
SPECIFICATION FairSpec
INVARIANTS
    StreamTypeOK
    LoopsBounded
    ErrorsAreRetried
PROPERTY Recovers
CHECK_DEADLOCK FALSE
