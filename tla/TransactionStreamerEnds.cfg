\* the server may end a stream without an error
CONSTANTS
    a = a
    b = b
    c = c
    Subscriptions = {a, b, c}
    maxReconnectAttempts = 2
    MaxStarts = 3
    MaxErrors = 1
    MaxEnds = 1
SPECIFICATION StreamSpec
INVARIANT RunningIsServed
CHECK_DEADLOCK FALSE
