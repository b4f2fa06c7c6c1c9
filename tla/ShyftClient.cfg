\* two concurrent callers, two calls of two attempts, Redis may fail
CONSTANTS
    c1 = c1
    c2 = c2
    Callers = {c1, c2}
    maxRequests = 1
    windowMs = 2
    keyTtl = 2
    MaxTime = 40
    MaxChecks = 8
    maxRetries = 2
    retryDelayMs = 1
    sleepMargin = 1
    MaxCalls = 2
    RedisFails = TRUE
SPECIFICATION FairSpec
PROPERTIES
    DenialHonoured
    EveryOperationPaid
    CallsSettle
    LimiterSpec
CHECK_DEADLOCK FALSE
