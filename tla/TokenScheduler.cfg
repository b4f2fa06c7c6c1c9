\* two overlapping ticks, one token in each; a fault, perhaps a crash
SPECIFICATION Spec
CONSTANTS
    t1 = t1  t2 = t2  k1 = k1  k2 = k2
    Tokens = {t1, t2}
    Ticks = {k1, k2}
    PriceInterval <- MCPriceInterval
    HolderInterval <- MCHolderInterval
    Horizon = 2
    FirstTier <- AllNew
    LastTier = "ACTIVE"
    batchSize = 1
    MaxTierUpdates = 1
    MaxStarts = 1
    MaxAdds = 3
    MaxFaults = 1
SYMMETRY Symmetric
INVARIANTS TypeOK ExtraJobsBounded
PROPERTIES StampsFollowJobs
