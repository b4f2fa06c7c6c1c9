\* one tick at a time with one place for a holder scan, and two tokens that
\* compete for it; a fault, and two lives of the process
SPECIFICATION FairSpec
CONSTANTS
    t1 = t1  t2 = t2  k1 = k1  k2 = k2
    Tokens = {t1, t2}
    Ticks = {k1}
    PriceInterval <- AlwaysDue
    HolderInterval <- AlwaysDue
    Horizon = 0
    FirstTier <- OneNew
    LastTier = "ACTIVE"
    batchSize = 2
    MaxTierUpdates = 1
    MaxStarts = 2
    MaxAdds = 2
    MaxFaults = 1
PROPERTIES HoldersUpdated
