\* three trades of a token; 2 of 3 ticks are the window
CONSTANTS
    t1 = t1
    t2 = t2
    t3 = t3
    Trades = {t1, t2, t3}
    Window = 2
    maxTradeAge = 3
    MaxCleanups = 2
    MaxFaults = 1
SPECIFICATION FairSpec
INVARIANTS
    TypeOK
    TradesStayCounted
PROPERTY OldTradesLeave
