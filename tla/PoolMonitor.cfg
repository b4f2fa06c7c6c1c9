\* two readers at a time, two changes of the reserves, one failed call, one restart
CONSTANTS
    r1 = r1
    r2 = r2
    Readers = {r1, r2}
    None = None
    Minimal = Minimal
    MaxVersion = 2
    MaxFaults = 1
    MaxRestarts = 1
SPECIFICATION FairSpec
INVARIANTS
    TypeOK
    HeldIsReported
PROPERTY Settles
CHECK_DEADLOCK FALSE
