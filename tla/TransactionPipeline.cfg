\* a memory of one, cleaned up on every second insertion
CONSTANTS
    create = create
    swap = swap
    failed = failed
    m = m
    Signatures = {create, swap, failed}
    Mints = {m}
    NoSignature = NoSignature
    Tx <- MCTx
    MaxProcessed = 1
    CleanupEvery = 2
    MaxEmissions = 4
SPECIFICATION Spec
INVARIANTS
    TypeOK
    OncePerMemory
    RowHasTrade
    RecentRemembered
    MemoryBounded
PROPERTY KeepsLedger
CHECK_DEADLOCK FALSE
