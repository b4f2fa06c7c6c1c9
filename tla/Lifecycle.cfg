SPECIFICATION Spec
CONSTANTS
    j1 = j1
    Jobs = {j1}
    Workloads <- MCWorkloads
    Signals <- MCSignals
    MaxSignals = 2
    Batch = 2
    Attempts = 2
    MaxStalled = 1
    MaxFaults = 2
INVARIANTS
    RowsBounded
    FailedLeavesNothing
    StoresOutliveJobs
    GracefulExit
PROPERTIES
    ShutdownEnds
    JobsSettle
CHECK_DEADLOCK FALSE
