SPECIFICATION MCSpec
CONSTANTS
    MaxTime = 2
    Intents = {"subnet", "nat"}
    Operations = 2
    MaxAttempts = 2
    Validity = 1
    MaxEvents = 2
    Buckets = {"audit", "control"}
    Rendered <- MCRendered
    Foreign = {"foreign"}
    BucketOf <- MCBucketOf
    Absent = Absent
    Before = Before
    MaxCalls = 3
    MaxMishaps = 2
    Requests <- MCRequests
    MaxTimeout = 2
    MaxOutput = 2
    PipeSize = 1
    WaitDelay = 1
    MaxWritten = 2
    MaxLag = 1
INVARIANTS
    ReportsHold
    UndoesOnlyOwn
    StepOutcomesHold
    OutputIsWhole
    KillIsReported
    RunEndsInTime
PROPERTIES
    OthersSpared
CHECK_DEADLOCK FALSE
