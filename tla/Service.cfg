SPECIFICATION FairSpec
CONSTANTS
    q1 = q1
    q2 = q2
    f1 = f1
    Queries <- MCQueries
    Feedbacks <- MCFeedbacks
    Callers <- MCCallers
    Rows <- MCRows
    WarmUp = WarmUp
    Worker = Worker
    MaxTasks = 2
    Idle = Idle
    Gone = Gone
    None = None
    InitFaults = {"build"}
    Sentinel = Sentinel
    QueueSize = 2
    BatchSize = 2
    WriteFails = TRUE
    SlowWrites = TRUE
INVARIANTS
    GotIsReady
    TasksInOrder
    RowsKept
PROPERTIES
    TasksSettle
    ShutdownEnds
CHECK_DEADLOCK FALSE
