SPECIFICATION Spec
CONSTANTS
    q1 = q1
    q2 = q2
    f1 = f1
    Queries <- MCQueries
    Feedbacks <- MCFeedbacks
    Callers <- MCCallers
    Rows <- MCRows
    WarmUp = WarmUp
    Worker = Worker
    MaxTasks = 1
    Idle = Idle
    Gone = Gone
    None = None
    InitFaults = {"initialise"}
    Sentinel = Sentinel
    QueueSize = 1
    BatchSize = 1
    WriteFails = FALSE
    SlowWrites = FALSE
INVARIANT
    GotIsReady
CHECK_DEADLOCK FALSE
