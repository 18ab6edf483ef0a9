SPECIFICATION FairSpec
CONSTANTS
    Engine = {1, 2}
    Setups <- MCSetups
    Schedule = {1, 2}
    Horizon = 5
    Sub = {c1}
    BATCH = 2
    QUEUE_MAX = 2
    MaxId = 3
    MaxJobs = 4
    MAX_PAGE = 2
    Worker = {w1, w2}
INVARIANTS
    PoolsOutliveCalls
    RowsInOrder
    WalkCovers
    CapOvershoot
    AckIsDurable
PROPERTIES
    ShutdownCompletes
    NoSkippedWindow
    WindowsAdvance
    CatchesUp
    RowReaches
CHECK_DEADLOCK FALSE
