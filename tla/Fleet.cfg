CONSTANTS
    Worker = {1, 2}
    Slots <- MCSlots
    Tags <- MCTags
    Job = {1, 2}
    RunsOn <- MCRunsOn
    Priority <- MCPriority
    GroupKey <- MCGroupKey
    Labelled = {1}
    GroupCap = 0
    MaxAttempt = 2
    MaxConn = 2
    Setup <- MCSetup
SPECIFICATION FairSpec
INVARIANTS
    NoOverAssignment
    PlacedOnce
    FairOrder
    EvenSpread
PROPERTIES
    NoLostAssignment
    ConnectedIsListed
CHECK_DEADLOCK FALSE
