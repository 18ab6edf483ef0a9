SPECIFICATION Spec
CONSTANTS
    MaxJobs = 3
    MaxGates = 0
    k1 = k1
    g1 = g1
    JobId <- MCJobId
    GateId <- MCGateId
    Tasks = {"a", "b", "h"}
    Groups = {}
    DedupKeys = {k1}
    Null = Null
    Specs <- LifecycleSpecs
    GateSpecs <- NoGateSpecs
    DefaultMax = 1
    WorkerMax = {0}
    Env = {"sweep", "sweeper_lost", "lost", "retry", "wait", "cancel", "resubmit", "stop"}
    BatchLimit = 1
    MaxDeps = 0
    MaxAttempt = 2
    MaxSubmits = 2
INVARIANTS
    FollowUpExactlyOnce
    LedgerAgrees
PROPERTIES
    ImplementsLifecycle
    OnlyExpiryMovesALostLease
CHECK_DEADLOCK FALSE
