SPECIFICATION EngineSpec
CONSTANTS
    MaxJobs = 3
    MaxGates = 0
    k1 = k1
    g1 = g1
    JobId <- MCJobId
    GateId <- MCGateId
    Tasks = {"a"}
    Groups = {g1}
    DedupKeys = {}
    Null = Null
    Specs <- CappedSpecs
    GateSpecs <- NoGateSpecs
    DefaultMax = 1
    WorkerMax = {0}
    Env = {"sweep", "lost", "slow", "retry", "heartbeat"}
    BatchLimit = 2
    MaxDeps = 0
    MaxAttempt = 2
    MaxSubmits = 3
INVARIANTS
    GroupCeiling
    CounterExact
PROPERTIES
    LostLeaseRecovered
