SPECIFICATION Spec
CONSTANTS
    MaxJobs = 4
    MaxGates = 0
    k1 = k1
    g1 = g1
    JobId <- MCJobId
    GateId <- MCGateId
    Tasks = {"a"}
    Groups = {}
    DedupKeys = {}
    Null = Null
    Specs <- PlainSpecs
    GateSpecs <- NoGateSpecs
    DefaultMax = 1
    WorkerMax = {0}
    Env = {"cancel_tree", "defer"}
    BatchLimit = 1
    MaxDeps = 2
    MaxAttempt = 1
    MaxSubmits = 4
INVARIANTS
    DependencySafety
    NoStrandedDependent
    RemainingDepsExact
CHECK_DEADLOCK FALSE
