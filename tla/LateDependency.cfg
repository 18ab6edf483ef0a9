SPECIFICATION FairSpec
CONSTANTS
    MaxJobs = 2
    MaxGates = 0
    k1 = k1
    g1 = g1
    JobId <- MCJobId
    GateId <- MCGateId
    Tasks = {"a", "b", "h"}
    Groups = {}
    DedupKeys = {}
    Null = Null
    Specs <- PlainSpecs
    GateSpecs <- NoGateSpecs
    DefaultMax = 1
    WorkerMax = {0}
    Env = {"late"}
    BatchLimit = 1
    MaxDeps = 1
    MaxAttempt = 1
    MaxSubmits = 2
PROPERTIES
    EveryJobSettles
CHECK_DEADLOCK FALSE
