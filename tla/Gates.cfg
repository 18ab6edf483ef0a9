SPECIFICATION FairSpec
CONSTANTS
    MaxJobs = 5
    MaxGates = 1
    k1 = k1
    g1 = g1
    JobId <- MCJobId
    GateId <- MCGateId
    Tasks = {"a", "b", "h"}
    Groups = {}
    DedupKeys = {}
    Null = Null
    Specs <- NoSpecs
    GateSpecs <- Barriers
    DefaultMax = 1
    WorkerMax = {0}
    Env = {"sweep", "skip", "lost"}
    BatchLimit = 1
    MaxDeps = 0
    MaxAttempt = 1
    MaxSubmits = 1
INVARIANTS
    GateCountsChildren
    GateBranch
PROPERTIES
    EveryGateFires
