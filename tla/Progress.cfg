SPECIFICATION FairSpec
CONSTANTS
    MaxJobs = 3
    MaxGates = 0
    k1 = k1
    g1 = g1
    JobId <- MCJobId
    GateId <- MCGateId
    Tasks = {"a"}
    Groups = {g1}
    DedupKeys = {}
    Null = Null
    Specs <- ProgressSpecs
    GateSpecs <- NoGateSpecs
    DefaultMax = 1
    WorkerMax = {0}
    Env = {"sweep", "lost", "wait"}
    BatchLimit = 1
    MaxDeps = 1
    MaxAttempt = 2
    MaxSubmits = 3
INVARIANTS
    TypeOK
PROPERTIES
    EveryJobSettles
    CounterHeals
