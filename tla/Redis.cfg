CONSTANTS
    Engine = {1, 2}
    Class = {1, 2}
    Unit = 2
    MaxCapacity = 2
    MaxRefill = 2
    MaxSkew = 1
    Limit = 2
    Config <- MCConfig
    Attempt = {1, 2}
    Home <- MCHome
    Setup <- MCSetup
SPECIFICATION FairServices
INVARIANTS
    RateBound
    NothingWasted
    FreshCheckpoint
PROPERTIES
    ConfigConverges
CHECK_DEADLOCK FALSE
