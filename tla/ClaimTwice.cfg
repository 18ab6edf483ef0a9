SPECIFICATION ClaimSpec
CONSTANTS
    Claimer = {e1, e2}
    Plain = {}
    Ranked = {r1}
    Capped = {}
    Cap = 2
    MaxClaim = 2
PROPERTIES
    ClaimedFromQueue
CHECK_DEADLOCK FALSE
