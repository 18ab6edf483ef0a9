SPECIFICATION ClaimSpec
CONSTANTS
    Claimer = {e1, e2}
    Plain = {p1}
    Ranked = {}
    Capped = {c1, c2, c3}
    Cap = 2
    MaxClaim = 2
INVARIANTS
    CeilingAcrossEngines
    CounterNeverShort
SYMMETRY Symmetry
