SPECIFICATION OverlapSpec
CONSTANTS
    Client = {c1, c2}
    Key = {k1, k2}
    MaxNonce = 1
    OverflowChecks = TRUE
    None = None
INVARIANTS
    SuccessMeansInstalled
