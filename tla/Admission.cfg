CONSTANTS
    Keys = {a, b}
    Suffixes = {s}
    SuffixOf <- Colliding
    Nonces = {n1, n2}
    Conns = {k1, k2}
    NoKey = NoKey
    NoProof = NoProof
    Lifetime = 1
    Skew = 1
    Capacity = 1
    MaxClock = 3
    MaxProofs = 2
SPECIFICATION Spec
SYMMETRY Interchangeable
INVARIANTS TypeOK SingleUse OneKeyPerSuffix
CHECK_DEADLOCK FALSE
