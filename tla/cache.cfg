SPECIFICATION Spec
CONSTANTS
    Worker = {w1, w2}
    Request = {r1, r2}
    L1Ttl = 1
    L2Ttl = 2
    MaxTime = 4
    MaxVersion = 2
    MaxOutages = 1
    MaxLosses = 1
SYMMETRY Symmetric
INVARIANT TypeOK
INVARIANT StalenessBounded
INVARIANT SettledIsFresh
CHECK_DEADLOCK FALSE
