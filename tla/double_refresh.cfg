SPECIFICATION Spec
CONSTANTS
    Worker = {w1, w2}
    Request = {r1, r2}
    User = {1, 2}
    MaxFamilies = 1
    MaxTokens = 4
    Lifetime = 2
    SessionLife = 1
    MaxTime = 4
    Owner <- MCOwner
    HasRedis = TRUE
    MaxOutages = 0
    CanCrash = FALSE
INVARIANTS OneLiveToken
CHECK_DEADLOCK FALSE
