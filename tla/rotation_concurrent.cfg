SPECIFICATION FairSpec
CONSTANTS
    Worker = {w1, w2}
    Request = {r1, r2}
    User = {1, 2}
    MaxFamilies = 2
    MaxTokens = 3
    Lifetime = 2
    SessionLife = 1
    MaxTime = 3
    Owner <- MCOwner
    HasRedis = TRUE
    MaxOutages = 0
    CanCrash = FALSE
INVARIANTS ReplaysCaught
PROPERTIES CascadeReachesSession
CHECK_DEADLOCK FALSE
