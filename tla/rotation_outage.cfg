SPECIFICATION Spec
CONSTANTS
    Worker = {w1, w2}
    Request = {r1}
    User = {1, 2}
    MaxFamilies = 1
    MaxTokens = 5
    Lifetime = 2
    SessionLife = 1
    MaxTime = 1
    Owner <- MCOwner
    HasRedis = TRUE
    MaxOutages = 1
    CanCrash = FALSE
INVARIANTS ExchangesBoundedByOutages
CHECK_DEADLOCK FALSE
