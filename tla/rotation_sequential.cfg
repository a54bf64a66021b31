SPECIFICATION Spec
CONSTANTS
    Worker = {w1, w2}
    Request = {r1}
    User = {1, 2}
    MaxFamilies = 2
    MaxTokens = 4
    Lifetime = 2
    SessionLife = 1
    MaxTime = 4
    Owner <- MCOwner
    HasRedis = TRUE
    MaxOutages = 0
    CanCrash = TRUE
INVARIANTS TypeOK OneLiveToken CondemnedFamilyDead
PROPERTIES RotationSpec
CHECK_DEADLOCK FALSE
