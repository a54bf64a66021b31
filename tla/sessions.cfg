SPECIFICATION Spec
CONSTANTS
    Worker = {w1, w2}
    Session = {s1, s2}
    User = {1}
    Owner <- MCOwner
    Ttl = 2
    MaxTime = 2
    MaxFaults = 1
INVARIANTS
    TypeOK LogoutIsFinal FreshSessionsPurged SessionsExpire
SYMMETRY Symmetric
CHECK_DEADLOCK FALSE
