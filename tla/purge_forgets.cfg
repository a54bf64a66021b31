SPECIFICATION Spec
CONSTANTS
    Worker = {w1}
    Session = {s1, s2}
    User = {1}
    Owner <- MCOwner
    Ttl = 2
    MaxTime = 4
    MaxFaults = 0
INVARIANTS
    AllSessionsPurged
SYMMETRY Symmetric
CHECK_DEADLOCK FALSE
