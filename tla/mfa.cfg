SPECIFICATION Spec
CONSTANTS
    Worker = {w1, w2}
    Request = {r1, r2}
    Code = {b1}
    Challenge = {c1, c2}
    Life = 1
    Attempts = 2
    MaxTime = 3
    MaxWrong = 6
    MaxOutages = 1
    CanCrash = TRUE
CONSTRAINT Scenario
SYMMETRY Symmetric
INVARIANTS TypeOK GuessesBounded CompletedInTime CodeUsedOnceApart
CHECK_DEADLOCK FALSE
