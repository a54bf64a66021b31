SPECIFICATION PasswordSpec
CONSTANTS
    Worker = {w1, w2}
    Threshold = 2
    LongThreshold = 4
    Window = 2
    Short = 3
    Long = 6
    MaxTime = 4
    MaxGuesses = 8
    MaxOutages = 1
    MaxCrashes = 1
    solo = solo
    one = one
    MaxLinks = 2
    MaxSessions = 2
    MaxKept = 1
    LoginSlot = {solo}
    ForgotSlot = {solo}
    ResetSlot = {one}
INVARIANTS
    TypeOK CounterStopsAtLock LockNeedsBurst WrongGuessesBounded
    ResetEndsOldLogins
CONSTRAINT OnePurge
SYMMETRY Workers
CHECK_DEADLOCK FALSE
