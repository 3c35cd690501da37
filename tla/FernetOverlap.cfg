SPECIFICATION Spec
CONSTANTS
    N = 3
    TokenLife = 3
    Interval = 2
    PushTime = 1
    MaxTime = 8
    MaxDeploys = 1
    MaxLost = 0
    Overlap = TRUE
INVARIANTS
    Synchronised
CHECK_DEADLOCK FALSE
