SPECIFICATION Spec
CONSTANTS
    GroupSizes = {1, 2, 3, 5}
    Intervals <- Scheduled
INVARIANTS
    TypeOK
    NoOverRotation
    RoundRobin
CHECK_DEADLOCK FALSE
