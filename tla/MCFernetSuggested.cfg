SPECIFICATION Spec
CONSTANTS
    GroupSizes = {1, 2, 3}
    Intervals <- Suggested
INVARIANT
    NoOverRotation
CHECK_DEADLOCK FALSE
