SPECIFICATION Spec
CONSTANTS
    Grace = 2
    NoExpiry = NoExpiry
    Lifetimes = {0, 1, 4}
    MaxTime = 7
    MaxReauths = 2
CHECK_DEADLOCK FALSE
INVARIANTS
    ClosedInTime
PROPERTIES
    EndsFairly
    EndTogether
