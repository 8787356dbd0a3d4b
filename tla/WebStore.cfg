SPECIFICATION FairSpec
CONSTANTS
    Edits = {e1, e2}
    Remote = {r1}
    Slots = {s1, s2, s3}
    NoSlot = NoSlot
    MaxFaults = 3
INVARIANTS
    TypeOK
    OneRefreshPerCycle
    OneSocket
    LiveMeansSocket
    EditsSurvive
PROPERTY
    EditsReachRelay
CHECK_DEADLOCK FALSE
