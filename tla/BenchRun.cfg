SPECIFICATION FairSpec
CONSTANTS
    Rounds = 4
    Every = 2
    Latencies = {1, 2}
    Timeout = 3
    Cols = {versa}
    Steps = 2
    NoStat = NoStat
    MaxRuns = 2
INVARIANTS
    TypeOK
    LagIsBounded
    MediansAreMedians
    SocketsReleased
    ColumnsSettle
PROPERTY
    RunEnds
CHECK_DEADLOCK FALSE
