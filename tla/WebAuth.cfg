SPECIFICATION FairSpec
CONSTANTS
    NoToken = NoToken
    NoTab = NoTab
    Tabs = {t1, t2}
    MaxCalls = 4
    MaxFaults = 1
CHECK_DEADLOCK FALSE
INVARIANTS
    OneCallPerTab
    StoredTokenLive
PROPERTY
    LoadingEnds
