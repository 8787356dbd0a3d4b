SPECIFICATION Spec
CONSTANTS
    k1 = k1
    k2 = k2
    a = a
    b = b
    NoKid = NoKid
    NoKey = NoKey
    v1 = v1
    v2 = v2
    Validations = {v1, v2}
    Kids = {NoKid, k1, k2}
    Keys = {a, b}
    KeySets <- AnyKeys
    Tokens <- AnyTokens
    CacheTTL = 1
    MaxFlight = 1
    Garbles = FALSE
    MaxTime = 3
    MaxRotations = 1
    MaxCalls = 2
SYMMETRY Calls
CHECK_DEADLOCK FALSE
INVARIANTS
    WithdrawnKeysExpire
    SettledTokensPass
