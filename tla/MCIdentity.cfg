SPECIFICATION Spec
CONSTANTS
    k1 = k1
    k2 = k2
    r1 = r1
    r2 = r2
    OtherKeys = {k3}
    Keys = {k1, k2}
    Tokens <- MCTokens
    Requests = {r1, r2}
    Nothing = Nothing
    TicksPerSecond = 2
    CacheTTL = 2
    FetchTimeout = 1
    Lifetime = 3
    Skew = 1
    Drifts <- MCDrifts
    MaxTime = 4
CHECK_DEADLOCK FALSE
PROPERTIES KeysAreFresh RefusedForACause TokenLivesAsSigned EveryRequestEnds
