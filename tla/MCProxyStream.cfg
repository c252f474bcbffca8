SPECIFICATION Spec
CONSTANTS
    None = None
    MaxTime = 3
    Requests = {r1, r2}
    Asks <- MCAsks
    Configs <- MCConfigs
    Tokens = {t1, t2}
    Retries = 2
    BaseDelay = 1
    MaxDelay = 1
    TTL = 2
    ReadMax = 1
    MaxChanges = 1
SYMMETRY Symmetric
CHECK_DEADLOCK FALSE
INVARIANT StreamsAreProxied
