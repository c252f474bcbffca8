SPECIFICATION FairHookSpec
CONSTANTS
    plain = plain
    tagged = tagged
    local = local
    r1 = r1
    r2 = r2
    None = None
    Requests <- TwoRequests
    Tasks <- OneTask
    KindOf <- OneKind
    Asks <- KeyAsks
    StickyTTL = 1
    RescueTurns = 1
    TurboEnabled = FALSE
    OnlineTTL = 2
    OfflineTTL = 1
    KeyTTL = 2
    ProxyTTL = 2
    Moving = {"key"}
    HealthMax = 1
    MaxTime = 3
PROPERTY EveryTurnDecided
PROPERTY EscalatesOnRecentKey
