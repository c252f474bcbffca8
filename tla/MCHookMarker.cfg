SPECIFICATION HookSpec
CONSTANTS
    plain = plain
    tagged = tagged
    local = local
    r1 = r1
    r2 = r2
    None = None
    Requests <- OneRequest
    Tasks <- TwoTasks
    KindOf <- TwoKinds
    Asks <- PlainAsks
    StickyTTL = 1
    RescueTurns = 1
    TurboEnabled = FALSE
    OnlineTTL = 2
    OfflineTTL = 1
    KeyTTL = 2
    ProxyTTL = 1
    Moving = {"network"}
    HealthMax = 1
    MaxTime = 2
INVARIANT MarkerMeansFallback
