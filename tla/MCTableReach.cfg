SPECIFICATION TableReachSpec
CONSTANTS
    plain = plain
    tagged = tagged
    local = local
    complex = complex
    r1 = r1
    r2 = r2
    None = None
    Requests <- OneRequest
    Tasks <- EachKind
    KindOf <- EachKindOf
    Asks <- ClaudeAsks
    StickyTTL = 2
    RescueTurns = 3
    TurboEnabled = TRUE
    OnlineTTL = 2
    OfflineTTL = 1
    KeyTTL = 2
    ProxyTTL = 1
    Moving = {"network", "setting"}
    HealthMax = 1
    MaxTime = 5
INVARIANTS
    TypeOK
    LocalTagStaysLocal
    RescueWindow
PROPERTIES
    ImplementsLease
    ClaudeOnlyIfRecentlyUp
