SPECIFICATION StoresSpec
CONSTANTS
    None = None
    MaxTime = 4
    c1 = c1
    c2 = c2
    c3 = c3
    loop = loop
    Calls <- ThreeCalls
    Writers <- OneWriter
    Restarts = 2
    named1 = named1
    named2 = named2
    nameless = nameless
    Turns <- MCTurns
    TaskOf <- MCTaskOf
    Nameless = {nameless}
    Pages = {tab}
    Windows <- MCWindows
    RecentLimit = 2
    PageMax = 1
    Polls = {p1, p2}
    Sessions = {2}
    DetailTTL = 1
    AskMax = 1
    Callers = {co1, co2}
    Endpoints = {e1, e2}
    Targets = {"local-long-128k", "local-turbo-256k"}
    SwitchWait = 1
    FailuresMax = 2
SYMMETRY Symmetric
CHECK_DEADLOCK FALSE
PROPERTIES
    LastGoodKept
