SPECIFICATION TransformsSpec
CONSTANTS
    None = None
    MaxTime = 1
    Malformed = Malformed
    Given <- MCGiven
    Letters = {"<", "t", "/", ">"}
    Open <- MCOpen
    Close <- MCClose
    TextMax = 6
    ChunkMax = 3
    Heads = {"ls", "error"}
    Calls = {read, edit}
    KeepRecent = 1
    MinTokens = 3
    TurnsMax = 4
    Workers = {w1, w2}
    RouteLongMax = 10
    Sizes = {7, 8, 10, 12, 13, 30, 40, 70}
    TaskTexts <- MCTasks
    Signals <- MCSignals
    TalkMax = 5
    Lengths = {1, 9}
    ProxyLongMax = 4
    BlocksMax = 3
    Windows <- MCWindows
    Threads = {t1, t2}
    Ids = {a, b}
    Bodies = {x}
    Stub = Stub
    MaxAge = 0
SYMMETRY Symmetric
CHECK_DEADLOCK FALSE
INVARIANTS
    RequestServes
    CallerKept
    SplitExact
    RequestFaithful
    SizedRight
    TalkUnderstood
    StoreKept
PROPERTIES
    CompressionSafe
    ImplementsQueue
