SPECIFICATION MaintenanceSpec
CONSTANTS
    None = None
    MaxTime = 5
    Conns = {c1, c2, c3}
    Added <- MCAdded
    ModelIds <- MCModelIds
    Proxies = {p1, p2}
    Day = 2
    StaleAt = 3
    Files = {"api", "quotas"}
    Dirs = {"", "webhookd"}
    Answers <- MCAnswers
    TurnLimit = 3
    Truth = 2
    ReportsMax = 3
    Layers <- MCLayers
    AttemptsMax = 5
    StallWindow = 4
    Backoffs <- MCBackoffs
    Replies <- MCReplies
    AttemptsAsked = 2
    InvocationsMax = 2
    ClockMax = 2
    Arms = {"claude-only", "cursor-hybrid"}
    Asks <- MCAsks
    Ran <- MCRan
    Bills <- MCBills
    PageSize = 1
    MaxPages = 2
    PullsMax = 2
    GgufFiles = {"q3.gguf", "q4.gguf", "q4-imat.gguf"}
    HfAsks <- MCHfAsks
    Size = 2
    HfStallWindow = 2
    DownloadTimeout = 4
    HfRunsMax = 2
    AnswerMax = 5
    Worktrees = {"a"}
    Syncs = {s1, s2}
    Preferences = {"dark", "light"}
    Keys = {"k1", "k2"}
    RunsMax = 2
INVARIANTS
    BilledIsCharged
CHECK_DEADLOCK FALSE
