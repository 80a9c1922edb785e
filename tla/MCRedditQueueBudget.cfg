SPECIFICATION ServeSpec
CONSTANTS
    Items = {i1, i2, i3, i4}
    Procs = {p1}
    NoItem = NoItem
    NoProc = NoProc
    Window = 4
    MaxPerMinute = 2
    Threshold = 2
    MaxQueueWait = 4
    BackoffRateLimit = 4
    BackoffBlocked = 6
    MaxRetryAfter = 9
    NoDelay = NoDelay
    RetryAfters = {NoDelay}
    DefaultDelays = {NoDelay, 1}
    Horizon = 6
SYMMETRY Symmetry
INVARIANT WithinBudget
CHECK_DEADLOCK FALSE
