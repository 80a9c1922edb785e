SPECIFICATION ServeSpec
CONSTANTS
    Items = {i1, i2, i3}
    Procs = {p1}
    NoItem = NoItem
    NoProc = NoProc
    Window = 4
    MaxPerMinute = 2
    Threshold = 1
    MaxQueueWait = 4
    BackoffRateLimit = 4
    BackoffBlocked = 6
    MaxRetryAfter = 9
    NoDelay = NoDelay
    RetryAfters = {NoDelay}
    DefaultDelays = {NoDelay}
    Horizon = 6
SYMMETRY Symmetry
PROPERTY BackoffHolds
CHECK_DEADLOCK FALSE
