SPECIFICATION Spec
CONSTANTS
    Items = {i1, i2}
    Procs = {p1, p2}
    NoItem = NoItem
    NoProc = NoProc
    Window = 2
    MaxPerMinute = 2
    Threshold = 1
    MaxQueueWait = 2
    BackoffRateLimit = 2
    BackoffBlocked = 3
    MaxRetryAfter = 9
    NoDelay = NoDelay
    RetryAfters = {NoDelay}
    DefaultDelays = {NoDelay}
    Horizon = 4
SYMMETRY Symmetry
PROPERTY StopStops
