SPECIFICATION ServeSpec
CONSTANTS
    Items = {i1, i2, i3, i4}
    Procs = {p1}
    NoItem = NoItem
    NoProc = NoProc
    Window = 2
    MaxPerMinute = 2
    Threshold = 1
    MaxQueueWait = 2
    BackoffRateLimit = 3
    BackoffBlocked = 4
    MaxRetryAfter = 9
    NoDelay = NoDelay
    RetryAfters = {NoDelay}
    DefaultDelays = {NoDelay}
    Horizon = 4
SYMMETRY Symmetry
INVARIANT OneAtATime
INVARIANT WithinBudget
INVARIANT SleepWithinBound
PROPERTY AnswerIsFinal
PROPERTY NotSentWhenAbandoned
CHECK_DEADLOCK FALSE
