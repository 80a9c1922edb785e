SPECIFICATION PartsSpec
CONSTANTS
    First = First
    Second = Second
    Third = Third
    Callers = {First, Second, Third}
    NoCaller = NoCaller
    MinInterval = 2
    Jitter = {0, 1}
    Extra <- MCExtra
    Delays = {0, 3}
    LastCall = 4
    Horizon = 20
    Calls = {r1, r2}
    MaxProcesses = 1
    Conns = {probe, c1, c2}
    Probe = probe
    MaxConnections = 2
    MaxAddresses = 2
    Urls = {u, v, w}
    CacheEntries = 2
    Ttls = {1, 2}
    CacheHorizon = 5
    Addresses = {x, y, z}
    Limit = 2
    TableEntries = 2
    Quota = 2
    Throttle = 1
    TableHorizon = 7
    Items = {i1, i2}
    Procs = {p1, p2}
    NoItem = NoItem
    NoProc = NoProc
    Window = 1
    MaxPerMinute = 1
    Threshold = 1
    MaxQueueWait = 1
    BackoffRateLimit = 1
    BackoffBlocked = 2
    MaxRetryAfter = 9
    NoDelay = NoDelay
    RetryAfters = {NoDelay}
    DefaultDelays = {NoDelay}
    QueueHorizon = 2
    Checkers = {r1, r2}
    Hosts = {u, v}
    Workers = 1
    DnsEntries = 2
    Ttl = 2
    NegativeTtl = 1
    SinkholeTtl = 2
    Timeout = 2
    Doh = TRUE
    LastLookup = 1
    DnsHorizon = 3
CHECK_DEADLOCK FALSE
INVARIANTS
    PartsInvariants
    WithinQuota
PROPERTIES
    ImplementsGate
    EveryoneGoes
    EveryCallerAnswered
    EverySlotComesBack
    ShutdownEnds
    TunnelsEnd
    EvictsLeastUsed
    EveryCheckEnds
