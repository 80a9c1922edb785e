SPECIFICATION PartsSpec
CONSTANTS
    Callers = {a, b}
    NoCaller = NoCaller
    MaxMint = 2
    Readers = {r1, r2}
    NoReader = NoReader
    Urls = {u, v}
    MaxPage = 3
    Reads = {r1, r2, r3}
    RefusalHold = 3
    RefusalHoldMax = 7
    ReadTimeout = 2
    Horizon = 16
    Calls = {r1, r2, r3}
    NoCall = NoCall
    MaxPages = 1
    Fields = {1, 2, 3, 4, 5, 6, 7}
    MaxProbes = 24
    MaxProcesses = 2
CHECK_DEADLOCK FALSE
INVARIANTS
    PartsInvariants
    WaitersShareTheSolve
    ReplayIsSigned
    FormsFollowPages
    OwnResults
    OneMinimal
    SlotCoversChild
PROPERTIES
    NewerTokenSurvives
    OnlyRefusedTokenCleared
    EveryCallEnds
    HoldRunsItsCourse
    CleanupCompletes
