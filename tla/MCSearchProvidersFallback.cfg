SPECIFICATION FairSpec
CONSTANTS
    a = a
    b = b
    Searches = {a, b}
    NoSearch = NoSearch
    Detached = Detached
    Mode <- MCMode
    Page <- MCPage
    Documents = {d, e}
    NoDocument = NoDocument
    Budget = 2
    MaxDdgPage = 1
    MaxWalk = 2
    MaxCursors = 1
    MaxCache = 1
INVARIANTS
    TypeOK
    OneRequestPerProvider
    NoColdDocument
PROPERTIES
    BackoffRespected
    NothingSentInVain
    FallbackOnlyOnFailure
    EverySearchEnds
