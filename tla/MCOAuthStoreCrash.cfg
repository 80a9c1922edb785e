SPECIFICATION Spec
CONSTANTS
    Clients = {c1, c2}
    Codes = {k1, k2}
    Tokens = {t1, t2, t3}
    MaxClients = 1
    MaxAuthCodes = 1
    AuthCodeTTL = 1
    RefreshTokenTTL = 1
    ClientTTL = 1
    PendingClientTTL = 0
    Horizon = 3
SYMMETRY Symmetry
INVARIANT TypeOK
INVARIANT MemoryIsCommitted
INVARIANT GrantsSingleUse
INVARIANT NoOrphanToken
PROPERTY AccessKept
PROPERTY CodeNotBurnt
