SPECIFICATION Spec
CONSTANTS
    Clients = {c1}
    Codes = {k1}
    Tokens = {t1}
    MaxClients = 1
    MaxAuthCodes = 1
    AuthCodeTTL = 1
    RefreshTokenTTL = 1
    ClientTTL = 1
    PendingClientTTL = 0
    Horizon = 1
SYMMETRY Symmetry
INVARIANT ReadyIsDurable
