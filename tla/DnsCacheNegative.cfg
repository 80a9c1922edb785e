SPECIFICATION Spec
CONSTANTS
    Callers = {c1}
    Hosts = {"u"}
    Workers = 1
    MaxEntries = 2
    Ttl = 60
    NegativeTtl = 2
    SinkholeTtl = 30
    Timeout = 8
    Doh = TRUE
    LastLookup = 8
    Horizon = 10
PROPERTY StampedeAbsorbed
CHECK_DEADLOCK FALSE
