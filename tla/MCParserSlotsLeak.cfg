SPECIFICATION FairSpec
CONSTANTS
    Calls = {r1}
    MaxProcesses = 1
    StartHoldsSlot = TRUE
CHECK_DEADLOCK FALSE
PROPERTIES
    EverySlotComesBack
