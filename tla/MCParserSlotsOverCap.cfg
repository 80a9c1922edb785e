SPECIFICATION Spec
CONSTANTS
    Calls = {r1, r2}
    MaxProcesses = 1
    StartHoldsSlot = FALSE
SYMMETRY Symmetry
CHECK_DEADLOCK FALSE
INVARIANTS
    ChildrenWithinSlots
