SPECIFICATION Spec
CONSTANTS
    Storages = {s1, s2}
    Values = {v1, v2}
    None = None
    Origins = {"let_cxx_slot", "SlotStorage"}
    DebugAssertions = TRUE
    CfgTest = FALSE
    UsizeMax = 2
SYMMETRY Symmetry
CHECK_DEADLOCK FALSE
INVARIANTS IInv OnlyInitializeAsserts
PROPERTIES ImplementsPinnedSlots
