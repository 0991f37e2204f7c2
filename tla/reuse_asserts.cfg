SPECIFICATION Spec
CONSTANTS
    Storages = {s1}
    Values = {v1, v2}
    None = None
    Origins = {"SlotStorage"}
    DebugAssertions = TRUE
    CfgTest = FALSE
    UsizeMax = 2
SYMMETRY Symmetry
CHECK_DEADLOCK FALSE
INVARIANTS AssertionsHold
