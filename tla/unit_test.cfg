SPECIFICATION FairSpec
CONSTANTS
    Storages = {s1, s2}
    Values = {v1, v2}
    None = None
    Origins = {"let_cxx_slot"}
    DebugAssertions = TRUE
    CfgTest = TRUE
    UsizeMax = 1
CHECK_DEADLOCK FALSE
INVARIANTS IInv
PROPERTIES LeakPanics ValuesSettle
