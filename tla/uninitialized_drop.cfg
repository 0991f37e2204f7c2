SPECIFICATION Spec
CONSTANTS
    Storages = {s1, s2}
    Values = {v1}
    None = None
    Origins = {"let_cxx"}
    DebugAssertions = TRUE
    CfgTest = FALSE
    UsizeMax = 1
SYMMETRY Symmetry
CHECK_DEADLOCK FALSE
PROPERTIES UninitializedDropIsManual
