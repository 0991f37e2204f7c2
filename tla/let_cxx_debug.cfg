SPECIFICATION Spec
CONSTANTS
    Storages = {s1, s2, s3}
    Values = {v1, v2}
    None = None
    Origins = {"let_cxx"}
    DebugAssertions = TRUE
    CfgTest = FALSE
    UsizeMax = 1
SYMMETRY Symmetry
CHECK_DEADLOCK FALSE
INVARIANTS TypeOK LeakCheckExact DropGuarantee MoveRefTargetsLive DestroyedOnce BlockFreedIffBox AssertionsHold
PROPERTIES AbortOnlyOnLeak ImplementsPinnedSlots
