SPECIFICATION FairSpec
CONSTANTS
    Threads = {t1, t2}
    Blocks = {b1, b2, b3}
    Kinds = {"Box", "Rc", "Arc"}
    MaxRefs = 3
CHECK_DEADLOCK FALSE
INVARIANTS EmplaceTypeOK CountsExact
PROPERTIES ImplementsSharedOwners HalfBuiltSettles
