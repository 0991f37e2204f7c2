SPECIFICATION Spec
CONSTANTS
    Entries <- SmallEntries
    AbiDir <- AbiDirectory
    MaxRuns = 2
CHECK_DEADLOCK FALSE
INVARIANTS ProcessingTypeOK OutputExact CrateResolves ArtifactsResolve
PROPERTIES WrittenOnce
