SPECIFICATION Spec
CONSTANTS
    LifetimeNames = {"a", "b"}
    Inputs <- AllInputs
    Edited <- EditedInputs
    MaxEdits = 1
INVARIANTS AbiTypeOK CompilesIffCoherent FreshBuildFaithful EditNoticedIff StaleBuildSupported
