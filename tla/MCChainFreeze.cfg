CONSTANTS
    Nil = Nil
    MaxNumber = 3
    ForkAt <- MCForkAt
    FullImmutabilityThreshold = 1
    freezerBatchLimit = 2
    maxDiffLayers = 1
    MaxCrash = 1
    MaxRewind = 1
    TornReorg = FALSE
SPECIFICATION Spec
INVARIANT ChainComplete
CHECK_DEADLOCK FALSE
