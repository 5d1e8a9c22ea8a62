CONSTANTS
    Nil = Nil
    MaxNumber = 3
    ForkAt <- MCForkAt
    FullImmutabilityThreshold = 1
    freezerBatchLimit = 2
    maxDiffLayers = 1
    MaxCrash = 1
    MaxRewind = 0
    TornReorg = TRUE
SPECIFICATION Spec
INVARIANT Reopens
CHECK_DEADLOCK FALSE
