CONSTANTS
    Nil = Nil
    NumKeys = 1
    maxDiffLayers = 1
    StateHistory = 1
    SnapshotNoBuild = TRUE
    MaxHeight = 3
    MaxBranches = 0
    MaxCrash = 1
    MaxSync = 0
    Journals = FALSE
    Loss = {"store"}
SPECIFICATION Spec
INVARIANT Reopens
CHECK_DEADLOCK FALSE
