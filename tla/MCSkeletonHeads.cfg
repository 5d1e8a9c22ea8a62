SPECIFICATION Spec
CONSTANTS
    Nil = Nil
    MaxNumber = 5
    ForkAt = 4
    requestHeaders = 2
    scratchHeaders = 4
    Peers = {"p", "q"}
    ShorterHeads = TRUE
    MaxUpdates = 3
    MaxFaults = 1
INVARIANT TargetTracked
CHECK_DEADLOCK FALSE
