SPECIFICATION Spec
CONSTANTS
    NumSubpools = 2
    Syncers = {"s1", "s2"}
    MaxHead = 2
PROPERTIES
    SyncReturns
CHECK_DEADLOCK FALSE
