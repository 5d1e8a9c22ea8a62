SPECIFICATION SuiteSpec
CONSTANTS
    Nil = Nil
    Addr = {"a", "b"}
    Tx <- MCTx
    Heads <- MCHeads
    Genesis <- MCGenesis
    Tips = {20, 21}
    AccountSlots = 1
    GlobalSlots = 2
    AccountQueue = 1
    GlobalQueue = 1
    PriceBump = 10
    MaxInflight = 1
    MaxReinject = 2
    Adders = {a1, a2}
    SyncAdders = {a1}
    Resetter = r
    MaxHead = 1
    None = None
INVARIANTS
    ContentsAgree
    LimitsHold
    RunsAreSound
    SubchainsSound
    SkeletonOnTrack
PROPERTIES
    OnlyReinjectionLeavesGaps
    EveryoneReturns
    TruncateIsFair
    EventuallyReached
CHECK_DEADLOCK FALSE
