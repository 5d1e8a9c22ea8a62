SPECIFICATION PlainSpec
CONSTANTS
    Addr = {"a", "b"}
    Tx <- MCTx
    Heads <- MCHeads
    Genesis <- MCGenesis
    Tips = {20, 21}
    AccountSlots = 1
    GlobalSlots = 2
    AccountQueue = 1
    GlobalQueue = 1
    PriceBump = 10
    MaxInflight = 1
    MaxReinject = 2
PROPERTIES
    FutureNeverChurns
