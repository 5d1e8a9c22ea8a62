SPECIFICATION Spec
CONSTANTS
    Addr <- MCAddr
    Signers <- MCSigners
    Total = 10
    MaxWeight = 3
    MaxReceivers = 2
    Uint64Mod = 8
    Uint256Mod = 256
    MaxHeight = 2
PROPERTIES
    SealedBlocksImport
CHECK_DEADLOCK FALSE
