SPECIFICATION Spec
CONSTANTS
    Addr = {0, 1, 2, 3, 4}
    GenesisSigners <- MCFourSigners
    Ballots <- MCNoVote
    Epoch = 30
    CheckpointInterval = 2
    InmemorySnapshots = 2
    FullImmutabilityThreshold = 9
    Uint64Mod = 64
    MaxNumber = 3
    MaxBlocks = 4
    MaxAhead = 2
INVARIANTS
    AcceptedHeadersApply
CHECK_DEADLOCK FALSE
