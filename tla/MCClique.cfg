SPECIFICATION SuiteSpec
CONSTANTS
    Nil = Nil
    Addr <- MCAddr
    GenesisSigners <- MCGenesisSigners
    Ballots <- MCBallots
    Epoch = 4
    MaxNumber = 6
INVARIANTS
    SnapshotConsistent
    SomeoneMaySign
    SigningIsSpaced
    TallyIsRecount
    EngineCachesCoherent
    EngineHeadersAgree
    CheckpointsSound
    RewardsConserved
    StateDatabaseAgrees
PROPERTIES
    MajorityDecides
    StateImplementsStack
CHECK_DEADLOCK FALSE
