SPECIFICATION Spec
CONSTANT Nil = Nil
INVARIANTS
    ChainComplete
    ChainReopens
    ChainFreezerIsFinal
    TableSurvivesCrash
    PathReadsMatch
    PathHistoriesUsable
    PathReopens
CHECK_DEADLOCK FALSE
