SPECIFICATION FairSpec
CONSTANTS
    LastEpoch = 2
    Faulty = {"register", "update", "create", "crank", "detect_stall"}
    CanTear = TRUE
INVARIANT
    CranksWhatItRead
PROPERTY
    EveryEpochCompletes
