SPECIFICATION FairSpec
CONSTANTS
    OperatorLimit = 1
    FeeGroups = {"lst"}
    Vaults = {"v1"}
    Mints = {"m1"}
    Size <- Sizes
    SlotsPerEpoch = 2
    Configs <- OneConfig
    LastVoteSlot = 2
    MaxSlot = 6
PROPERTIES
    DecidedEpochCloses
CHECK_DEADLOCK FALSE
