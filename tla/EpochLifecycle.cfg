SPECIFICATION KFairSpec
CONSTANTS
    OperatorLimit = 2
    FeeGroups = {"lst"}
    Vaults = {"v1", "v2"}
    Mints = {"m"}
    Size <- MCSize
    SlotsPerEpoch = 1
    Configs <- MCConfigs
    LastVoteSlot = 1
    MaxSlot = 3
    MaxFailures = 2
INVARIANTS
    StatusAgrees
    NoOrphans
    RegistrationsCounted
    TornOnlyByFailure
PROPERTIES
    ClosedForGood
    EpochsFinish
CHECK_DEADLOCK FALSE
