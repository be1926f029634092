SPECIFICATION Spec
CONSTANTS
    BaseGroups = {"dao", "b2"}
    NcnGroups = {"lst"}
    DefaultBase = "dao"
    DefaultNcn = "lst"
    Values = {0, 1, 3}
    Wallets = {"w1"}
    BlockEngineFees = {0, 2}
    MaxFeeBps = 2
    NoFees = NoFees
    MaxEpoch = 2
PROPERTIES
    ImplementsSchedule
    UpdatesAccumulate
    TimelySnapshot
CHECK_DEADLOCK FALSE
