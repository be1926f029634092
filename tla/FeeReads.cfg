SPECIFICATION Spec
CONSTANTS
    BaseGroups = {"dao"}
    NcnGroups = {"lst"}
    DefaultBase = "dao"
    DefaultNcn = "lst"
    Values = {0, 1}
    Wallets = {"w1"}
    BlockEngineFees = {0, 1}
    MaxFeeBps = 2
    NoFees = NoFees
    MaxEpoch = 1
INVARIANTS
    OperatorsAgreeOnFees
CHECK_DEADLOCK FALSE
