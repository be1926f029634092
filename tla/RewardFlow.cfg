SPECIFICATION KFairSpec
CONSTANTS
    BaseGroups = {"dao"}
    Dao = "dao"
    GroupCount = 1
    BaseFee <- FlowBaseFee
    NcnFee <- FlowNcnFee
    Operators = {"o1", "o2"}
    FinalVotes <- FlowVotes
    OperatorFee <- FlowOperatorFee
    MaxBps = 4
    Delegations <- FlowDelegations
    BaseIterations = {1, 2}
    NcnIterations = {0, 2}
    Deposits = {13}
    MaxRewards = 26
    MaxFailures = 1
INVARIANTS
    LedgersBalance
    LamportsConserved
PROPERTIES
    SlicesAgree
    ClaimsArePaid
CHECK_DEADLOCK FALSE
