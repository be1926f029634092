SPECIFICATION CombinedSpec
CONSTANTS
    o1 = o1
    o2 = o2
    o3 = o3
    Operators = {o1, o2, o3}
    NoOperator = NoOperator
    Roots = {ra, rb}
    ZeroRoot = ZeroRoot
    Components = {"stake", "lst", "jto"}
    Stake = "stake"
    Weight <- MCWeight
    MaxOperators = 3
    Precision = 1000
    SlotsPerEpoch = 1
    ValidSlots = {0, 1}
    StallEpochs = {1}
    MaxSlot = 2
    MaxUploads = 0
    BaseGroups = {"dao"}
    Dao = "dao"
    GroupCount = 2
    BaseFee <- MCBaseFee
    NcnFee <- MCNcnFee
    OperatorFee <- MCOperatorFee
    MaxBps = 4
    Delegations <- MCDelegations
    BaseIterations = {2}
    NcnIterations = {}
    Deposits = {17}
    MaxRewards = 17
    GroupComponent <- MCGroupComponent
SYMMETRY RootSymmetry
INVARIANTS
    PassNeverSticks
PROPERTIES
    RoutedVotesAreFinal
    OneTallyPerPass
