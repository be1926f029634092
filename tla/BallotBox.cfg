SPECIFICATION Spec
CONSTANTS
    o1 = o1
    o2 = o2
    o3 = o3
    o4 = o4
    Operators = {o1, o2, o3, o4}
    NoOperator = NoOperator
    Roots = {ra, rb, rc, rd}
    ZeroRoot = ZeroRoot
    Components = {"stake", "group"}
    Stake = "stake"
    Weight <- MCWeight
    MaxOperators = 3
    Precision = 1000
    SlotsPerEpoch = 2
    ValidSlots = {1, 2}
    StallEpochs = {1, 2}
    MaxSlot = 4
    MaxUploads = 1
SYMMETRY RootSymmetry
INVARIANTS
    VotesAreTallied
    ConsensusHolds
    EpochStateAgrees
    UploadsMatchWinner
PROPERTY
    DecisionIsFinal
