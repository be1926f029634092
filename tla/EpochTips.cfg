SPECIFICATION TipsFairSpec
CONSTANTS
    Operators = {1, 2}
    Votes = {1, 2}
    Banks <- MCBanks
    FeeBps = {3, 11}
    Epochs = {736, 737}
    MaxBps = 10
    Rent = 2
    FixEpoch = 737
    Receiver = 99
    NodeOf <- MCNode
    Items <- MCItems
    MaxLen = 9
    MaxForged = 4
    Nodes <- MCNodes
    Ours = {1}
    Limit = 1
    MaxClaimants = 2
INVARIANTS
    RootsAgree
    ClaimsAreFunded
    ClaimsAreProvable
PROPERTIES
    FinishedIsComplete
    ClaimsAreMade
CHECK_DEADLOCK FALSE
