SPECIFICATION NodeFairSpec
CONSTANTS
    Roots = {r1, r2}
    r1 = r1
    t1 = t1
    Tdas = {t1, t2}
    NodesOf <- MCNodesOf
    FirstEpoch = 2
    LastEpoch = 4
    Scopes <- MCScopes
    num_monitored_epochs = 2
    set_merkle_roots = TRUE
    submit_as_memo = FALSE
    start_next_epoch = FALSE
    MaxCrashes = 1
    NoRoot = NoRoot
    NoFile = NoFile
    Torn = Torn
    SlotsPerEpoch = 2
    MaximumPerEpoch = 1
    OptimalRange = 1
    Retained = 1
    LastBackupEpoch = 3
    None = None
INVARIANTS
    VotesAreComputed
    NoEpochIsSkipped
    NewestIsKept
PROPERTIES
    VoteFollowsTree
    LateSnapshotsAreBackedUp
CHECK_DEADLOCK FALSE
