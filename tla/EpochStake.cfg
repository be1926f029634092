SPECIFICATION StakeFairSpec
CONSTANTS
    m1 = m1
    m2 = m2
    v1 = v1
    v2 = v2
    Mints = {m1, m2}
    RegistryVaults = {v1, v2}
    MintOf <- MCMintOf
    Feeds = {f}
    NoFeed = NoFeed
    RegistryFeeGroups = {1}
    Weights = {1}
    Prices = {4, 15}
    MAX_ST_MINTS = 2
    MAX_REGISTRY_VAULTS = 2
    SWITCHBOARD_MAX_STALE_SLOTS = 0
    MaxSlot = 2
    MaxEdits = 1
    OperatorLimit = 2
    Vaults = {v1}
    TableVaults = {v1}
    FeeGroups = {"lst", "jto"}
    VaultWeight <- MCVaultWeight
    Deposits <- MCDeposits
    MAX_VAULTS = 1
    MaxEvents = 2
    MaxEpoch = 2
INVARIANTS
    TableCoversNcn
    WeightsAddUp
    StakeCountedOnce
PROPERTIES
    FinalizedTableIsFrozen
    StakeIsSettled
CHECK_DEADLOCK FALSE
