---------------------------- MODULE VaultRegistry ----------------------------
(***************************************************************************)
(* The VaultRegistry account of an NCN and the WeightTable of one epoch,   *)
(* which copies the registry when it is initialized and collects a weight  *)
(* for every supported token mint.  The admin edits the registry at any    *)
(* time, anybody registers vaults and cranks weights, and the NCN opts in  *)
(* to new vaults meanwhile.                                                *)
(*                                                                         *)
(* How accounts grow is in EpochLifecycle: here an account is missing,     *)
(* allocated or ready.  An entry of the registry is a record; the default  *)
(* entries of the fixed-length arrays are left out, so a list is the       *)
(* sequence of its entries.                                                *)
(***************************************************************************)
EXTENDS Integers, FiniteSets, Sequences

CONSTANTS
    Mints,          \* token mints
    Vaults,         \* vaults of the vault program; a vault stands for its vault_index too
    MintOf,         \* MintOf[v]: the supported_mint of vault v
    Feeds,          \* switchboard feeds
    NoFeed,         \* Pubkey::default(), no switchboard feed
    FeeGroups,      \* NCN fee groups
    Weights,        \* weights the admin may set
    Prices,         \* prices a feed may report, in tenths of 1 / WEIGHT_PRECISION
    MAX_ST_MINTS,   \* length of st_mint_list
    MAX_VAULTS,     \* length of vault_list
    SWITCHBOARD_MAX_STALE_SLOTS,
    MaxSlot,        \* bound on the clock
    MaxEdits        \* bound on the calls of admin_set_st_mint

VARIABLES
    registry,      \* whether the VaultRegistry account is missing, allocated or ready
    st_mint_list,  \* its StMintEntry list
    vault_list,    \* its VaultEntry list
    ncn_vaults,    \* vaults with an NcnVaultTicket; vault_count of the Ncn account counts them
    table_account, \* whether the WeightTable account is missing, allocated or ready
    vault_registry,\* its copy of the vault list
    table,         \* its WeightEntry list
    set_weight_progress,  \* of the EpochState account
    feed,          \* price and slot of each switchboard feed's result
    required,      \* vaults of the NCN when the table was allocated (history)
    edits,         \* calls of admin_set_st_mint so far
    slot           \* Clock::get().slot

accounts == <<registry, table_account>>
lists == <<st_mint_list, vault_list>>
tables == <<vault_registry, table, set_weight_progress>>
environment == <<ncn_vaults, feed, slot>>
vars == <<accounts, lists, tables, environment, required, edits>>

AccountStates == {"missing", "allocated", "ready"}
StMintEntry == [st_mint : Mints, ncn_fee_group : FeeGroups,
                switchboard_feed : Feeds \cup {NoFeed}, no_feed_weight : Weights \cup {0}]
VaultEntry == [vault : Vaults, st_mint : Mints]

\* The price in units of WEIGHT_PRECISION, rounded half to even (Decimal::round).
Rounded(price) ==
    LET whole == price \div 10
    IN  IF price % 10 > 5 \/ (price % 10 = 5 /\ whole % 2 = 1) THEN whole + 1 ELSE whole

WeightEntry == [st_mint_entry : StMintEntry,
                weight : Weights \cup {0} \cup {Rounded(p) : p \in Prices},
                slot_set : 0 .. MaxSlot]

\* The type invariant.
TypeOK ==
    /\ registry \in AccountStates
    /\ st_mint_list \in Seq(StMintEntry)
    /\ vault_list \in Seq(VaultEntry)
    /\ ncn_vaults \subseteq Vaults
    /\ table_account \in AccountStates
    /\ vault_registry \in Seq(VaultEntry)
    /\ table \in Seq(WeightEntry)
    /\ set_weight_progress \in [tally : Nat, total : Nat]
    /\ feed \in [Feeds -> [price : Prices, slot : 1 .. MaxSlot]]
    /\ required \subseteq Vaults
    /\ edits \in 0 .. MaxEdits
    /\ slot \in 1 .. MaxSlot

Init ==
    /\ registry = "missing" /\ table_account = "missing"
    /\ st_mint_list = <<>> /\ vault_list = <<>>
    /\ ncn_vaults = {}
    /\ vault_registry = <<>> /\ table = <<>>
    /\ set_weight_progress = [tally |-> 0, total |-> 0]
    /\ feed \in [Feeds -> [price : Prices, slot : {1}]]
    /\ required = {}
    /\ edits = 0
    /\ slot = 1

-----------------------------------------------------------------------------
(* The registry.                                                           *)

InitializeVaultRegistry ==
    /\ registry = "missing"
    /\ registry' = "allocated"
    /\ UNCHANGED <<table_account, lists, tables, environment, required, edits>>

\* The realloc_vault_registry that reaches VaultRegistry::SIZE.
ReallocVaultRegistry ==
    /\ registry = "allocated"
    /\ registry' = "ready"
    /\ st_mint_list' = <<>> /\ vault_list' = <<>>
    /\ UNCHANGED <<table_account, tables, environment, required, edits>>

MintsOf(list) == {list[i].st_mint : i \in DOMAIN list}
VaultsOf(list) == {list[i].vault : i \in DOMAIN list}

has_st_mint(mint) == mint \in MintsOf(st_mint_list)
check_st_mint_entry_Unchecked(entry) == TRUE
check_st_mint_entry(entry) == entry.no_feed_weight # 0 \/ entry.switchboard_feed # NoFeed

\* An entry at the first empty position of an array of the given length.
InsertInto(list, entry, length) ==
    IF Len(list) < length THEN {Append(list, entry)} ELSE {}

AdminRegisterStMint(entry) ==
    /\ registry = "ready"
    /\ ~ has_st_mint(entry.st_mint)
    /\ check_st_mint_entry(entry)
    /\ st_mint_list' \in InsertInto(st_mint_list, entry, MAX_ST_MINTS)
    /\ UNCHANGED <<accounts, vault_list, tables, environment, required, edits>>

\* set_st_mint: each field is kept unless the call brings a new value for it.
AdminSetStMint(mint, changes) ==
    /\ registry = "ready"
    /\ edits < MaxEdits
    /\ \E i \in DOMAIN st_mint_list :
           LET old == st_mint_list[i]
               new == [f \in DOMAIN old |-> IF f \in DOMAIN changes THEN changes[f] ELSE old[f]]
           IN  /\ old.st_mint = mint
               /\ check_st_mint_entry(new)
               /\ st_mint_list' = [st_mint_list EXCEPT ![i] = new]
    /\ edits' = edits + 1
    /\ UNCHANGED <<accounts, vault_list, tables, environment, required>>

\* process_register_vault; a vault that is in the list already is no error.
RegisterVault_Twice(v) ==
    /\ registry = "ready"
    /\ v \in ncn_vaults
    /\ has_st_mint(MintOf[v])
    /\ vault_list' \in InsertInto(vault_list, [vault |-> v, st_mint |-> MintOf[v]], MAX_VAULTS)
    /\ UNCHANGED <<accounts, st_mint_list, tables, environment, required, edits>>
RegisterVault(v) ==
    /\ registry = "ready"
    /\ v \in ncn_vaults
    /\ has_st_mint(MintOf[v])
    /\ v \notin VaultsOf(vault_list)
    /\ vault_list' \in InsertInto(vault_list, [vault |-> v, st_mint |-> MintOf[v]], MAX_VAULTS)
    /\ UNCHANGED <<accounts, st_mint_list, tables, environment, required, edits>>

-----------------------------------------------------------------------------
(* The weight table.                                                       *)

InitializeWeightTable ==
    /\ registry = "ready" /\ table_account = "missing"
    /\ Cardinality(ncn_vaults) = Len(vault_list)
    /\ table_account' = "allocated"
    /\ required' = ncn_vaults
    /\ UNCHANGED <<registry, lists, tables, environment, edits>>

NewWeightEntry(entry) == [st_mint_entry |-> entry, weight |-> 0, slot_set |-> 0]

\* The realloc_weight_table that reaches WeightTable::SIZE.  An empty registry
\* is an error: with vault_count 0 the copy counts as initialized before it is
\* made, and without mints the table is not initialized after it.
ReallocWeightTable ==
    /\ table_account = "allocated"
    /\ Len(vault_list) > 0 /\ Len(st_mint_list) > 0
    /\ table_account' = "ready"
    /\ vault_registry' = vault_list
    /\ table' = [i \in DOMAIN st_mint_list |-> NewWeightEntry(st_mint_list[i])]
    /\ set_weight_progress' = [tally |-> 0, total |-> Len(st_mint_list)]
    /\ UNCHANGED <<registry, lists, environment, required, edits>>

is_set(entry) == entry.slot_set > 0
weight_count(t) == Cardinality({i \in DOMAIN t : is_set(t[i])})
finalized == Len(table) > 0 /\ weight_count(table) = Len(table)

\* WeightEntry::set_weight: slot_set keeps the slot of the first call.
WithWeight(entry, weight) ==
    [entry EXCEPT !.weight = weight, !.slot_set = IF @ = 0 THEN slot ELSE @]

\* The common end of admin_set_weight and switchboard_set_weight.
SetWeight_Late(i, weight) ==
    /\ table' = [table EXCEPT ![i] = WithWeight(@, weight)]
    /\ set_weight_progress' = [tally |-> weight_count(table'), total |-> Len(table)]
    /\ UNCHANGED <<accounts, lists, vault_registry, environment, required, edits>>
SetWeight(i, weight) ==
    /\ ~ finalized
    /\ table' = [table EXCEPT ![i] = WithWeight(@, weight)]
    /\ set_weight_progress' = [tally |-> weight_count(table'), total |-> Len(table)]
    /\ UNCHANGED <<accounts, lists, vault_registry, environment, required, edits>>

AdminSetWeight(mint, weight) ==
    /\ table_account = "ready"
    /\ \E i \in DOMAIN table : table[i].st_mint_entry.st_mint = mint /\ SetWeight(i, weight)

Fresh(f) == slot <= feed[f].slot + SWITCHBOARD_MAX_STALE_SLOTS

\* The feed, or the weight without one, is the one the table copied.
FeedWeights(entry) ==
    IF entry.switchboard_feed = NoFeed
    THEN {entry.no_feed_weight} \ {0}
    ELSE {Rounded(feed[f].price) : f \in {g \in {entry.switchboard_feed} : Fresh(g)}}

SwitchboardSetWeight(mint) ==
    /\ table_account = "ready"
    /\ \E i \in DOMAIN table :
           /\ table[i].st_mint_entry.st_mint = mint
           /\ \E weight \in FeedWeights(table[i].st_mint_entry) : SetWeight(i, weight)

-----------------------------------------------------------------------------
(* The restaking program, the oracle and the clock.                        *)

NcnAddsVault(v) ==
    /\ v \notin ncn_vaults
    /\ ncn_vaults' = ncn_vaults \cup {v}
    /\ UNCHANGED <<accounts, lists, tables, feed, slot, required, edits>>

FeedUpdate(f) ==
    /\ \E p \in Prices : feed' = [feed EXCEPT ![f] = [price |-> p, slot |-> slot]]
    /\ UNCHANGED <<accounts, lists, tables, ncn_vaults, slot, required, edits>>

Tick ==
    /\ slot < MaxSlot
    /\ slot' = slot + 1
    /\ UNCHANGED <<accounts, lists, tables, ncn_vaults, feed, required, edits>>

Changes == [ncn_fee_group : FeeGroups] \cup [switchboard_feed : Feeds \cup {NoFeed}]
           \cup [no_feed_weight : Weights \cup {0}]

Next ==
    \/ InitializeVaultRegistry \/ ReallocVaultRegistry
    \/ \E entry \in StMintEntry : AdminRegisterStMint(entry)
    \/ \E m \in Mints, c \in Changes : AdminSetStMint(m, c)
    \/ \E v \in Vaults : RegisterVault(v) \/ NcnAddsVault(v)
    \/ InitializeWeightTable \/ ReallocWeightTable
    \/ \E m \in Mints, w \in Weights : AdminSetWeight(m, w)
    \/ \E m \in Mints : SwitchboardSetWeight(m)
    \/ \E f \in Feeds : FeedUpdate(f)
    \/ Tick

Spec == Init /\ [][Next]_vars

-----------------------------------------------------------------------------
(* Properties.                                                             *)

\* The table snapshots every vault the NCN had when the table was allocated,
\* although it copies the registry in a later transaction and only compares
\* two counts (initialize_weight_table): the registry holds no vault twice, so
\* equal counts mean equal sets, and it never loses one.  And every vault of the
\* table has one weight entry for its mint: without one it would block every
\* operator's snapshot, and of two only the first would ever be set.
TableCoversNcn ==
    table_account = "ready" =>
        /\ TypeOK
        /\ required \subseteq VaultsOf(vault_registry)
        /\ VaultsOf(vault_registry) \subseteq ncn_vaults
        /\ \A v \in VaultsOf(vault_registry) :
              Cardinality({j \in DOMAIN table : table[j].st_mint_entry.st_mint = MintOf[v]}) = 1

\* Once every mint has a weight the table never changes, whatever the admin
\* does to the registry: all snapshots of the epoch use the same weights.  The
\* keeper, which reads set_weight_progress, sees the moment it happens.
FinalizedTableIsFrozen ==
    [][finalized => /\ UNCHANGED <<vault_registry, table, set_weight_progress>>
                    /\ set_weight_progress.tally = set_weight_progress.total]_vars
=============================================================================
