----------------------------- MODULE EpochStake -----------------------------
(***************************************************************************)
(* How the stake weights of an epoch come about: first its weight table    *)
(* (VaultRegistry), then, from a finalized table, its snapshots            *)
(* (StakeSnapshot).  A finalized table never changes, so the second stage  *)
(* sees nothing of the first but the constants TableVaults and             *)
(* VaultWeight, and the two need not be interleaved: a behaviour is one of *)
(* either stage, while the variables of the other keep their first values. *)
(***************************************************************************)
EXTENDS StakeSnapshot

CONSTANTS
    RegistryVaults, Mints, MintOf, Feeds, NoFeed, RegistryFeeGroups, Weights, Prices,
    MAX_ST_MINTS, MAX_REGISTRY_VAULTS, SWITCHBOARD_MAX_STALE_SLOTS, MaxSlot, MaxEdits
                    \* the constants of VaultRegistry

ASSUME RegistryAssumption ==
    /\ IsFiniteSet(RegistryVaults) /\ MintOf \in [RegistryVaults -> Mints]
    /\ Weights \subseteq Nat /\ Prices \subseteq Nat
    /\ MaxSlot \in Nat \ {0} /\ MaxEdits \in Nat

VARIABLES
    stage,          \* "weights" or "snapshot"
    registry, st_mint_list, vault_list, ncn_vaults, table_account, vault_registry, table,
    set_weight_progress, feed, required, edits, slot

registry_vars == <<registry, st_mint_list, vault_list, ncn_vaults, table_account, vault_registry,
                   table, set_weight_progress, feed, required, edits, slot>>
all_vars == <<stage, vars, registry_vars>>

R == INSTANCE VaultRegistry
         WITH Vaults <- RegistryVaults, FeeGroups <- RegistryFeeGroups,
              MAX_VAULTS <- MAX_REGISTRY_VAULTS

\* Of the stage that is left out, one first state is enough.
StakeInit ==
    /\ stage \in {"weights", "snapshot"}
    /\ Init /\ R!Init
    /\ stage = "weights" => ncn_operators = 1 /\ free = Deposits
    /\ stage = "snapshot" => feed = CHOOSE f \in [Feeds -> [price : Prices, slot : {1}]] : TRUE

WeightsStep(A) == stage = "weights" /\ A /\ UNCHANGED <<stage, vars>>
SnapshotStep(A) == stage = "snapshot" /\ A /\ UNCHANGED <<stage, registry_vars>>

StakeNext == WeightsStep(R!Next) \/ SnapshotStep(Next)

StakeSpec == StakeInit /\ [][StakeNext]_all_vars

\* The keeper cranks weights, vault updates (full_vault_update) and snapshots,
\* and oracles refresh their feeds.
StakeFairSpec ==
    /\ StakeSpec
    /\ \A m \in Mints : WF_all_vars(WeightsStep(R!SwitchboardSetWeight(m)))
    /\ \A f \in Feeds : WF_all_vars(WeightsStep(R!FeedUpdate(f)))
    /\ WF_all_vars(SnapshotStep(InitializeEpochSnapshot))
    /\ \A o \in Operators : WF_all_vars(SnapshotStep(ReallocOperatorSnapshot(o)))
    /\ \A v \in Vaults : WF_all_vars(SnapshotStep(VaultUpdate(v)))
    /\ \A o \in Operators, v \in Vaults :
          WF_all_vars(SnapshotStep(SnapshotVaultOperatorDelegation(o, v)))

-----------------------------------------------------------------------------
(* Properties                                                              *)

\* The weight table has a weight entry for exactly one mint entry of each vault
\* the NCN had, although initialize_weight_table only compares two counts.
TableCoversNcn == R!TableCoversNcn

\* Once finalized, the weight table does not change, whatever the admin does.
FinalizedTableIsFrozen == R!FinalizedTableIsFrozen

\* Both stages end without the admin: every weight table that exists is
\* finalized, since every mint has a feed or a weight of its own, and the
\* snapshots are completed whatever vaults and operators do meanwhile.
StakeIsSettled ==
    /\ table_account = "ready" ~> R!finalized
    /\ stage = "snapshot" ~> (Exists(epoch_snapshot) /\ epoch_finalized(epoch_snapshot))
=============================================================================
