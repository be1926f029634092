--------------------------- MODULE ClientInstructions ---------------------------
(***************************************************************************)
(* The instruction builders of the generated Rust client                   *)
(* (clients/rust/jito_tip_router/src/generated/instructions).  Each file   *)
(* holds one struct whose fields become, in a fixed order, the account     *)
(* list of an instruction with the privileges its AccountMeta asks for,    *)
(* an InstructionData with the discriminator byte, the arguments in the    *)
(* order Borsh writes them, and a builder that panics on a field nobody    *)
(* set unless it has a default.                                            *)
(*                                                                         *)
(* Nine of the files hold unresolved merge markers.  Modelled is the side  *)
(* of commit cf534ad, the one with the epoch_marker account (and, for      *)
(* AdminSetParameters, with starting_valid_epoch) that the program and     *)
(* the CLI use; the HEAD side is older.                                    *)
(***************************************************************************)
EXTENDS Sequences

(***************************************************************************)
(* AccountMeta::new(_, signer) and AccountMeta::new_readonly(_, signer).   *)
(* An optional account that is not set is sent as the program's own id.    *)
(***************************************************************************)
Meta(name, writable, signer, optional) ==
  [key |-> name, writable |-> writable, signer |-> signer, optional |-> optional]

r(name)   == Meta(name, FALSE, FALSE, FALSE)
w(name)   == Meta(name, TRUE, FALSE, FALSE)
s(name)   == Meta(name, FALSE, TRUE, FALSE)
ws(name)  == Meta(name, TRUE, TRUE, FALSE)
opt(name) == Meta(name, TRUE, FALSE, TRUE)

(***************************************************************************)
(* An argument; one of Rust type Option may be left unset.                 *)
(***************************************************************************)
a(name) == [field |-> name, optional |-> FALSE]
o(name) == [field |-> name, optional |-> TRUE]

(***************************************************************************)
(* One generated file: discriminator, accounts, arguments, and the account *)
(* fields for which the builder has a default address.                     *)
(***************************************************************************)
Ix(discriminator, accounts, args, defaults) ==
  [discriminator |-> discriminator, accounts |-> accounts, args |-> args,
   defaults |-> defaults]

InitializeConfig == Ix(0,
  << w("config"), r("ncn"), r("fee_wallet"), s("ncn_admin"),
     r("tie_breaker_admin"), w("account_payer"), r("system_program") >>,
  << a("block_engine_fee_bps"), a("dao_fee_bps"), a("default_ncn_fee_bps"),
     a("epochs_before_stall"), a("epochs_after_consensus_before_close"),
     a("valid_slots_after_consensus") >>, {"system_program"})

InitializeVaultRegistry == Ix(1,
  << r("config"), w("vault_registry"), r("ncn"), w("account_payer"),
     r("system_program") >>,
  << >>, {"system_program"})

ReallocVaultRegistry == Ix(2,
  << r("config"), w("vault_registry"), r("ncn"), w("account_payer"),
     r("system_program") >>,
  << >>, {"system_program"})

RegisterVault == Ix(3,
  << r("config"), w("vault_registry"), r("ncn"), r("vault"),
     r("ncn_vault_ticket") >>,
  << >>, {})

InitializeEpochState == Ix(4,
  << r("epoch_marker"), w("epoch_state"), r("config"), r("ncn"),
     w("account_payer"), r("system_program") >>,
  << a("epoch") >>, {"system_program"})

ReallocEpochState == Ix(5,
  << w("epoch_state"), r("config"), r("ncn"), w("account_payer"),
     r("system_program") >>,
  << a("epoch") >>, {"system_program"})

InitializeWeightTable == Ix(6,
  << r("epoch_marker"), r("epoch_state"), r("vault_registry"), r("ncn"),
     w("weight_table"), w("account_payer"), r("system_program") >>,
  << a("epoch") >>, {"system_program"})

ReallocWeightTable == Ix(7,
  << w("epoch_state"), r("config"), w("weight_table"), r("ncn"),
     r("vault_registry"), w("account_payer"), r("system_program") >>,
  << a("epoch") >>, {"system_program"})

SwitchboardSetWeight == Ix(8,
  << w("epoch_state"), r("ncn"), w("weight_table"), r("switchboard_feed") >>,
  << a("st_mint"), a("epoch") >>, {})

InitializeEpochSnapshot == Ix(9,
  << r("epoch_marker"), w("epoch_state"), r("config"), r("ncn"),
     r("weight_table"), w("epoch_snapshot"), w("account_payer"),
     r("system_program") >>,
  << a("epoch") >>, {"system_program"})

InitializeOperatorSnapshot == Ix(10,
  << r("epoch_marker"), r("epoch_state"), r("config"), r("ncn"), r("operator"),
     r("ncn_operator_state"), r("epoch_snapshot"), w("operator_snapshot"),
     w("account_payer"), r("system_program") >>,
  << a("epoch") >>, {"system_program"})

ReallocOperatorSnapshot == Ix(11,
  << w("epoch_state"), r("config"), r("restaking_config"), r("ncn"),
     r("operator"), r("ncn_operator_state"), w("epoch_snapshot"),
     w("operator_snapshot"), w("account_payer"), r("system_program") >>,
  << a("epoch") >>, {"system_program"})

SnapshotVaultOperatorDelegation == Ix(12,
  << w("epoch_state"), r("config"), r("restaking_config"), r("ncn"),
     r("operator"), r("vault"), r("vault_ncn_ticket"), r("ncn_vault_ticket"),
     r("vault_operator_delegation"), r("weight_table"), w("epoch_snapshot"),
     w("operator_snapshot") >>,
  << a("epoch") >>, {})

InitializeBallotBox == Ix(13,
  << r("epoch_marker"), r("epoch_state"), r("config"), w("ballot_box"),
     r("ncn"), w("account_payer"), r("system_program") >>,
  << a("epoch") >>, {"system_program"})

ReallocBallotBox == Ix(14,
  << w("epoch_state"), r("config"), w("ballot_box"), r("ncn"),
     w("account_payer"), r("system_program") >>,
  << a("epoch") >>, {"system_program"})

CastVote_ReadOnlyState == Ix(15,
  << r("epoch_state"), r("config"), w("ballot_box"), r("ncn"),
     r("epoch_snapshot"), r("operator_snapshot"), r("operator"),
     s("operator_voter") >>,
  << a("meta_merkle_root"), a("epoch") >>, {})

CastVote == Ix(15,
  << w("epoch_state"), r("config"), w("ballot_box"), r("ncn"),
     r("epoch_snapshot"), r("operator_snapshot"), r("operator"),
     s("operator_voter") >>,
  << a("meta_merkle_root"), a("epoch") >>, {})

SetMerkleRoot == Ix(16,
  << w("epoch_state"), w("config"), r("ncn"), r("ballot_box"),
     r("vote_account"), w("tip_distribution_account"),
     r("tip_distribution_config"), r("tip_distribution_program") >>,
  << a("proof"), a("merkle_root"), a("max_total_claim"), a("max_num_nodes"),
     a("epoch") >>, {})

InitializeBaseRewardRouter == Ix(17,
  << r("epoch_marker"), r("epoch_state"), r("ncn"), w("base_reward_router"),
     w("base_reward_receiver"), w("account_payer"), r("system_program") >>,
  << a("epoch") >>, {"system_program"})

ReallocBaseRewardRouter == Ix(18,
  << w("epoch_state"), r("config"), w("base_reward_router"), r("ncn"),
     w("account_payer"), r("system_program") >>,
  << a("epoch") >>, {"system_program"})

InitializeNcnRewardRouter == Ix(19,
  << r("epoch_marker"), w("epoch_state"), r("ncn"), r("operator"),
     r("operator_snapshot"), w("ncn_reward_router"), w("ncn_reward_receiver"),
     w("account_payer"), r("system_program") >>,
  << a("ncn_fee_group"), a("epoch") >>, {"system_program"})

RouteBaseRewards == Ix(20,
  << w("epoch_state"), r("config"), r("ncn"), r("epoch_snapshot"),
     r("ballot_box"), w("base_reward_router"), w("base_reward_receiver") >>,
  << a("max_iterations"), a("epoch") >>, {})

RouteNcnRewards == Ix(21,
  << w("epoch_state"), r("ncn"), r("operator"), r("operator_snapshot"),
     w("ncn_reward_router"), w("ncn_reward_receiver") >>,
  << a("ncn_fee_group"), a("max_iterations"), a("epoch") >>, {})

DistributeBaseRewards == Ix(22,
  << w("epoch_state"), r("config"), r("ncn"), w("base_reward_router"),
     w("base_reward_receiver"), r("base_fee_wallet"), w("base_fee_wallet_ata"),
     r("stake_pool_program"), w("stake_pool"),
     r("stake_pool_withdraw_authority"), w("reserve_stake"),
     w("manager_fee_account"), w("referrer_pool_tokens_account"),
     w("pool_mint"), r("token_program"), r("system_program") >>,
  << a("base_fee_group"), a("epoch") >>, {"token_program", "system_program"})

DistributeBaseNcnRewardRoute == Ix(23,
  << w("epoch_state"), r("config"), r("ncn"), r("operator"),
     w("base_reward_router"), w("base_reward_receiver"),
     r("ncn_reward_router"), w("ncn_reward_receiver"), r("system_program") >>,
  << a("ncn_fee_group"), a("epoch") >>, {"system_program"})

DistributeNcnOperatorRewards == Ix(24,
  << w("epoch_state"), r("config"), r("ncn"), w("operator"), w("operator_ata"),
     w("operator_snapshot"), w("ncn_reward_router"), w("ncn_reward_receiver"),
     r("stake_pool_program"), w("stake_pool"),
     r("stake_pool_withdraw_authority"), w("reserve_stake"),
     w("manager_fee_account"), w("referrer_pool_tokens_account"),
     w("pool_mint"), r("token_program"), r("system_program") >>,
  << a("ncn_fee_group"), a("epoch") >>, {"token_program", "system_program"})

DistributeNcnVaultRewards == Ix(25,
  << w("epoch_state"), r("config"), r("ncn"), r("operator"), r("vault"),
     w("vault_ata"), w("operator_snapshot"), w("ncn_reward_router"),
     w("ncn_reward_receiver"), r("stake_pool_program"), w("stake_pool"),
     r("stake_pool_withdraw_authority"), w("reserve_stake"),
     w("manager_fee_account"), w("referrer_pool_tokens_account"),
     w("pool_mint"), r("token_program"), r("system_program") >>,
  << a("ncn_fee_group"), a("epoch") >>, {"token_program", "system_program"})

ClaimWithPayer == Ix(26,
  << w("account_payer"), r("config"), r("ncn"), r("tip_distribution_config"),
     w("tip_distribution_account"), w("claim_status"), w("claimant"),
     r("tip_distribution_program"), r("system_program") >>,
  << a("proof"), a("amount"), a("bump") >>, {"system_program"})

CloseEpochAccount == Ix(27,
  << w("epoch_marker"), w("epoch_state"), r("config"), r("ncn"),
     w("account_to_close"), w("account_payer"), w("dao_wallet"),
     r("system_program"), opt("receiver_to_close") >>,
  << a("epoch") >>, {"system_program"})

AdminSetParameters == Ix(28,
  << w("config"), r("ncn"), s("ncn_admin") >>,
  << o("starting_valid_epoch"), o("epochs_before_stall"),
     o("epochs_after_consensus_before_close"), o("valid_slots_after_consensus") >>, {})

AdminSetConfigFees == Ix(29,
  << w("config"), r("ncn"), s("ncn_admin") >>,
  << o("new_block_engine_fee_bps"), o("base_fee_group"),
     o("new_base_fee_wallet"), o("new_base_fee_bps"), o("ncn_fee_group"),
     o("new_ncn_fee_bps") >>, {})

AdminSetNewAdmin == Ix(30,
  << w("config"), r("ncn"), s("ncn_admin"), r("new_admin") >>,
  << a("role") >>, {})

AdminSetTieBreaker == Ix(31,
  << w("epoch_state"), r("config"), w("ballot_box"), r("ncn"),
     s("tie_breaker_admin") >>,
  << a("meta_merkle_root"), a("epoch") >>, {})

AdminSetWeight == Ix(32,
  << w("epoch_state"), r("ncn"), w("weight_table"), s("weight_table_admin") >>,
  << a("st_mint"), a("weight"), a("epoch") >>, {})

AdminRegisterStMint == Ix(33,
  << r("config"), r("ncn"), r("st_mint"), w("vault_registry"), ws("admin") >>,
  << a("ncn_fee_group"), a("reward_multiplier_bps"), o("switchboard_feed"),
     o("no_feed_weight") >>, {})

AdminSetStMint == Ix(34,
  << r("config"), r("ncn"), w("vault_registry"), ws("admin") >>,
  << a("st_mint"), o("ncn_fee_group"), o("reward_multiplier_bps"),
     o("switchboard_feed"), o("no_feed_weight") >>, {})

(***************************************************************************)
(* The client crate: every builder by the name of its struct.              *)
(***************************************************************************)
Client ==
  [InitializeConfig |-> InitializeConfig,
   InitializeVaultRegistry |-> InitializeVaultRegistry,
   ReallocVaultRegistry |-> ReallocVaultRegistry,
   RegisterVault |-> RegisterVault,
   InitializeEpochState |-> InitializeEpochState,
   ReallocEpochState |-> ReallocEpochState,
   InitializeWeightTable |-> InitializeWeightTable,
   ReallocWeightTable |-> ReallocWeightTable,
   SwitchboardSetWeight |-> SwitchboardSetWeight,
   InitializeEpochSnapshot |-> InitializeEpochSnapshot,
   InitializeOperatorSnapshot |-> InitializeOperatorSnapshot,
   ReallocOperatorSnapshot |-> ReallocOperatorSnapshot,
   SnapshotVaultOperatorDelegation |-> SnapshotVaultOperatorDelegation,
   InitializeBallotBox |-> InitializeBallotBox,
   ReallocBallotBox |-> ReallocBallotBox, CastVote |-> CastVote,
   SetMerkleRoot |-> SetMerkleRoot,
   InitializeBaseRewardRouter |-> InitializeBaseRewardRouter,
   ReallocBaseRewardRouter |-> ReallocBaseRewardRouter,
   InitializeNcnRewardRouter |-> InitializeNcnRewardRouter,
   RouteBaseRewards |-> RouteBaseRewards, RouteNcnRewards |-> RouteNcnRewards,
   DistributeBaseRewards |-> DistributeBaseRewards,
   DistributeBaseNcnRewardRoute |-> DistributeBaseNcnRewardRoute,
   DistributeNcnOperatorRewards |-> DistributeNcnOperatorRewards,
   DistributeNcnVaultRewards |-> DistributeNcnVaultRewards,
   ClaimWithPayer |-> ClaimWithPayer, CloseEpochAccount |-> CloseEpochAccount,
   AdminSetParameters |-> AdminSetParameters,
   AdminSetConfigFees |-> AdminSetConfigFees,
   AdminSetNewAdmin |-> AdminSetNewAdmin,
   AdminSetTieBreaker |-> AdminSetTieBreaker,
   AdminSetWeight |-> AdminSetWeight,
   AdminRegisterStMint |-> AdminRegisterStMint,
   AdminSetStMint |-> AdminSetStMint]
=============================================================================
