---------------------------- MODULE TipRouterProgram ----------------------------
(***************************************************************************)
(* The program's side of its instruction interface: the enum whose Borsh   *)
(* variant index is the discriminator byte (core/src/instruction.rs), the  *)
(* dispatch of process_instruction (program/src/lib.rs), and what each     *)
(* handler does with the accounts it destructures: which position it takes *)
(* for which account, which privileges its loaders insist on and which     *)
(* accounts some path of it writes.  Accounts keep the names of the        *)
(* declaration; a handler's own name for one (ncn_config, ncn_account,     *)
(* fee_admin, operator_admin, dao_fee_wallet) is read as the declared one. *)
(***************************************************************************)
EXTENDS Sequences

(***************************************************************************)
(* How a handler uses the account at a position: it reads it (rd), loads   *)
(* it with expect_writable but never writes it (ck), does both (wr),       *)
(* writes it relying on the runtime to refuse a read-only one (wx), or     *)
(* needs its signature, read-only (sg) or writable (sw).                   *)
(***************************************************************************)
Use(name, checked, written, signer) ==
  [name |-> name, checked |-> checked, written |-> written, signer |-> signer]

rd(name) == Use(name, FALSE, FALSE, FALSE)
ck(name) == Use(name, TRUE, FALSE, FALSE)
wr(name) == Use(name, TRUE, TRUE, FALSE)
wx(name) == Use(name, FALSE, TRUE, FALSE)
sg(name) == Use(name, FALSE, FALSE, TRUE)
sw(name) == Use(name, TRUE, FALSE, TRUE)

(***************************************************************************)
(* A handler: the accounts of `let [..] = accounts else` and its           *)
(* parameters in the order of its signature.                               *)
(***************************************************************************)
Handler(accounts, params) == [accounts |-> accounts, params |-> params]

process_admin_initialize_config == Handler(
  << wr("config"), rd("ncn"), rd("fee_wallet"), sg("ncn_admin"),
     rd("tie_breaker_admin"), wr("account_payer"), rd("system_program") >>,
  << "block_engine_fee_bps", "dao_fee_bps", "default_ncn_fee_bps",
     "epochs_before_stall", "epochs_after_consensus_before_close",
     "valid_slots_after_consensus" >>)

process_initialize_vault_registry == Handler(
  << rd("config"), wr("vault_registry"), rd("ncn"), wr("account_payer"),
     rd("system_program") >>,
  << >>)

process_realloc_vault_registry == Handler(
  << rd("config"), wx("vault_registry"), rd("ncn"), wr("account_payer"),
     rd("system_program") >>,
  << >>)

process_register_vault == Handler(
  << rd("config"), wr("vault_registry"), rd("ncn"), rd("vault"),
     rd("ncn_vault_ticket") >>,
  << >>)

process_initialize_epoch_state == Handler(
  << rd("epoch_marker"), wr("epoch_state"), rd("config"), rd("ncn"),
     wr("account_payer"), rd("system_program") >>,
  << "epoch" >>)

process_realloc_epoch_state == Handler(
  << wx("epoch_state"), rd("config"), rd("ncn"), wr("account_payer"),
     rd("system_program") >>,
  << "epoch" >>)

process_initialize_weight_table == Handler(
  << rd("epoch_marker"), rd("epoch_state"), rd("vault_registry"), rd("ncn"),
     wr("weight_table"), wr("account_payer"), rd("system_program") >>,
  << "epoch" >>)

process_realloc_weight_table == Handler(
  << wr("epoch_state"), rd("config"), wx("weight_table"), rd("ncn"),
     rd("vault_registry"), wr("account_payer"), rd("system_program") >>,
  << "epoch" >>)

process_switchboard_set_weight == Handler(
  << wr("epoch_state"), rd("ncn"), wr("weight_table"), rd("switchboard_feed") >>,
  << "st_mint", "epoch" >>)

process_initialize_epoch_snapshot == Handler(
  << rd("epoch_marker"), wr("epoch_state"), rd("config"), rd("ncn"),
     rd("weight_table"), wr("epoch_snapshot"), wr("account_payer"),
     rd("system_program") >>,
  << "epoch" >>)

process_initialize_operator_snapshot == Handler(
  << rd("epoch_marker"), rd("epoch_state"), rd("config"), rd("ncn"),
     rd("operator"), rd("ncn_operator_state"), rd("epoch_snapshot"),
     wr("operator_snapshot"), wr("account_payer"), rd("system_program") >>,
  << "epoch" >>)

process_realloc_operator_snapshot == Handler(
  << wr("epoch_state"), rd("config"), rd("restaking_config"), rd("ncn"),
     rd("operator"), rd("ncn_operator_state"), wr("epoch_snapshot"),
     wx("operator_snapshot"), wr("account_payer"), rd("system_program") >>,
  << "epoch" >>)

process_snapshot_vault_operator_delegation == Handler(
  << wr("epoch_state"), rd("config"), rd("restaking_config"), rd("ncn"),
     rd("operator"), rd("vault"), rd("vault_ncn_ticket"),
     rd("ncn_vault_ticket"), rd("vault_operator_delegation"),
     rd("weight_table"), wr("epoch_snapshot"), wr("operator_snapshot") >>,
  << "epoch" >>)

process_initialize_ballot_box == Handler(
  << rd("epoch_marker"), rd("epoch_state"), rd("config"), wr("ballot_box"),
     rd("ncn"), wr("account_payer"), rd("system_program") >>,
  << "epoch" >>)

process_realloc_ballot_box == Handler(
  << wx("epoch_state"), rd("config"), wx("ballot_box"), rd("ncn"),
     wr("account_payer"), rd("system_program") >>,
  << "epoch" >>)

process_cast_vote == Handler(
  << wx("epoch_state"), rd("config"), wr("ballot_box"), rd("ncn"),
     rd("epoch_snapshot"), rd("operator_snapshot"), rd("operator"),
     sg("operator_voter") >>,
  << "meta_merkle_root", "epoch" >>)

process_set_merkle_root == Handler(
  << wr("epoch_state"), wr("config"), rd("ncn"), rd("ballot_box"),
     rd("vote_account"), wx("tip_distribution_account"),
     rd("tip_distribution_config"), rd("tip_distribution_program") >>,
  << "proof", "merkle_root", "max_total_claim", "max_num_nodes", "epoch" >>)

process_initialize_base_reward_router == Handler(
  << rd("epoch_marker"), rd("epoch_state"), rd("ncn"),
     wr("base_reward_router"), wr("base_reward_receiver"), wr("account_payer"),
     rd("system_program") >>,
  << "epoch" >>)

process_realloc_base_reward_router == Handler(
  << wr("epoch_state"), rd("config"), wx("base_reward_router"), rd("ncn"),
     wr("account_payer"), rd("system_program") >>,
  << "epoch" >>)

process_initialize_ncn_reward_router == Handler(
  << rd("epoch_marker"), wr("epoch_state"), rd("ncn"), rd("operator"),
     rd("operator_snapshot"), wr("ncn_reward_router"),
     wr("ncn_reward_receiver"), wr("account_payer"), rd("system_program") >>,
  << "ncn_fee_group", "epoch" >>)

process_route_base_rewards == Handler(
  << wr("epoch_state"), rd("config"), rd("ncn"), rd("epoch_snapshot"),
     rd("ballot_box"), wr("base_reward_router"), ck("base_reward_receiver") >>,
  << "max_iterations", "epoch" >>)

process_route_ncn_rewards == Handler(
  << wr("epoch_state"), rd("ncn"), rd("operator"), rd("operator_snapshot"),
     wr("ncn_reward_router"), ck("ncn_reward_receiver") >>,
  << "ncn_fee_group", "max_iterations", "epoch" >>)

process_distribute_base_rewards == Handler(
  << wr("epoch_state"), rd("config"), rd("ncn"), wr("base_reward_router"),
     wr("base_reward_receiver"), rd("base_fee_wallet"),
     wx("base_fee_wallet_ata"), rd("stake_pool_program"), wx("stake_pool"),
     rd("stake_pool_withdraw_authority"), wx("reserve_stake"),
     wx("manager_fee_account"), wx("referrer_pool_tokens_account"),
     wx("pool_mint"), rd("token_program"), rd("system_program") >>,
  << "base_fee_group", "epoch" >>)

process_distribute_base_ncn_reward_route == Handler(
  << wr("epoch_state"), rd("config"), rd("ncn"), rd("operator"),
     wr("base_reward_router"), wr("base_reward_receiver"),
     rd("ncn_reward_router"), wx("ncn_reward_receiver"), rd("system_program") >>,
  << "ncn_fee_group", "epoch" >>)

process_distribute_ncn_operator_rewards == Handler(
  << wr("epoch_state"), rd("config"), rd("ncn"), ck("operator"),
     wx("operator_ata"), ck("operator_snapshot"), wr("ncn_reward_router"),
     wr("ncn_reward_receiver"), rd("stake_pool_program"), wx("stake_pool"),
     rd("stake_pool_withdraw_authority"), wx("reserve_stake"),
     wx("manager_fee_account"), wx("referrer_pool_tokens_account"),
     wx("pool_mint"), rd("token_program"), rd("system_program") >>,
  << "ncn_fee_group", "epoch" >>)

process_distribute_ncn_vault_rewards == Handler(
  << wr("epoch_state"), rd("config"), rd("ncn"), rd("operator"), rd("vault"),
     wx("vault_ata"), rd("operator_snapshot"), wr("ncn_reward_router"),
     wr("ncn_reward_receiver"), rd("stake_pool_program"), wx("stake_pool"),
     rd("stake_pool_withdraw_authority"), wx("reserve_stake"),
     wx("manager_fee_account"), wx("referrer_pool_tokens_account"),
     wx("pool_mint"), rd("token_program"), rd("system_program") >>,
  << "ncn_fee_group", "epoch" >>)

process_claim_with_payer == Handler(
  << wr("account_payer"), rd("config"), rd("ncn"),
     rd("tip_distribution_config"), wx("tip_distribution_account"),
     wx("claim_status"), wx("claimant"), rd("tip_distribution_program"),
     rd("system_program") >>,
  << "proof", "amount", "bump" >>)

(***************************************************************************)
(* close_epoch_account splits its accounts at 8; the receiver in the rest  *)
(* is taken only for a router.  epoch_marker is created when the epoch     *)
(* state itself closes, dao_wallet is paid from a closed receiver.         *)
(***************************************************************************)
process_close_epoch_account(closing) == Handler(
  << IF closing = "epoch_state" THEN wx("epoch_marker") ELSE rd("epoch_marker"),
     wx("epoch_state"), rd("config"), rd("ncn"), wx("account_to_close"),
     wx("account_payer"),
     IF closing = "router" THEN wx("dao_wallet") ELSE rd("dao_wallet"),
     rd("system_program") >>
  \o (IF closing = "router" THEN << wr("receiver_to_close") >> ELSE << >>),
  << "epoch" >>)

process_admin_set_parameters == Handler(
  << wr("config"), rd("ncn"), sw("ncn_admin") >>,
  << "starting_valid_epoch", "epochs_before_stall",
     "epochs_after_consensus_before_close", "valid_slots_after_consensus" >>)

process_admin_set_config_fees == Handler(
  << wr("config"), rd("ncn"), sw("ncn_admin") >>,
  << "new_block_engine_fee_bps", "base_fee_group", "new_base_fee_wallet",
     "new_base_fee_bps", "ncn_fee_group", "new_ncn_fee_bps" >>)

process_admin_set_new_admin == Handler(
  << wr("config"), rd("ncn"), sw("ncn_admin"), rd("new_admin") >>,
  << "role" >>)

process_admin_set_tie_breaker == Handler(
  << wr("epoch_state"), rd("config"), wr("ballot_box"), rd("ncn"),
     sg("tie_breaker_admin") >>,
  << "meta_merkle_root", "epoch" >>)

process_admin_set_weight == Handler(
  << wr("epoch_state"), rd("ncn"), wr("weight_table"), sw("weight_table_admin") >>,
  << "st_mint", "epoch", "weight" >>)

process_admin_register_st_mint == Handler(
  << rd("config"), rd("ncn"), rd("st_mint"), wr("vault_registry"), sg("admin") >>,
  << "ncn_fee_group", "reward_multiplier_bps", "switchboard_feed",
     "no_feed_weight" >>)

process_admin_set_st_mint == Handler(
  << rd("config"), rd("ncn"), wr("vault_registry"), sg("admin") >>,
  << "st_mint", "ncn_fee_group", "reward_multiplier_bps", "switchboard_feed",
     "no_feed_weight" >>)

(***************************************************************************)
(* The variants of TipRouterInstruction in the order of the enum, each     *)
(* with its fields in the order Borsh reads them.                          *)
(***************************************************************************)
Variant(name, fields) == [name |-> name, fields |-> fields]

GlobalVariants ==
  << Variant("InitializeConfig",
       << "block_engine_fee_bps", "dao_fee_bps", "default_ncn_fee_bps",
          "epochs_before_stall", "epochs_after_consensus_before_close",
          "valid_slots_after_consensus" >>),
     Variant("InitializeVaultRegistry", << >>),
     Variant("ReallocVaultRegistry", << >>),
     Variant("RegisterVault", << >>) >>

SnapshotVariants ==
  << Variant("InitializeEpochState", << "epoch" >>),
     Variant("ReallocEpochState", << "epoch" >>),
     Variant("InitializeWeightTable", << "epoch" >>),
     Variant("ReallocWeightTable", << "epoch" >>),
     Variant("SwitchboardSetWeight", << "st_mint", "epoch" >>),
     Variant("InitializeEpochSnapshot", << "epoch" >>),
     Variant("InitializeOperatorSnapshot", << "epoch" >>),
     Variant("ReallocOperatorSnapshot", << "epoch" >>),
     Variant("SnapshotVaultOperatorDelegation", << "epoch" >>) >>

VoteVariants ==
  << Variant("InitializeBallotBox", << "epoch" >>),
     Variant("ReallocBallotBox", << "epoch" >>),
     Variant("CastVote", << "meta_merkle_root", "epoch" >>),
     Variant("SetMerkleRoot",
       << "proof", "merkle_root", "max_total_claim", "max_num_nodes", "epoch" >>) >>

RouteVariants ==
  << Variant("InitializeBaseRewardRouter", << "epoch" >>),
     Variant("ReallocBaseRewardRouter", << "epoch" >>),
     Variant("InitializeNcnRewardRouter", << "ncn_fee_group", "epoch" >>),
     Variant("RouteBaseRewards", << "max_iterations", "epoch" >>),
     Variant("RouteNcnRewards",
       << "ncn_fee_group", "max_iterations", "epoch" >>),
     Variant("DistributeBaseRewards", << "base_fee_group", "epoch" >>),
     Variant("DistributeBaseNcnRewardRoute", << "ncn_fee_group", "epoch" >>),
     Variant("DistributeNcnOperatorRewards", << "ncn_fee_group", "epoch" >>),
     Variant("DistributeNcnVaultRewards", << "ncn_fee_group", "epoch" >>),
     Variant("ClaimWithPayer", << "proof", "amount", "bump" >>),
     Variant("CloseEpochAccount", << "epoch" >>) >>

AdminVariants ==
  << Variant("AdminSetParameters",
       << "starting_valid_epoch", "epochs_before_stall",
          "epochs_after_consensus_before_close", "valid_slots_after_consensus" >>),
     Variant("AdminSetConfigFees",
       << "new_block_engine_fee_bps", "base_fee_group", "new_base_fee_wallet",
          "new_base_fee_bps", "ncn_fee_group", "new_ncn_fee_bps" >>),
     Variant("AdminSetNewAdmin", << "role" >>),
     Variant("AdminSetTieBreaker", << "meta_merkle_root", "epoch" >>),
     Variant("AdminSetWeight", << "st_mint", "weight", "epoch" >>),
     Variant("AdminRegisterStMint",
       << "ncn_fee_group", "reward_multiplier_bps", "switchboard_feed",
          "no_feed_weight" >>),
     Variant("AdminSetStMint",
       << "st_mint", "ncn_fee_group", "reward_multiplier_bps",
          "switchboard_feed", "no_feed_weight" >>) >>

TipRouterInstruction ==
  GlobalVariants \o SnapshotVariants \o VoteVariants \o RouteVariants
    \o AdminVariants

(***************************************************************************)
(* process_instruction: the handler of a variant.                          *)
(***************************************************************************)
HandlerOf(closing) ==
  [InitializeConfig |-> process_admin_initialize_config,
   InitializeVaultRegistry |-> process_initialize_vault_registry,
   ReallocVaultRegistry |-> process_realloc_vault_registry,
   RegisterVault |-> process_register_vault,
   InitializeEpochState |-> process_initialize_epoch_state,
   ReallocEpochState |-> process_realloc_epoch_state,
   InitializeWeightTable |-> process_initialize_weight_table,
   ReallocWeightTable |-> process_realloc_weight_table,
   SwitchboardSetWeight |-> process_switchboard_set_weight,
   InitializeEpochSnapshot |-> process_initialize_epoch_snapshot,
   InitializeOperatorSnapshot |-> process_initialize_operator_snapshot,
   ReallocOperatorSnapshot |-> process_realloc_operator_snapshot,
   SnapshotVaultOperatorDelegation |-> process_snapshot_vault_operator_delegation,
   InitializeBallotBox |-> process_initialize_ballot_box,
   ReallocBallotBox |-> process_realloc_ballot_box,
   CastVote |-> process_cast_vote, SetMerkleRoot |-> process_set_merkle_root,
   InitializeBaseRewardRouter |-> process_initialize_base_reward_router,
   ReallocBaseRewardRouter |-> process_realloc_base_reward_router,
   InitializeNcnRewardRouter |-> process_initialize_ncn_reward_router,
   RouteBaseRewards |-> process_route_base_rewards,
   RouteNcnRewards |-> process_route_ncn_rewards,
   DistributeBaseRewards |-> process_distribute_base_rewards,
   DistributeBaseNcnRewardRoute |-> process_distribute_base_ncn_reward_route,
   DistributeNcnOperatorRewards |-> process_distribute_ncn_operator_rewards,
   DistributeNcnVaultRewards |-> process_distribute_ncn_vault_rewards,
   ClaimWithPayer |-> process_claim_with_payer,
   CloseEpochAccount |-> process_close_epoch_account(closing),
   AdminSetParameters |-> process_admin_set_parameters,
   AdminSetConfigFees |-> process_admin_set_config_fees,
   AdminSetNewAdmin |-> process_admin_set_new_admin,
   AdminSetTieBreaker |-> process_admin_set_tie_breaker,
   AdminSetWeight |-> process_admin_set_weight,
   AdminRegisterStMint |-> process_admin_register_st_mint,
   AdminSetStMint |-> process_admin_set_st_mint]

(***************************************************************************)
(* process_instruction passes the fields of the variant it matched by      *)
(* position.  Every arm keeps the variant's order but AdminSetWeight's,    *)
(* whose handler takes the epoch before the weight.                        *)
(***************************************************************************)
process_instruction_InOrder(variant) == variant.fields

process_instruction(variant) ==
  IF variant.name = "AdminSetWeight" THEN << "st_mint", "epoch", "weight" >>
                                     ELSE variant.fields
=============================================================================
