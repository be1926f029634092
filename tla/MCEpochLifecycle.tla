-------------------------- MODULE MCEpochLifecycle --------------------------
(* The smallest instance of EpochLifecycle in which an epoch is decided.   *)
EXTENDS EpochLifecycle

Sizes == [epoch_state |-> 1, weight_table |-> 1, epoch_snapshot |-> 1, ballot_box |-> 1,
          base_reward_router |-> 3, operator_snapshot |-> 3, ncn_reward_router |-> 1]
OneConfig == {[valid_slots |-> 1, stall_epochs |-> 1, close_epochs |-> 1]}
=============================================================================
