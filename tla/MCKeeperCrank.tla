--------------------------- MODULE MCKeeperCrank ---------------------------
EXTENDS KeeperCrank

MCSize == [epoch_state |-> 2, weight_table |-> 2, epoch_snapshot |-> 1,
           operator_snapshot |-> 2, ballot_box |-> 2, base_reward_router |-> 2,
           ncn_reward_router |-> 1]
MCConfigs == {[valid_slots |-> 0, stall_epochs |-> 1, close_epochs |-> 1],
              [valid_slots |-> 1, stall_epochs |-> 1, close_epochs |-> 2]}
=============================================================================
