---------------------------- MODULE MCEpochStake ----------------------------
(* An instance of EpochStake for TLC.  Weights: two mints with a vault      *)
(* each, one feed, and lists that fill up.  Snapshots: two operators and a  *)
(* vault of two tokens that moves them for three epochs.                    *)
EXTENDS EpochStake, TLC

CONSTANTS m1, m2, v1, v2

MCMintOf == (v1 :> m1) @@ (v2 :> m2)
MCVaultWeight == [v \in Vaults |-> [weight |-> 2, group |-> "lst", multiplier |-> 3]]
MCDeposits == [v \in Vaults |-> 2]
=============================================================================
