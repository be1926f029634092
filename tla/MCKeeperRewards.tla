-------------------------- MODULE MCKeeperRewards --------------------------
(* Two winning operators; the first has two vaults and an empty entry      *)
(* between them, and the shares do not divide evenly in either router.     *)
EXTENDS KeeperRewards

FlowBaseFee == [dao |-> 1]
FlowNcnFee == <<5>>
FlowVotes == <<[operator |-> "o1", wins |-> TRUE, weight |-> <<2>>],
               [operator |-> "o2", wins |-> TRUE, weight |-> <<1>>]>>
FlowDelegations ==
    [o1 |-> <<[vault |-> "v1", weight |-> <<1>>], [vault |-> "none", weight |-> <<0>>],
              [vault |-> "v2", weight |-> <<1>>]>>,
     o2 |-> <<[vault |-> "v2", weight |-> <<1>>]>>]
FlowOperatorFee == [o1 |-> 1, o2 |-> 4]

\* SumOf, which the routers and the proofs use, is the sum of the values.
ASSUME SumOfIsSum ==
    \A S \in SUBSET (Operators \cup BaseGroups) : \A f \in [S -> 0 .. 3] :
        SumOf(f) = MapThenSumSet(LAMBDA x : f[x], S)
=============================================================================
