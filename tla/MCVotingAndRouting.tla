------------------------ MODULE MCVotingAndRouting -------------------------
(* Three operators with a third of the stake each, so that two decide and  *)
(* the third may vote late; their weights in the two NCN groups differ.    *)
EXTENDS VotingAndRouting, TLC

CONSTANTS o1, o2, o3

Weights(stake, lst, jto) == [stake |-> stake, lst |-> lst, jto |-> jto]
MCWeight == (o1 :> Weights(1, 3, 1)) @@ (o2 :> Weights(1, 1, 1)) @@ (o3 :> Weights(1, 3, 0))
MCBaseFee == [dao |-> 0]
MCNcnFee == <<2, 1>>
MCGroupComponent == <<"lst", "jto">>
MCOperatorFee == [o \in Operators |-> 0]
MCDelegations == [o \in Operators |-> <<>>]
RootSymmetry == Permutations(Roots)
=============================================================================
