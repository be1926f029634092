-------------------------- MODULE VotingAndRouting --------------------------
(***************************************************************************)
(* The ballot box and the base reward router of one epoch together: the    *)
(* router reads the votes and the winning tally afresh in every            *)
(* transaction, while votes, the clock, the tie breaker and                *)
(* admin_set_parameters go on.  The operators' NCN routers read neither,   *)
(* and take no step here.                                                  *)
(*                                                                         *)
(* Raising valid_slots_after_consensus reopens a vote whose window is      *)
(* over, and nothing in the code keeps that away from rewards that are     *)
(* half routed: the properties speak of behaviours without it, as `raised` *)
(* remembers.                                                              *)
(***************************************************************************)
EXTENDS BallotBox

CONSTANTS
    BaseGroups, Dao, GroupCount, BaseFee, NcnFee, OperatorFee, MaxBps,
    Delegations, BaseIterations, NcnIterations, Deposits, MaxRewards,
                     \* the constants of RewardRouting
    GroupComponent   \* the component of a StakeWeights that NCN group g is paid by

VARIABLES
    receiver, base, ncn_receiver, ncn, paid, deposited, progress, plan,
    raised           \* history: valid_slots_after_consensus was raised

routing == <<receiver, base, ncn_receiver, ncn, paid, deposited, progress, plan>>
all_vars == <<vars, routing, raised>>

\* get_winning_ballot_tally and the loop over operator_votes: a vote shares in
\* the rewards when it points at the tally of the winning ballot.
WinningIndex == First(TalliesFor(winning_ballot))
VotesNow ==
    [v \in Index |->
        [operator |-> operator_votes[v].operator,
         wins |-> is_valid(winning_ballot) /\ operator_votes[v].ballot_index = WinningIndex,
         weight |-> [g \in 1 .. GroupCount |->
                        operator_votes[v].stake_weights[GroupComponent[g]]]]]

R == INSTANCE RewardRouting WITH Votes <- VotesNow, FinalVotes <- <<>>

ASSUME CombinedAssumption ==
    R!RoutingAssumption /\ GroupComponent \in [1 .. GroupCount -> Components]

CombinedInit == Init /\ R!RoutersInit /\ raised = FALSE

\* "Do not route if voting is still ongoing", asked again in every slice.
RoutingAllowed_Decided == is_consensus_reached
RoutingAllowed == ~ is_voting_valid

Voting ==
    /\ Next
    /\ raised' = \/ raised
                  \/ config'.valid_slots_after_consensus > config.valid_slots_after_consensus
    /\ UNCHANGED routing

Routing ==
    /\ UNCHANGED <<vars, raised>>
    /\ \/ \E n \in Deposits : R!Deposit(n)
       \/ RoutingAllowed /\ \E k \in BaseIterations : R!RouteBaseRewards(k)
       \/ \E b \in BaseGroups : R!DistributeBaseRewards(b)
       \/ \E r \in R!Routers : R!DistributeBaseNcnRewardRoute(r)

CombinedNext == Voting \/ Routing
CombinedSpec == CombinedInit /\ [][CombinedNext]_all_vars

-----------------------------------------------------------------------------
(* Properties                                                              *)

\* What route_base_rewards splits is final: once a lamport was routed, neither
\* the votes nor the winner that the shares follow change, unless the admin has
\* given voters more time; taking time from them is safe.
RoutedVotesAreFinal == [][base.total > 0 /\ ~ raised => UNCHANGED VotesNow]_all_vars

\* route_ncn_fee_group_rewards never takes more from a group than it has, in
\* any slice of a started pass: the pass cannot get stuck for good.
PassNeverSticks == raised \/ R!SlicesNeverFail

\* A pass cut into slices, with votes and admin calls between them, pays what
\* one transaction would have paid when it started.
OneTallyPerPass ==
    [][R!still_routing(base) /\ ~ R!still_routing(base') /\ ~ raised => base' = plan.base]_all_vars
=============================================================================
