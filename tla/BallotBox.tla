------------------------------ MODULE BallotBox ------------------------------
(***************************************************************************)
(* Voting on the meta merkle root of one NCN epoch: the BallotBox account, *)
(* the voting part of the EpochState account, and the handlers that change *)
(* them (cast_vote, admin_set_tie_breaker, set_merkle_root), interleaved   *)
(* with the clock and with admin_set_parameters.  A handler is one atomic  *)
(* transaction; where it returns an error the model has no step.           *)
(*                                                                         *)
(* Every operator has a finalized snapshot, so its stake weights are a     *)
(* constant.  Array positions count from 1 and 0 stands for the sentinel   *)
(* u16::MAX; slots count from the first slot of the ballot box's epoch and *)
(* -1 stands for the sentinel u64::MAX.                                    *)
(***************************************************************************)
EXTENDS Integers, FiniteSets

CONSTANTS
    Operators,       \* operators with an operator snapshot for this epoch
    NoOperator,      \* Pubkey::default(), the operator of an empty vote
    Roots,           \* the non-zero meta merkle roots
    ZeroRoot,        \* Ballot::default(), the root of an invalid ballot
    Components,      \* parts of a StakeWeights: stake_weight and the fee groups
    Stake,           \* the component used for voting, stake_weight
    Weight,          \* Weight[o]: the StakeWeights of o's operator snapshot
    MaxOperators,    \* MAX_OPERATORS, the length of both arrays
    Precision,       \* ONE of PreciseNumber, 10^18 in the library
    SlotsPerEpoch,   \* slots of a cluster epoch
    ValidSlots,      \* values the admin may give valid_slots_after_consensus
    StallEpochs,     \* values the admin may give epochs_before_stall
    MaxSlot,         \* bound on the clock
    MaxUploads       \* bound on the calls of set_merkle_root

(***************************************************************************)
(* The weights of a set S of operators: StakeUnits has one element for     *)
(* each unit of weight that an operator of S has in component c, so its    *)
(* cardinality is the sum of those weights.                                *)
(***************************************************************************)
StakeUnits(c, S) == UNION {{o} \X (1 .. Weight[o][c]) : o \in S}
WeightOf(c, S) == Cardinality(StakeUnits(c, S))

StakeWeights == [Components -> Nat]
Index == 1 .. MaxOperators
NoIndex == 0
NotReached == -1

ASSUME OperatorsAssumption ==
    /\ IsFiniteSet(Operators)
    /\ NoOperator \notin Operators
    /\ Stake \in Components
    /\ Weight \in [Operators -> StakeWeights]
ASSUME RootsAssumption == ZeroRoot \notin Roots
ASSUME LimitsAssumption ==
    /\ MaxOperators \in Nat
    /\ Precision \in Nat /\ Precision > 4
    /\ SlotsPerEpoch \in Nat \ {0}
    /\ ValidSlots \subseteq Nat
    /\ StallEpochs \subseteq Nat
    /\ MaxSlot \in Nat
    /\ MaxUploads \in Nat

VARIABLES
    operator_votes,          \* [Index -> Vote], filled from the front
    ballot_tallies,          \* [Index -> Tally], a wiped tally leaves a hole
    operators_voted,
    unique_ballots,
    slot_consensus_reached,
    winning_ballot,
    epoch_state,             \* the voting fields of the EpochState account
    uploads,                 \* roots that uploaded tip distributions were verified against
    config,                  \* the voting parameters of the Config account
    slot                     \* Clock::get().slot

box == <<operator_votes, ballot_tallies, operators_voted, unique_ballots,
         slot_consensus_reached, winning_ballot>>
vars == <<box, epoch_state, uploads, config, slot>>

ZeroWeights == [c \in Components |-> 0]
EmptyVote == [operator |-> NoOperator, ballot_index |-> NoIndex,
              stake_weights |-> ZeroWeights]
DefaultTally == [ballot |-> ZeroRoot, stake_weights |-> ZeroWeights, tally |-> 0]

Vote == [operator : Operators \cup {NoOperator}, ballot_index : Index \cup {NoIndex},
         stake_weights : StakeWeights]
Tally == [ballot : Roots \cup {ZeroRoot}, stake_weights : StakeWeights, tally : Nat]

\* The type invariant.
TypeOK ==
    /\ operator_votes \in [Index -> Vote]
    /\ ballot_tallies \in [Index -> Tally]
    /\ operators_voted \in Nat
    /\ unique_ballots \in Nat
    /\ slot_consensus_reached \in Nat \cup {NotReached}
    /\ winning_ballot \in Roots \cup {ZeroRoot}
    /\ epoch_state \in [slot_consensus_reached : Nat \cup {NotReached},
                        was_tie_breaker_set : BOOLEAN,
                        voting_tally : Nat, upload_tally : Nat]
    /\ uploads \subseteq Roots \cup {ZeroRoot}
    /\ config \in [valid_slots_after_consensus : ValidSlots, epochs_before_stall : StallEpochs]
    /\ slot \in 0 .. MaxSlot

\* BallotBox::initialize, after update_realloc_ballot_box, with the epoch's
\* snapshot finalized.
Init ==
    /\ operator_votes = [i \in Index |-> EmptyVote]
    /\ ballot_tallies = [i \in Index |-> DefaultTally]
    /\ operators_voted = 0
    /\ unique_ballots = 0
    /\ slot_consensus_reached = NotReached
    /\ winning_ballot = ZeroRoot
    /\ epoch_state = [slot_consensus_reached |-> NotReached, was_tie_breaker_set |-> FALSE,
                      voting_tally |-> 0, upload_tally |-> 0]
    /\ uploads = {}
    /\ config \in [valid_slots_after_consensus : ValidSlots, epochs_before_stall : StallEpochs]
    /\ slot = 0

-----------------------------------------------------------------------------
(* Queries on the ballot box.                                              *)

is_valid(ballot) == ballot # ZeroRoot

is_consensus_reached == slot_consensus_reached # NotReached \/ is_valid(winning_ballot)

tie_breaker_set == slot_consensus_reached = NotReached /\ is_valid(winning_ballot)

is_voting_valid ==
    /\ ~ tie_breaker_set
    /\ is_consensus_reached =>
          slot <= slot_consensus_reached + config.valid_slots_after_consensus

has_ballot(r) == \E i \in Index : is_valid(r) /\ ballot_tallies[i].ballot = r

current_epoch == slot \div SlotsPerEpoch

-----------------------------------------------------------------------------
(* cast_vote                                                               *)

First(S) == CHOOSE i \in S : \A j \in S : i <= j

Add(w, x) == [c \in Components |-> w[c] + x[c]]
Sub(w, x) == [c \in Components |-> w[c] - x[c]]

\* The tally a vote for r is added to: the first one for r, else the first
\* invalid one (BallotTallyFull if there is neither).
TalliesFor(r) == {i \in Index : ballot_tallies[i].ballot = r}
TallySlots(r) == IF TalliesFor(r) # {} THEN TalliesFor(r) ELSE TalliesFor(ZeroRoot)

IncrementOrCreate(r, w) ==
    [ballot_tallies EXCEPT ![First(TallySlots(r))] =
        IF TalliesFor(r) # {}
        THEN [ballot |-> r, stake_weights |-> Add(@.stake_weights, w), tally |-> @.tally + 1]
        ELSE [ballot |-> r, stake_weights |-> w, tally |-> 1]]

\* decrement_tally on tally i of t, which is wiped when nobody votes for it.
Withdraw_KeepWeight(t, i, w) ==
    [t EXCEPT ![i] = IF @.tally = 1 THEN DefaultTally ELSE [@ EXCEPT !.tally = @ - 1]]

Withdraw(t, i, w) ==
    [t EXCEPT ![i] = IF @.tally = 1
                     THEN DefaultTally
                     ELSE [ballot |-> @.ballot, stake_weights |-> Sub(@.stake_weights, w),
                           tally |-> @.tally - 1]]

\* The first position whose vote is o's or is empty (OperatorVotesFull if none).
VoteSlots(o) == {i \in Index : \/ operator_votes[i].operator = o
                               \/ operator_votes[i].ballot_index = NoIndex}

RevoteAllowed_Always == TRUE
RevoteAllowed == ~ is_consensus_reached

RecordVote(o, r) ==
    LET w == Weight[o]
        t == First(TallySlots(r))
        v == First(VoteSlots(o))
        old == operator_votes[v]
        added == IncrementOrCreate(r, w)
        created == IF TalliesFor(r) = {} THEN 1 ELSE 0
    IN  /\ TallySlots(r) # {}
        /\ VoteSlots(o) # {}
        /\ operator_votes' = [operator_votes EXCEPT ![v] =
                                [operator |-> o, ballot_index |-> t, stake_weights |-> w]]
        /\ \/ /\ old.operator = o
              /\ RevoteAllowed
              /\ added[old.ballot_index].tally >= 1
              /\ \A c \in Components :
                    old.stake_weights[c] <= added[old.ballot_index].stake_weights[c]
              /\ ballot_tallies' = Withdraw(added, old.ballot_index, old.stake_weights)
              /\ unique_ballots' = unique_ballots + created
                    - (IF added[old.ballot_index].tally = 1 THEN 1 ELSE 0)
              /\ UNCHANGED operators_voted
           \/ /\ old.operator # o
              /\ ballot_tallies' = added
              /\ unique_ballots' = unique_ballots + created
              /\ operators_voted' = operators_voted + 1

\* a / b >= 2 / 3 in PreciseNumber arithmetic, which rounds down.
TotalStake == WeightOf(Stake, Operators)
IsConsensusShare(weight) ==
    (weight * Precision) \div TotalStake >= (2 * Precision) \div 3

\* max_by_key returns the last of the heaviest tallies.
MaxTally(t) ==
    CHOOSE i \in Index : \A j \in Index :
        \/ t[j].stake_weights[Stake] < t[i].stake_weights[Stake]
        \/ t[j].stake_weights[Stake] = t[i].stake_weights[Stake] /\ j <= i

\* tally_votes on the tallies RecordVote leaves; a total stake of zero is an
\* error (DenominatorIsZero), which reverts the vote.
TallyVotes ==
    LET best == ballot_tallies'[MaxTally(ballot_tallies')]
    IN  IF slot_consensus_reached # NotReached
        THEN UNCHANGED <<slot_consensus_reached, winning_ballot>>
        ELSE /\ TotalStake > 0
             /\ IF IsConsensusShare(best.stake_weights[Stake]) /\ ~ is_valid(winning_ballot)
                THEN /\ slot_consensus_reached' = slot
                     /\ winning_ballot' = best.ballot
                ELSE UNCHANGED <<slot_consensus_reached, winning_ballot>>

\* What EpochState::update_cast_vote and update_set_tie_breaker do to the
\* epoch state's own consensus slot.
MarkConsensus_Latest(es) ==
    IF is_consensus_reached' THEN [es EXCEPT !.slot_consensus_reached = slot] ELSE es
MarkConsensus(es) ==
    IF is_consensus_reached' /\ es.slot_consensus_reached = NotReached
    THEN [es EXCEPT !.slot_consensus_reached = slot]
    ELSE es

\* process_cast_vote: operator o votes for root r.  The zero root is BadBallot.
CastVote(o, r) ==
    /\ is_voting_valid
    /\ is_valid(r)
    /\ RecordVote(o, r)
    /\ TallyVotes
    /\ epoch_state' = [MarkConsensus(epoch_state) EXCEPT !.voting_tally = operators_voted']
    /\ UNCHANGED <<uploads, config, slot>>

-----------------------------------------------------------------------------
(* The other handlers                                                      *)

\* process_admin_set_tie_breaker: only the winning ballot is set, the box's
\* own consensus slot keeps its sentinel.
TieBreakerAllowed_Again == current_epoch >= config.epochs_before_stall
TieBreakerAllowed ==
    /\ ~ is_consensus_reached
    /\ current_epoch >= config.epochs_before_stall

AdminSetTieBreaker(r) ==
    /\ TieBreakerAllowed
    /\ has_ballot(r)
    /\ winning_ballot' = r
    /\ epoch_state' = IF epoch_state.slot_consensus_reached = NotReached
                      THEN [epoch_state EXCEPT !.slot_consensus_reached = slot,
                                               !.was_tie_breaker_set = TRUE]
                      ELSE epoch_state
    /\ UNCHANGED <<operator_votes, ballot_tallies, operators_voted, unique_ballots,
                   slot_consensus_reached, uploads, config, slot>>

\* process_set_merkle_root with a proof that verifies against the winning
\* root: the tip distribution program records the upload.
MerkleRootUploadAllowed_Always == TRUE
MerkleRootUploadAllowed == is_consensus_reached

SetMerkleRoot ==
    /\ MerkleRootUploadAllowed
    /\ epoch_state.upload_tally < MaxUploads
    /\ uploads' = uploads \cup {winning_ballot}
    /\ epoch_state' = [epoch_state EXCEPT !.upload_tally = @ + 1]
    /\ UNCHANGED <<box, config, slot>>

\* process_admin_set_parameters, the two parameters voting reads.
AdminSetParameters ==
    /\ config' \in [valid_slots_after_consensus : ValidSlots, epochs_before_stall : StallEpochs]
    /\ UNCHANGED <<box, epoch_state, uploads, slot>>

Tick ==
    /\ slot < MaxSlot
    /\ slot' = slot + 1
    /\ UNCHANGED <<box, epoch_state, uploads, config>>

Next ==
    \/ \E o \in Operators, r \in Roots \cup {ZeroRoot} : CastVote(o, r)
    \/ \E r \in Roots \cup {ZeroRoot} : AdminSetTieBreaker(r)
    \/ SetMerkleRoot
    \/ AdminSetParameters
    \/ Tick

Spec == Init /\ [][Next]_vars

-----------------------------------------------------------------------------
(* Properties                                                              *)

VotersFor(i) == {o \in Operators : \E v \in Index :
                    /\ operator_votes[v].operator = o
                    /\ operator_votes[v].ballot_index = i}

\* cast_vote: votes fill the array from the front, operators_voted counts
\* them, no operator is recorded twice, and each vote keeps the weights of the
\* operator's snapshot and points at a tally that is still in use: a tally
\* slot wiped and reused by another ballot never inherits a vote.
VotesWellFormed ==
    /\ operators_voted <= MaxOperators
    /\ \A v \in Index : IF v <= operators_voted
                        THEN /\ operator_votes[v].operator \in Operators
                             /\ operator_votes[v].ballot_index \in Index
                             /\ operator_votes[v].stake_weights = Weight[operator_votes[v].operator]
                             /\ is_valid(ballot_tallies[operator_votes[v].ballot_index].ballot)
                        ELSE operator_votes[v] = EmptyVote
    /\ \A v, u \in 1 .. operators_voted :
          operator_votes[v].operator = operator_votes[u].operator => v = u

\* increment_tally, decrement_tally and the wipe: after any sequence of votes
\* and changed votes, every tally is exactly the number and, in each component
\* (stake and fee groups), the weight of the operators whose vote points at it;
\* a ballot has one tally, and no tally in use is without voters.
TallyMatchesVotes ==
    /\ \A i \in Index :
          /\ ballot_tallies[i].tally = Cardinality(VotersFor(i))
          /\ \A c \in Components :
                ballot_tallies[i].stake_weights[c] = WeightOf(c, VotersFor(i))
          /\ is_valid(ballot_tallies[i].ballot) <=> VotersFor(i) # {}
    /\ \A i, j \in Index : is_valid(ballot_tallies[i].ballot)
                            /\ ballot_tallies[i].ballot = ballot_tallies[j].ballot => i = j

\* unique_ballots, kept by hand in two branches of cast_vote, is the number of
\* tallies in use.
UniqueBallotsCounted ==
    unique_ballots = Cardinality({i \in Index : is_valid(ballot_tallies[i].ballot)})

\* get_winning_ballot_tally: a decided box always has a tally for its winner,
\* so neither a late vote nor reward routing fails with BallotTallyNotFoundFull.
WinnerHasTally ==
    is_consensus_reached => /\ is_valid(winning_ballot)
                            /\ TalliesFor(winning_ballot) # {}

\* tally_votes never misses a consensus and never takes a wrong one: a ballot
\* with at least two thirds of the total stake is the winner, recorded with a
\* consensus slot, in every state and not only when it was tallied.
SupermajorityWins ==
    \A i \in Index :
        TotalStake > 0 /\ IsConsensusShare(ballot_tallies[i].stake_weights[Stake])
        => /\ slot_consensus_reached # NotReached
           /\ winning_ballot = ballot_tallies[i].ballot

\* While a consensus slot is recorded the winner keeps two thirds of the
\* stake, whatever votes arrive in the window after consensus.
ConsensusIsKept ==
    slot_consensus_reached # NotReached =>
        /\ TotalStake > 0
        /\ \E i \in Index : /\ ballot_tallies[i].ballot = winning_ballot
                            /\ IsConsensusShare(ballot_tallies[i].stake_weights[Stake])

\* The epoch state's copy of the decision agrees with the ballot box: the same
\* slot after a consensus vote, the tie breaker flag exactly after a tie
\* breaker, and the same number of voters.
EpochStateAgrees ==
    /\ is_consensus_reached <=> epoch_state.slot_consensus_reached # NotReached
    /\ slot_consensus_reached # NotReached =>
          epoch_state.slot_consensus_reached = slot_consensus_reached
    /\ epoch_state.was_tie_breaker_set <=> tie_breaker_set
    /\ epoch_state.voting_tally = operators_voted

\* set_merkle_root: all uploads of the epoch were verified against one root,
\* the winner of the epoch.
UploadsMatchWinner == uploads # {} => is_valid(winning_ballot) /\ uploads = {winning_ballot}

\* set_tie_breaker_ballot: a stalled vote can be resolved as soon as somebody
\* voted, since some root is among the prior votes and stays there.
StallIsResolvable == operators_voted > 0 => \E r \in Roots : has_ballot(r)

\* A decision is final: neither the winner nor the two consensus slots change
\* once a winner is set, by consensus or by the tie breaker.
DecisionIsFinal ==
    [][is_consensus_reached => UNCHANGED <<slot_consensus_reached, winning_ballot,
                                           epoch_state.slot_consensus_reached>>]_vars

\* After a decision no operator's vote changes, so the operators that share
\* the rewards of the winning ballot can only be joined by others; after a tie
\* breaker the box does not change at all.
VotesFrozen ==
    [][is_consensus_reached =>
          /\ \A v \in 1 .. operators_voted : operator_votes'[v] = operator_votes[v]
          /\ tie_breaker_set => UNCHANGED box]_vars

\* Tallies and votes agree, in every component and after any sequence of
\* changed votes, wiped and reused tallies.
VotesAreTallied == TypeOK /\ VotesWellFormed /\ TallyMatchesVotes /\ UniqueBallotsCounted

\* Two thirds of the stake make the winner, and the winner keeps them and its
\* tally whatever arrives after consensus; short of consensus the tie breaker
\* finds a candidate as soon as somebody voted.
ConsensusHolds == SupermajorityWins /\ ConsensusIsKept /\ WinnerHasTally /\ StallIsResolvable
=============================================================================
