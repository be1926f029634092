--------------------------- MODULE EpochLifecycle ---------------------------
(***************************************************************************)
(* The accounts of one NCN epoch, from initialize_epoch_state to the       *)
(* EpochMarker: who may be created, reallocated, written and closed when,  *)
(* and what the EpochState account records of it.  Anybody may send any of *)
(* these instructions at any time.  Stake weights and tallies are left to  *)
(* the modules on snapshots and voting; here a vote either decides the     *)
(* epoch or does not.                                                      *)
(*                                                                         *)
(* An account is a tuple of its kind and its seeds; its length counts      *)
(* units of MAX_REALLOC_BYTES and 0 means that it does not exist.  Slots   *)
(* count from the first slot of the epoch; -1 is the sentinel u64::MAX.    *)
(***************************************************************************)
EXTENDS Integers, FiniteSets

CONSTANTS
    OperatorLimit,   \* operators the NCN may ever have; their indices are 1 .. OperatorLimit
    FeeGroups,       \* NCN fee groups
    Vaults,          \* vaults of the vault registry
    Mints,           \* mints of the vault registry
    Size,            \* Size[kind]: the length an account needs to be initialized
    SlotsPerEpoch,   \* slots of a cluster epoch
    Configs,         \* [valid_slots, stall_epochs, close_epochs] records the admin may set
    LastVoteSlot,    \* bound on the slot of a decision
    MaxSlot          \* bound on the clock

Operators == 1 .. OperatorLimit
NotReached == -1

epoch_state_account == <<"epoch_state">>
weight_table == <<"weight_table">>
epoch_snapshot == <<"epoch_snapshot">>
ballot_box == <<"ballot_box">>
base_reward_router == <<"base_reward_router">>
operator_snapshot(o) == <<"operator_snapshot", o>>
ncn_reward_router(o, g) == <<"ncn_reward_router", o, g>>

OperatorSnapshots == {operator_snapshot(o) : o \in Operators}
NcnRewardRouters == {ncn_reward_router(o, g) : o \in Operators, g \in FeeGroups}
Singles == {weight_table, epoch_snapshot, ballot_box, base_reward_router}
Tracked == Singles \cup OperatorSnapshots \cup NcnRewardRouters
Accounts == Tracked \cup {epoch_state_account}

ASSUME LifecycleAssumption ==
    /\ OperatorLimit \in Nat \ {0}
    /\ IsFiniteSet(Vaults) /\ Vaults # {}
    /\ IsFiniteSet(Mints) /\ Mints # {}
    /\ \A a \in Accounts : Size[a[1]] \in Nat \ {0}
    /\ SlotsPerEpoch \in Nat \ {0}
    /\ Configs \subseteq [valid_slots : Nat, stall_epochs : Nat, close_epochs : Nat]
    /\ LastVoteSlot \in Nat /\ MaxSlot \in Nat

VARIABLES
    length,        \* data_len of each account
    ready,         \* accounts that carry their discriminator
    status,        \* account_status of the EpochState account
    progress,      \* its set_weight, epoch_snapshot and operator_snapshot progress
    decided,       \* its slot_consensus_reached
    is_closing,    \* its is_closing flag
    marker,        \* whether the EpochMarker exists
    weights,       \* mints with a weight in the weight table
    snapshot,      \* operator_count and operators_registered of the epoch snapshot
    delegations,   \* per operator: expected and registered vaults of its snapshot
    voted,         \* whether the ballot box has a vote
    tie_breaker,   \* was_tie_breaker_set
    ncn_operators, \* operator_count of the restaking program's Ncn account
    config,        \* parameters of the Config account
    slot           \* Clock::get().slot

created == <<length, ready, status>>
snapshots == <<weights, snapshot, delegations>>
voting == <<voted, tie_breaker>>
vars == <<created, progress, decided, is_closing, marker, snapshots, voting,
          ncn_operators, config, slot>>

Init ==
    /\ length = [a \in Accounts |-> 0]
    /\ ready = {}
    /\ status = [a \in Accounts |-> "DNE"]
    /\ progress = [set_weight |-> [tally |-> 0, total |-> 0],
                   epoch_snapshot |-> [tally |-> 0, total |-> 0],
                   operator_snapshot |-> [o \in Operators |-> [tally |-> 0, total |-> 0]]]
    /\ decided = NotReached
    /\ is_closing = FALSE
    /\ marker = FALSE
    /\ weights = {}
    /\ snapshot = [operator_count |-> 0, operators_registered |-> 0]
    /\ delegations = [o \in Operators |-> [count |-> 0, registered |-> {}]]
    /\ voted = FALSE
    /\ tie_breaker = FALSE
    /\ ncn_operators \in Operators
    /\ config \in Configs
    /\ slot = 0

Exists(a) == length[a] > 0
load(a) == a \in ready

-----------------------------------------------------------------------------
(* Creation.  initialize_* allocates, realloc_* grows by one unit and      *)
(* initializes the account once it is large enough.                        *)

load_and_check_is_closing_Dropped == load(epoch_state_account)
load_and_check_is_closing == load(epoch_state_account) /\ ~ is_closing

Allocate(a, n) == ~ Exists(a) /\ length' = [length EXCEPT ![a] = n]

\* get_new_size, and should_initialize of the realloc handlers.
Grown(a) == IF length[a] < Size[a[1]] THEN length[a] + 1 ELSE length[a]
Completes(a) == Grown(a) >= Size[a[1]]
MarkReady_NoStatus(a, s) == ready' = ready \cup {a} /\ UNCHANGED status
MarkReady(a, s) == ready' = ready \cup {a} /\ status' = [status EXCEPT ![a] = s]

\* A realloc that still leaves the account too small.
ReallocOnly(a) ==
    /\ Exists(a) /\ ~ load(a) /\ ~ Completes(a)
    /\ length' = [length EXCEPT ![a] = Grown(a)]
    /\ UNCHANGED <<ready, status>>

\* The realloc that initializes the account and reports status s.
ReallocAndInitialize(a, s) ==
    /\ Exists(a) /\ ~ load(a) /\ Completes(a)
    /\ length' = [length EXCEPT ![a] = Grown(a)]
    /\ MarkReady(a, s)

MarkerCheck == ~ marker

InitializeEpochState ==
    /\ MarkerCheck
    /\ Allocate(epoch_state_account, 1)
    /\ UNCHANGED <<ready, status, progress, decided, is_closing, marker, snapshots, voting,
                   ncn_operators, config, slot>>

ReallocEpochState ==
    /\ ReallocOnly(epoch_state_account) \/ ReallocAndInitialize(epoch_state_account, "Created")
    /\ UNCHANGED <<progress, decided, is_closing, marker, snapshots, voting,
                   ncn_operators, config, slot>>

\* initialize_weight_table, initialize_ballot_box, initialize_base_reward_router
InitializeAccount(a) ==
    /\ a \in {weight_table, ballot_box, base_reward_router}
    /\ load_and_check_is_closing
    /\ MarkerCheck
    /\ Allocate(a, 1)
    /\ UNCHANGED <<ready, status, progress, decided, is_closing, marker, snapshots, voting,
                   ncn_operators, config, slot>>

ReallocWeightTable ==
    /\ load(epoch_state_account)
    /\ \/ ReallocOnly(weight_table) /\ UNCHANGED <<progress, weights>>
       \/ /\ ReallocAndInitialize(weight_table, "Created")
          /\ weights' = {}
          /\ progress' = [progress EXCEPT !.set_weight =
                            [tally |-> 0, total |-> Cardinality(Mints)]]
    /\ UNCHANGED <<decided, is_closing, marker, snapshot, delegations, voting,
                   ncn_operators, config, slot>>

\* admin_set_weight and switchboard_set_weight, refused once finalized.
weight_table_finalized == weights = Mints
SetWeight(m) ==
    /\ load(epoch_state_account) /\ load(weight_table)
    /\ ~ weight_table_finalized
    /\ weights' = weights \cup {m}
    /\ progress' = [progress EXCEPT !.set_weight =
                      [tally |-> Cardinality(weights \cup {m}), total |-> Cardinality(Mints)]]
    /\ UNCHANGED <<created, decided, is_closing, marker, snapshot, delegations, voting,
                   ncn_operators, config, slot>>

InitializeEpochSnapshot ==
    /\ load_and_check_is_closing
    /\ MarkerCheck
    /\ load(weight_table) /\ weight_table_finalized
    /\ Allocate(epoch_snapshot, Size["epoch_snapshot"])
    /\ MarkReady(epoch_snapshot, "Created")
    /\ snapshot' = [operator_count |-> ncn_operators, operators_registered |-> 0]
    /\ progress' = [progress EXCEPT !.epoch_snapshot = [tally |-> 0, total |-> ncn_operators]]
    /\ UNCHANGED <<decided, is_closing, marker, weights, delegations, voting,
                   ncn_operators, config, slot>>

-----------------------------------------------------------------------------
(* Operator snapshots                                                      *)

OperatorIsInSnapshot_OffByOne(o) == o <= snapshot.operator_count + 1
OperatorIsInSnapshot(o) == o <= snapshot.operator_count

InitializeOperatorSnapshot(o) ==
    /\ o <= ncn_operators
    /\ load_and_check_is_closing
    /\ MarkerCheck
    /\ load(epoch_snapshot)
    /\ OperatorIsInSnapshot(o)
    /\ Allocate(operator_snapshot(o), 1)
    /\ UNCHANGED <<ready, status, progress, decided, is_closing, marker, snapshots, voting,
                   ncn_operators, config, slot>>

epoch_snapshot_finalized == snapshot.operators_registered = snapshot.operator_count

\* increment_operator_registration (OperatorFinalized when complete), with the
\* epoch state's own count of it.
RegisterOperator(o, tally, total) ==
    /\ ~ epoch_snapshot_finalized
    /\ snapshot' = [snapshot EXCEPT !.operators_registered = @ + 1]
    /\ progress' = [progress EXCEPT !.epoch_snapshot.tally = @ + 1,
                                    !.operator_snapshot[o] = [tally |-> tally, total |-> total]]

\* is_active is what the opt-in states of the restaking program say.
ReallocOperatorSnapshot(o, is_active) ==
    /\ load(epoch_state_account) /\ load(epoch_snapshot)
    /\ \/ ReallocOnly(operator_snapshot(o)) /\ UNCHANGED <<snapshots, progress>>
       \/ /\ ReallocAndInitialize(operator_snapshot(o), "Created")
          /\ delegations' = [delegations EXCEPT ![o] =
                [count |-> IF is_active THEN Cardinality(Vaults) ELSE 0, registered |-> {}]]
          /\ IF is_active
             THEN /\ progress' = [progress EXCEPT !.operator_snapshot[o] =
                                    [tally |-> 0, total |-> Cardinality(Vaults)]]
                  /\ UNCHANGED snapshot
             ELSE RegisterOperator(o, 1, 1)
          /\ UNCHANGED weights
    /\ UNCHANGED <<decided, is_closing, marker, voting, ncn_operators, config, slot>>

DelegationIsNew_Always(o, v) == TRUE
DelegationIsNew(o, v) == v \notin delegations[o].registered

SnapshotVaultOperatorDelegation(o, v) ==
    LET seen == Cardinality(delegations[o].registered)
        tally == progress.operator_snapshot[o].tally + 1
        total == progress.operator_snapshot[o].total
    IN  /\ load(epoch_state_account) /\ load(weight_table)
        /\ load(epoch_snapshot) /\ load(operator_snapshot(o))
        /\ seen # delegations[o].count
        /\ DelegationIsNew(o, v)
        /\ delegations' = [delegations EXCEPT ![o].registered = @ \cup {v}]
        /\ IF seen + 1 = delegations[o].count
           THEN RegisterOperator(o, tally, total)
           ELSE /\ progress' = [progress EXCEPT !.operator_snapshot[o].tally = tally]
                /\ UNCHANGED snapshot
        /\ UNCHANGED <<created, decided, is_closing, marker, weights, voting,
                       ncn_operators, config, slot>>

-----------------------------------------------------------------------------
(* Voting and rewards                                                      *)

ReallocBallotBox ==
    /\ load(epoch_state_account)
    /\ ReallocOnly(ballot_box) \/ ReallocAndInitialize(ballot_box, "Created")
    /\ UNCHANGED <<progress, decided, is_closing, marker, snapshots, voting,
                   ncn_operators, config, slot>>

epoch_of(s) == s \div SlotsPerEpoch

\* A vote of o, which may or may not reach consensus.
VoteNeedsSnapshot == load(epoch_snapshot) /\ epoch_snapshot_finalized

CastVote(o) ==
    /\ load(epoch_state_account) /\ load(ballot_box)
    /\ VoteNeedsSnapshot /\ load(operator_snapshot(o))
    /\ ~ tie_breaker
    /\ decided # NotReached => slot <= decided + config.valid_slots
    /\ voted' = TRUE
    /\ \/ decided = NotReached /\ slot <= LastVoteSlot /\ decided' = slot
       \/ UNCHANGED decided
    /\ UNCHANGED <<created, progress, is_closing, marker, snapshots, tie_breaker,
                   ncn_operators, config, slot>>

\* The tie breaker picks one of the ballots voted for.
AdminSetTieBreaker ==
    /\ load(epoch_state_account) /\ load(ballot_box)
    /\ voted /\ decided = NotReached /\ slot <= LastVoteSlot
    /\ epoch_of(slot) >= config.stall_epochs
    /\ decided' = slot
    /\ tie_breaker' = TRUE
    /\ UNCHANGED <<created, progress, is_closing, marker, snapshots, voted,
                   ncn_operators, config, slot>>

ReallocBaseRewardRouter ==
    /\ load(epoch_state_account)
    /\ \/ ReallocOnly(base_reward_router)
       \/ ReallocAndInitialize(base_reward_router, "CreatedWithReceiver")
    /\ UNCHANGED <<progress, decided, is_closing, marker, snapshots, voting,
                   ncn_operators, config, slot>>

InitializeNcnRewardRouter(o, g) ==
    /\ load_and_check_is_closing
    /\ MarkerCheck
    /\ load(operator_snapshot(o))
    /\ Allocate(ncn_reward_router(o, g), Size["ncn_reward_router"])
    /\ MarkReady(ncn_reward_router(o, g), "CreatedWithReceiver")
    /\ UNCHANGED <<progress, decided, is_closing, marker, snapshots, voting,
                   ncn_operators, config, slot>>

-----------------------------------------------------------------------------
(* close_epoch_account                                                     *)

can_close_epoch_accounts ==
    /\ decided # NotReached
    /\ epoch_of(slot) - epoch_of(decided) >= config.close_epochs

are_all_closed ==
    /\ \A a \in Singles : status[a] = "Closed"
    /\ \A a \in OperatorSnapshots \cup NcnRewardRouters : status[a] \in {"DNE", "Closed"}

CloseEpochAccount(a) ==
    /\ load(epoch_state_account)
    /\ MarkerCheck
    /\ can_close_epoch_accounts
    /\ load(a)
    /\ a = epoch_state_account => are_all_closed
    /\ is_closing' = TRUE
    /\ status' = [status EXCEPT ![a] = "Closed"]
    /\ length' = [length EXCEPT ![a] = 0]
    /\ ready' = ready \ {a}
    /\ marker' = (marker \/ a = epoch_state_account)
    /\ UNCHANGED <<progress, decided, snapshots, voting, ncn_operators, config, slot>>

-----------------------------------------------------------------------------
(* The environment: the restaking program, the admin and the clock         *)

AddOperator ==
    /\ ncn_operators < OperatorLimit
    /\ ncn_operators' = ncn_operators + 1
    /\ UNCHANGED <<created, progress, decided, is_closing, marker, snapshots, voting, config, slot>>

AdminSetParameters ==
    /\ config' \in Configs
    /\ UNCHANGED <<created, progress, decided, is_closing, marker, snapshots, voting,
                   ncn_operators, slot>>

Tick ==
    /\ slot < MaxSlot
    /\ slot' = slot + 1
    /\ UNCHANGED <<created, progress, decided, is_closing, marker, snapshots, voting,
                   ncn_operators, config>>

Next ==
    \/ InitializeEpochState \/ ReallocEpochState
    \/ \E a \in Singles : InitializeAccount(a)
    \/ ReallocWeightTable
    \/ \E m \in Mints : SetWeight(m)
    \/ InitializeEpochSnapshot
    \/ \E o \in Operators : InitializeOperatorSnapshot(o)
    \/ \E o \in Operators, active \in BOOLEAN : ReallocOperatorSnapshot(o, active)
    \/ \E o \in Operators, v \in Vaults : SnapshotVaultOperatorDelegation(o, v)
    \/ ReallocBallotBox
    \/ \E o \in Operators : CastVote(o)
    \/ AdminSetTieBreaker
    \/ ReallocBaseRewardRouter
    \/ \E o \in Operators, g \in FeeGroups : InitializeNcnRewardRouter(o, g)
    \/ \E a \in Accounts : CloseEpochAccount(a)
    \/ AddOperator \/ AdminSetParameters \/ Tick

Spec == Init /\ [][Next]_vars

\* Time passes, and the keeper repeats the cranks that finish and close the
\* accounts of a decided epoch.
Fairness ==
    /\ WF_vars(Tick)
    /\ WF_vars(InitializeAccount(base_reward_router))
    /\ WF_vars(ReallocBaseRewardRouter)
    /\ \A a \in Accounts : WF_vars(CloseEpochAccount(a))
FairSpec == Spec /\ Fairness

-----------------------------------------------------------------------------
(* State of the epoch as the keeper computes it (current_state)            *)

is_complete(p) == p.tally >= p.total
can_start_routing == decided # NotReached /\ slot >= decided + config.valid_slots

SetWeightStage == 1
SnapshotStage == 2
VoteStage == 3
DistributeStage == 4
CloseStage == 5

current_state ==
    IF status[weight_table] = "DNE" \/ ~ is_complete(progress.set_weight) THEN SetWeightStage
    ELSE IF status[epoch_snapshot] = "DNE" \/ ~ is_complete(progress.epoch_snapshot)
    THEN SnapshotStage
    ELSE IF status[ballot_box] = "DNE" \/ ~ can_start_routing THEN VoteStage
    ELSE IF can_close_epoch_accounts THEN CloseStage ELSE DistributeStage

-----------------------------------------------------------------------------
(* Properties                                                              *)

Progress == [tally : Nat, total : Nat]

\* The type invariant, a part of StatusAgrees.
TypeOK ==
    /\ \A a \in Accounts : length[a] \in 0 .. Size[a[1]]
    /\ ready \subseteq Accounts
    /\ status \in [Accounts -> {"DNE", "Created", "CreatedWithReceiver", "Closed"}]
    /\ progress \in [set_weight : Progress, epoch_snapshot : Progress,
                     operator_snapshot : [Operators -> Progress]]
    /\ decided \in Nat \cup {NotReached} /\ is_closing \in BOOLEAN /\ marker \in BOOLEAN
    /\ weights \subseteq Mints
    /\ snapshot \in [operator_count : 0 .. OperatorLimit, operators_registered : 0 .. OperatorLimit]
    /\ delegations \in [Operators -> [count : {0, Cardinality(Vaults)}, registered : SUBSET Vaults]]
    /\ voted \in BOOLEAN /\ tie_breaker \in BOOLEAN
    /\ ncn_operators \in Operators /\ config \in Configs /\ slot \in 0 .. MaxSlot

\* account_status, written by a dozen handlers, tells the truth about every
\* account, also while an account is half allocated and while the epoch closes.
StatusAgrees ==
    /\ TypeOK
    /\ \A a \in Accounts :
          /\ load(a) <=> status[a] \in {"Created", "CreatedWithReceiver"}
          /\ status[a] = "Closed" => ~ Exists(a)

\* When the EpochMarker exists, no account of the epoch does: closing leaves
\* none behind whose rent nobody could recover, a half allocated one included.
NoOrphans == marker => \A a \in Accounts : ~ Exists(a)

finished(o) == /\ status[operator_snapshot(o)] # "DNE"
               /\ Cardinality(delegations[o].registered) = delegations[o].count

\* The two counts of finished operators agree with each other and with the
\* operator snapshots, and an epoch is only decided, and closed, when no operator
\* of its snapshot is missing: consensus is measured against all of the stake.
RegistrationsCounted ==
    /\ snapshot.operators_registered = Cardinality({o \in Operators : finished(o)})
    /\ progress.epoch_snapshot = [tally |-> snapshot.operators_registered,
                                  total |-> snapshot.operator_count]
    /\ \A o \in Operators : finished(o) => is_complete(progress.operator_snapshot[o])
    /\ decided # NotReached \/ is_closing =>
          \A o \in 1 .. snapshot.operator_count : finished(o)

\* cannot_reopen_accounts: an account that was closed is never created again,
\* through initialize_* or through realloc_*, and the marker stays.
ClosedForGood ==
    [][/\ marker => marker'
       /\ \A a \in Accounts : status[a] = "Closed" => length'[a] = 0 /\ status'[a] = "Closed"]_vars

\* "Crank Closes all accounts associated with an epoch": every decided epoch
\* can be closed entirely.
DecidedEpochCloses == (decided # NotReached) ~> marker
=============================================================================
