----------------------------- MODULE KeeperCrank -----------------------------
(***************************************************************************)
(* What the keeper does to the accounts of one epoch: the transactions of  *)
(* each crank, one by one, on the accounts of EpochLifecycle.  A           *)
(* transaction may be refused by the program, be lost, or land although    *)
(* send_transactions reports an error after its retries; between any two   *)
(* of them votes, new operators and the clock go on.                       *)
(*                                                                         *)
(* `todo` is the rest of the running crank; it is empty while the loop     *)
(* decides what to crank next.  What each crank decides from an account    *)
(* read a moment earlier is decided here when its turn comes.              *)
(*                                                                         *)
(* Either the keeper is the only one who cranks this epoch, or others do   *)
(* too.  In the second case the keeper's transactions are among those that *)
(* anybody may send at any time, and its list is not followed.             *)
(***************************************************************************)
EXTENDS EpochLifecycle, Sequences, SequencesExt

CONSTANT MaxFailures    \* bound on transactions that are lost or misreported

\* create_* sends ceil(SIZE / MAX_REALLOC_BYTES) - 1 reallocations in one
\* transaction, which is one for the sizes used here.
ASSUME CrankAssumption ==
    /\ MaxFailures \in Nat
    /\ \A a \in Accounts :
          Size[a[1]] = IF a[1] \in {"epoch_snapshot", "ncn_reward_router"} THEN 1 ELSE 2

VARIABLES
    alone,      \* whether nobody but the keeper cranks this epoch
    todo,       \* items of the running crank that are left
    failures    \* transactions that were lost or misreported so far

keeper == <<alone, todo, failures>>
allvars == <<vars, keeper>>

KInit == Init /\ alone \in BOOLEAN /\ todo = <<>> /\ failures = 0

-----------------------------------------------------------------------------
(* The cranks as lists of items                                            *)

create(a) == [op |-> "create", account |-> a]
close(a) == [op |-> "close", account |-> a]
set_weight(m) == [op |-> "set_weight", mint |-> m]
delegate(o, v) == [op |-> "delegate", account |-> operator_snapshot(o), operator |-> o, vault |-> v]

\* get_all_operators_in_ncn
all_operators == 1 .. ncn_operators
PerOperator(items(_)) == FlattenSeq([o \in all_operators |-> items(o)])

crank_set_weight ==
    <<create(weight_table)>> \o [i \in 1 .. Cardinality(Mints) |-> set_weight(SetToSeq(Mints)[i])]

SnapshotItems(o) ==
    <<create(operator_snapshot(o))>>
    \o [i \in 1 .. Cardinality(Vaults) |-> delegate(o, SetToSeq(Vaults)[i])]
crank_snapshot == <<create(epoch_snapshot)>> \o PerOperator(SnapshotItems)

crank_vote == <<create(ballot_box)>>

\* The accounts crank_distribute creates; the rewards it moves are in KeeperRewards.
RouterItems(o) ==
    [i \in 1 .. Cardinality(FeeGroups) |-> create(ncn_reward_router(o, SetToSeq(FeeGroups)[i]))]
crank_distribute ==
    <<create(epoch_snapshot), create(base_reward_router)>> \o PerOperator(RouterItems)

CloseRouterItems(o) ==
    [i \in 1 .. Cardinality(FeeGroups) |-> close(ncn_reward_router(o, SetToSeq(FeeGroups)[i]))]
CloseSnapshotItems(o) == <<close(operator_snapshot(o))>>
ClosingItems ==
    PerOperator(CloseRouterItems) \o <<close(base_reward_router), close(ballot_box)>>
    \o PerOperator(CloseSnapshotItems) \o <<close(epoch_snapshot), close(weight_table)>>
crank_close_epoch_accounts_NoLastDistribution == ClosingItems \o <<close(epoch_state_account)>>
crank_close_epoch_accounts ==
    crank_distribute \o ClosingItems \o <<close(epoch_state_account)>>

\* update_current_state fails: "Weight table does not exist".
Torn ==
    /\ load(epoch_state_account) /\ progress.set_weight.tally > 0
    /\ ~ Exists(weight_table)

\* Sections 1 to 3 of the loop.
StartCrank ==
    /\ alone
    /\ todo = <<>> /\ ~ marker /\ ~ Torn
    /\ todo' = IF length[epoch_state_account] < Size["epoch_state"]
               THEN <<create(epoch_state_account)>>
               ELSE CASE current_state = SetWeightStage -> crank_set_weight
                      [] current_state = SnapshotStage -> crank_snapshot
                      [] current_state = VoteStage -> crank_vote
                      [] current_state = DistributeStage -> crank_distribute
                      [] current_state = CloseStage -> crank_close_epoch_accounts
    /\ UNCHANGED <<vars, alone, failures>>

-----------------------------------------------------------------------------
(* Transactions                                                            *)

\* get_or_create_* and close_epoch_account look at the account first.
NothingToDo_ExistsOnly(i) ==
    CASE i.op = "create" -> Exists(i.account)
      [] i.op = "close" -> ~ Exists(i.account)
      [] i.op = "set_weight" -> i.mint \in weights
      [] i.op = "delegate" -> i.vault \in delegations[i.operator].registered
NothingToDo(i) ==
    CASE i.op = "create" -> length[i.account] = Size[i.account[1]]
      [] i.op = "close" -> ~ Exists(i.account)
      [] i.op = "set_weight" -> i.mint \in weights
      [] i.op = "delegate" -> i.vault \in delegations[i.operator].registered

\* create_*: initialize an account that is missing, then reallocate it; one
\* transaction each.
create_epoch_state ==
    IF Exists(epoch_state_account) THEN ReallocEpochState ELSE InitializeEpochState
create_weight_table ==
    IF Exists(weight_table) THEN ReallocWeightTable ELSE InitializeAccount(weight_table)
create_epoch_snapshot == InitializeEpochSnapshot
create_operator_snapshot(o) ==
    IF Exists(operator_snapshot(o))
    THEN \E active \in BOOLEAN : ReallocOperatorSnapshot(o, active)
    ELSE InitializeOperatorSnapshot(o)
create_ballot_box ==
    IF Exists(ballot_box) THEN ReallocBallotBox ELSE InitializeAccount(ballot_box)
create_base_reward_router ==
    IF Exists(base_reward_router)
    THEN ReallocBaseRewardRouter ELSE InitializeAccount(base_reward_router)
create_ncn_reward_router(o, g) == InitializeNcnRewardRouter(o, g)

set_weight_with_st_mint(m) == SetWeight(m)
snapshot_vault_operator_delegation(o, v) == SnapshotVaultOperatorDelegation(o, v)
close_epoch_account(a) == CloseEpochAccount(a)

Create(a) ==
    \/ a = epoch_state_account /\ create_epoch_state
    \/ a = weight_table /\ create_weight_table
    \/ a = epoch_snapshot /\ create_epoch_snapshot
    \/ a = ballot_box /\ create_ballot_box
    \/ a = base_reward_router /\ create_base_reward_router
    \/ \E o \in all_operators : a = operator_snapshot(o) /\ create_operator_snapshot(o)
    \/ \E o \in all_operators, g \in FeeGroups :
          a = ncn_reward_router(o, g) /\ create_ncn_reward_router(o, g)

\* The program refuses a mint or a vault that the registry does not have.
Transaction(i) ==
    \/ i.op = "create" /\ Create(i.account)
    \/ i.op = "close" /\ close_epoch_account(i.account)
    \/ i.op = "set_weight" /\ i.mint \in Mints /\ set_weight_with_st_mint(i.mint)
    \/ /\ i.op = "delegate" /\ i.operator \in Operators /\ i.vault \in Vaults
       /\ snapshot_vault_operator_delegation(i.operator, i.vault)

\* A create_* that has initialized the account goes on to reallocate it.
AfterSuccess ==
    LET i == Head(todo)
    IN  IF i.op = "create" /\ ~ Exists(i.account) /\ Size[i.account[1]] > 1
        THEN todo ELSE Tail(todo)

\* The error of get_or_create_* ends the crank with `?`, or the last
\* distribution crank when it is part of closing; without the operator's
\* snapshot its delegations are skipped; any other error is logged.
AfterError(list) ==
    LET i == Head(list)
        rest == Tail(list)
        aborts == /\ i.op = "create"
                  /\ i.account[1] \notin {"operator_snapshot", "ncn_reward_router"}
        skipped(j) == CASE aborts -> j.op # "close"
                        [] i.op = "create" -> j.op = "delegate" /\ j.account = i.account
                        [] OTHER -> FALSE
    IN  SelectSeq(rest, LAMBDA j : ~ skipped(j))

Skip ==
    /\ todo # <<>> /\ NothingToDo(Head(todo))
    /\ todo' = Tail(todo)
    /\ UNCHANGED <<vars, alone, failures>>

Confirmed ==
    /\ todo # <<>> /\ ~ NothingToDo(Head(todo))
    /\ Transaction(Head(todo))
    /\ todo' = AfterSuccess
    /\ UNCHANGED <<alone, failures>>

Refused ==
    /\ todo # <<>> /\ ~ NothingToDo(Head(todo))
    /\ ~ ENABLED Transaction(Head(todo))
    /\ todo' = AfterError(todo)
    /\ UNCHANGED <<vars, alone, failures>>

\* send_transactions gave up; the transaction did not land, or did.
Fails(landed) ==
    /\ failures < MaxFailures
    /\ todo # <<>> /\ ~ NothingToDo(Head(todo))
    /\ IF landed THEN Transaction(Head(todo)) ELSE UNCHANGED vars
    /\ todo' = AfterError(todo)
    /\ failures' = failures + 1
    /\ UNCHANGED alone

\* The keeper is restarted: what is left of the crank is forgotten.
Restart ==
    /\ failures < MaxFailures /\ todo # <<>>
    /\ todo' = <<>>
    /\ failures' = failures + 1
    /\ UNCHANGED <<vars, alone>>

-----------------------------------------------------------------------------

Keeper == StartCrank \/ Skip \/ Confirmed \/ Refused
World == alone /\ (Tick \/ AddOperator \/ \E o \in Operators : CastVote(o)) /\ UNCHANGED keeper
Anybody == ~ alone /\ Next /\ UNCHANGED keeper

KNext == Keeper \/ (\E landed \in BOOLEAN : Fails(landed)) \/ Restart \/ World \/ Anybody

KSpec == KInit /\ [][KNext]_allvars

\* The keeper loop never ends, and time passes; where others crank too, they
\* repeat what finishes and closes the accounts of a decided epoch.
KFairSpec ==
    /\ KSpec
    /\ WF_allvars(Keeper) /\ WF_allvars(Tick /\ UNCHANGED keeper)
    /\ WF_allvars(~ alone /\ InitializeAccount(base_reward_router) /\ UNCHANGED keeper)
    /\ WF_allvars(~ alone /\ ReallocBaseRewardRouter /\ UNCHANGED keeper)
    /\ \A a \in Accounts : WF_allvars(~ alone /\ CloseEpochAccount(a) /\ UNCHANGED keeper)

-----------------------------------------------------------------------------
(* Properties                                                              *)

\* The keeper loses an epoch (its weight table is gone, its epoch state is not,
\* and no crank is running) only if a transaction of its own was lost.
TornOnlyByFailure == alone /\ Torn /\ todo = <<>> /\ ~ marker => failures > 0

\* A keeper that is alone with an epoch never gets stuck on it, whichever
\* transactions fail and wherever it is restarted: the accounts that voting
\* needs come into being, and once decided the epoch is closed or torn.  With
\* others about, a decided epoch whose base reward router was allocated closes
\* entirely, wherever in the router's life closing begins.
EpochsFinish ==
    /\ alone ~> (marker \/ Torn \/ (decided = NotReached /\ load(ballot_box)))
    /\ (~ alone /\ decided # NotReached /\ Exists(base_reward_router)) ~> marker
=============================================================================
