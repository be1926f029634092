----------------------------- MODULE KeeperLoop -----------------------------
(***************************************************************************)
(* run_keeper: the endless loop that walks over the epochs of an NCN and   *)
(* cranks the one it is at, with the KeeperState it caches between turns.  *)
(* Every RPC call may fail; most failures send the loop back to its top    *)
(* with whatever was cached so far.                                        *)
(*                                                                         *)
(* The chain is abstracted to a stage for each epoch: what current_state   *)
(* would say of its accounts, and four stages it has no word for.          *)
(* "none": the epoch state is missing or still too short.  "torn": a close *)
(* crank closed the weight table but not the epoch state.  "completed":    *)
(* the EpochMarker exists.  What a crank does to the accounts is the       *)
(* subject of KeeperCrank.                                                 *)
(***************************************************************************)
EXTENDS Integers

CONSTANTS
    LastEpoch,     \* bound on the epoch of the cluster
    Faulty,        \* sections of the loop whose RPC calls may fail
    CanTear        \* whether the last transaction of a close crank may be lost

Sections == {"progress", "register", "fetch", "update", "create", "crank", "detect_stall"}

ASSUME LoopAssumption ==
    /\ LastEpoch \in Nat \ {0}
    /\ Faulty \subseteq Sections \ {"progress"}   \* get_guaranteed_epoch_and_slot
    /\ CanTear \in BOOLEAN

starting_epoch == 1                 \* handler.epoch
Epochs == starting_epoch .. LastEpoch
NoEpoch == 0                        \* None, and the epoch of KeeperState::default()

Stages == {"SetWeight", "Snapshot", "Vote", "Distribute", "Close"}

VARIABLES
    stage,               \* per epoch: what its accounts on chain are like
    rewards,             \* per epoch: its tips are "unclaimed", "pending" or "distributed"
    cluster_epoch,       \* the epoch of the cluster
    pc,                  \* the section of the loop the keeper is in
    current_epoch,       \* the epoch the keeper works on
    last_current_epoch,  \* the newest epoch it has worked on
    epoch_stall,
    state                \* the KeeperState

chain == <<stage, rewards, cluster_epoch>>
walk == <<current_epoch, last_current_epoch, epoch_stall>>
vars == <<chain, pc, walk, state>>

Init ==
    /\ stage = [e \in Epochs |-> "none"]
    /\ rewards = [e \in Epochs |-> "unclaimed"]
    /\ cluster_epoch = starting_epoch
    /\ pc = "progress"
    /\ current_epoch = starting_epoch
    /\ last_current_epoch = cluster_epoch
    /\ epoch_stall = FALSE
    /\ state = [epoch |-> NoEpoch, address_epoch |-> NoEpoch,
                is_epoch_completed |-> FALSE, epoch_state |-> NoEpoch,
                current_state |-> [epoch |-> NoEpoch, stage |-> "None"]]

-----------------------------------------------------------------------------
(* A. Progress Epoch                                                       *)

progress_epoch_NoWrap ==
    IF cluster_epoch > last_current_epoch THEN cluster_epoch
    ELSE IF state.is_epoch_completed \/ epoch_stall
    THEN IF current_epoch = cluster_epoch THEN cluster_epoch ELSE current_epoch + 1
    ELSE current_epoch
progress_epoch ==
    IF cluster_epoch > last_current_epoch THEN cluster_epoch
    ELSE IF state.is_epoch_completed \/ epoch_stall
    THEN IF current_epoch = cluster_epoch THEN starting_epoch ELSE current_epoch + 1
    ELSE current_epoch

ProgressEpoch ==
    /\ pc = "progress" /\ pc' = "register"
    /\ current_epoch' = progress_epoch
    /\ last_current_epoch' = IF progress_epoch > last_current_epoch
                             THEN progress_epoch ELSE last_current_epoch
    /\ epoch_stall' = FALSE
    /\ UNCHANGED <<chain, state>>

\* check_and_timeout_error and the continue that follows it.
BackToTop == pc' = "progress" /\ UNCHANGED walk
Continue(section) == pc' = section /\ UNCHANGED walk

\* What a call of this section may return.
Result == IF pc \in Faulty THEN BOOLEAN ELSE {TRUE}

(* -1. Register Vaults: what is registered is the subject of VaultRegistry *)
RegisterVaults(ok) ==
    /\ pc = "register"
    /\ IF ok THEN Continue("fetch") ELSE BackToTop
    /\ UNCHANGED <<chain, state>>

-----------------------------------------------------------------------------
(* 0. and 1. Update Keeper State                                           *)

\* update_epoch_state on a state whose addresses are set.  The calls that may
\* fail are, in this order, the one for the marker, the one for the epoch state
\* and those of update_current_state.
get_is_epoch_completed(e) == e \in Epochs /\ stage[e] = "completed"

HasEpochState(e) == e \in Epochs /\ stage[e] \notin {"none", "completed"}

\* "Weight table does not exist"
update_current_state(s, ok) ==
    IF ok /\ stage[s.address_epoch] \in Stages
    THEN [ok |-> TRUE, state |-> [s EXCEPT !.current_state =
                                    [epoch |-> s.address_epoch, stage |-> stage[s.address_epoch]]]]
    ELSE [ok |-> FALSE, state |-> s]

update_epoch_state_IgnoresError(s, marker_ok, account_ok, state_ok) ==
    LET t == [s EXCEPT !.is_epoch_completed = FALSE]
        r == [t EXCEPT !.epoch_state =
                  IF HasEpochState(t.address_epoch) THEN t.address_epoch ELSE NoEpoch]
    IN  IF ~ marker_ok THEN [ok |-> FALSE, state |-> s]
        ELSE IF get_is_epoch_completed(s.epoch)
        THEN [ok |-> TRUE, state |-> [s EXCEPT !.is_epoch_completed = TRUE]]
        ELSE IF ~ account_ok THEN [ok |-> FALSE, state |-> t]
        ELSE IF r.epoch_state = NoEpoch THEN [ok |-> TRUE, state |-> r]
        ELSE [ok |-> TRUE, state |-> update_current_state(r, state_ok).state]
update_epoch_state(s, marker_ok, account_ok, state_ok) ==
    LET t == [s EXCEPT !.is_epoch_completed = FALSE]
        r == [t EXCEPT !.epoch_state =
                  IF HasEpochState(t.address_epoch) THEN t.address_epoch ELSE NoEpoch]
    IN  IF ~ marker_ok THEN [ok |-> FALSE, state |-> s]
        ELSE IF get_is_epoch_completed(s.epoch)
        THEN [ok |-> TRUE, state |-> [s EXCEPT !.is_epoch_completed = TRUE]]
        ELSE IF ~ account_ok THEN [ok |-> FALSE, state |-> t]
        ELSE IF r.epoch_state = NoEpoch THEN [ok |-> TRUE, state |-> r]
        ELSE update_current_state(r, state_ok)

\* fetch: the addresses are set before update_epoch_state runs, with the epoch
\* of the previous fetch; the epoch is set last.
SetAddresses(s, e) ==
    [s EXCEPT !.address_epoch = e]
fetch(s, e, accounts_ok, m, a, u) ==
    LET r == update_epoch_state(SetAddresses(s, e), m, a, u)
    IN  IF ~ accounts_ok THEN [ok |-> FALSE, state |-> s]
        ELSE IF ~ r.ok THEN r
        ELSE [ok |-> TRUE, state |-> [r.state EXCEPT !.epoch = e]]

FetchKeeperState(accounts_ok, m, a, u) ==
    LET r == fetch(state, current_epoch, accounts_ok, m, a, u)
    IN  /\ pc = "fetch"
        /\ IF state.epoch = current_epoch
           THEN Continue("update") /\ UNCHANGED state
           ELSE /\ state' = r.state
                /\ IF r.ok THEN Continue("update") ELSE BackToTop
        /\ UNCHANGED chain

UpdateEpochState(m, a, u) ==
    LET r == update_epoch_state(state, m, a, u)
    IN  /\ pc = "update"
        /\ state' = r.state
        /\ IF r.ok THEN Continue("create") ELSE BackToTop
        /\ UNCHANGED chain

-----------------------------------------------------------------------------
(* 2. Create or Complete State.  create_epoch_state reallocates what is    *)
(* there already and may fail half way.                                    *)

CreateOrComplete(ok) ==
    /\ pc = "create"
    /\ IF state.is_epoch_completed \/ state.epoch_state = NoEpoch
       THEN BackToTop
       ELSE Continue("crank")
    /\ stage' = IF ~ state.is_epoch_completed /\ state.epoch_state = NoEpoch /\ ok
                   /\ stage[state.epoch] = "none"
                THEN [stage EXCEPT ![state.epoch] = "SetWeight"] ELSE stage
    /\ UNCHANGED <<rewards, cluster_epoch, state>>

-----------------------------------------------------------------------------
(* 3. Crank State: the crank of the cached stage, which may do its work,   *)
(* part of it, or fail.  Voting is the operators' business.                *)

\* "done": the crank did all its work; "part": it returned Ok with items left,
\* for it only logs their errors; "error": it failed.
Outcomes == IF pc \in Faulty THEN {"done", "part", "error"} ELSE {"done"}

CrankMoves(cached, outcome) ==
    LET e == state.epoch
    IN  CASE outcome # "done" \/ stage[e] # cached -> UNCHANGED <<stage, rewards>>
          [] cached = "SetWeight" -> /\ stage' = [stage EXCEPT ![e] = "Snapshot"]
                                     /\ UNCHANGED rewards
          [] cached = "Snapshot" -> /\ stage' = [stage EXCEPT ![e] = "Vote"]
                                    /\ UNCHANGED rewards
          [] cached = "Distribute" -> /\ rewards' = [rewards EXCEPT ![e] =
                                            IF @ = "pending" THEN "distributed" ELSE @]
                                      /\ UNCHANGED stage
          [] cached = "Close" -> /\ stage' = [stage EXCEPT ![e] = "completed"]
                                 /\ UNCHANGED rewards
          [] OTHER -> UNCHANGED <<stage, rewards>>

CrankState(outcome) ==
    LET cached == state.current_state.stage
    IN  /\ pc = "crank"
        /\ CrankMoves(cached, outcome)
        /\ IF outcome = "error" THEN BackToTop ELSE Continue("detect_stall")
        /\ UNCHANGED <<cluster_epoch, state>>

\* The transaction that closes the weight table lands, the one that closes the
\* epoch state does not: the crank logs that and returns Ok.
CrankTears ==
    /\ CanTear
    /\ pc = "crank" /\ state.current_state.stage = "Close" /\ stage[state.epoch] = "Close"
    /\ stage' = [stage EXCEPT ![state.epoch] = "torn"]
    /\ Continue("detect_stall")
    /\ UNCHANGED <<rewards, cluster_epoch, state>>

-----------------------------------------------------------------------------
(* E. Detect Stall, from the stage cached before the crank                 *)

get_total_rewards_to_be_distributed(e) == IF rewards[e] = "pending" THEN 10000 ELSE 0

detect_stall ==
    \/ state.current_state.stage = "Vote"
    \/ /\ state.current_state.stage = "Distribute"
       /\ get_total_rewards_to_be_distributed(state.epoch) < 10000

DetectStall(ok) ==
    /\ pc = "detect_stall" /\ pc' = "progress"
    /\ epoch_stall' = IF ok THEN detect_stall ELSE epoch_stall
    /\ UNCHANGED <<chain, current_epoch, last_current_epoch, state>>

-----------------------------------------------------------------------------
(* The cluster, the operators and the claims                               *)

NewEpoch ==
    /\ cluster_epoch < LastEpoch
    /\ cluster_epoch' = cluster_epoch + 1
    /\ UNCHANGED <<stage, rewards, pc, walk, state>>

\* valid_slots_after_consensus have passed since the operators' decision.
ConsensusSettles(e) ==
    /\ stage[e] = "Vote" /\ stage' = [stage EXCEPT ![e] = "Distribute"]
    /\ UNCHANGED <<rewards, cluster_epoch, pc, walk, state>>

ClaimTips(e) ==
    /\ stage[e] = "Distribute" /\ rewards[e] = "unclaimed"
    /\ rewards' = [rewards EXCEPT ![e] = "pending"]
    /\ UNCHANGED <<stage, cluster_epoch, pc, walk, state>>

\* epochs_after_consensus_before_close have passed.
CloseOpens(e) ==
    /\ stage[e] = "Distribute" /\ stage' = [stage EXCEPT ![e] = "Close"]
    /\ UNCHANGED <<rewards, cluster_epoch, pc, walk, state>>

Keeper ==
    \/ ProgressEpoch
    \/ \E ok \in Result : RegisterVaults(ok) \/ CreateOrComplete(ok) \/ DetectStall(ok)
    \/ \E o, m, a, u \in Result : FetchKeeperState(o, m, a, u)
    \/ \E m, a, u \in Result : UpdateEpochState(m, a, u)
    \/ \E outcome \in Outcomes : CrankState(outcome)

Next ==
    \/ Keeper
    \/ CrankTears
    \/ NewEpoch
    \/ \E e \in Epochs : ConsensusSettles(e) \/ ClaimTips(e) \/ CloseOpens(e)

Spec == Init /\ [][Next]_vars

\* The keeper never stops; a section it enters again and again for an epoch
\* does not fail for ever; the cluster moves on, the operators of an epoch
\* decide and its closing time comes.
Succeeds(section, e) ==
    /\ pc = section /\ current_epoch = e
    /\ \/ RegisterVaults(TRUE) \/ FetchKeeperState(TRUE, TRUE, TRUE, TRUE)
       \/ UpdateEpochState(TRUE, TRUE, TRUE) \/ CreateOrComplete(TRUE)
       \/ CrankState("done") \/ DetectStall(TRUE)
Fairness ==
    /\ WF_vars(Keeper) /\ WF_vars(NewEpoch)
    /\ \A section \in Faulty, e \in Epochs : SF_vars(Succeeds(section, e))
    /\ \A e \in Epochs : WF_vars(ConsensusSettles(e)) /\ WF_vars(CloseOpens(e))
FairSpec == Spec /\ Fairness

-----------------------------------------------------------------------------
(* Properties                                                              *)

\* The type invariant.
TypeOK ==
    /\ stage \in [Epochs -> Stages \cup {"none", "torn", "completed"}]
    /\ rewards \in [Epochs -> {"unclaimed", "pending", "distributed"}]
    /\ cluster_epoch \in Epochs /\ current_epoch \in Epochs /\ last_current_epoch \in Epochs
    /\ pc \in Sections
    /\ epoch_stall \in BOOLEAN
    /\ state.epoch \in Epochs \cup {NoEpoch} /\ state.address_epoch \in Epochs \cup {NoEpoch}
    /\ state.is_epoch_completed \in BOOLEAN
    /\ state.epoch_state \in Epochs \cup {NoEpoch}
    /\ state.current_state \in [epoch : Epochs \cup {NoEpoch}, stage : Stages \cup {"None"}]

Order(s) == CASE s = "none" -> 0 [] s = "SetWeight" -> 1 [] s = "Snapshot" -> 2 [] s = "Vote" -> 3
              [] s = "Distribute" -> 4 [] s = "Close" -> 5 [] s = "torn" -> 6 [] s = "completed" -> 7

\* "To ensure that the state is fetched for the correct epoch": what the keeper
\* creates or cranks is what it looked at.  The epoch of its transactions, the
\* epoch whose addresses it read and the epoch of the cached stage agree
\* whichever section failed on the way (fetch excepted), the cached stage is
\* never ahead of the chain, and current_state().expect() does not panic.
CranksWhatItRead ==
    /\ TypeOK
    /\ pc \in {"create", "crank", "detect_stall"} =>
          state.epoch = current_epoch /\ state.address_epoch = current_epoch
    /\ pc \in {"crank", "detect_stall"} => state.current_state.epoch = current_epoch
    /\ pc = "crank" => Order(state.current_state.stage) <= Order(stage[current_epoch])

\* Unless some epoch is torn for ever, the loop completes every epoch, the ones
\* it left as stalled and the ones that were skipped over included; and even
\* then it starts working on each new epoch of the cluster.
EveryEpochCompletes ==
    /\ (\A e \in Epochs : <>(stage[e] = "completed")) \/ <>[](\E e \in Epochs : stage[e] = "torn")
    /\ [](cluster_epoch > last_current_epoch => <>(current_epoch = cluster_epoch))
=============================================================================
