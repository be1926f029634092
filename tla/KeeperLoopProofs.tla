-------------------------- MODULE KeeperLoopProofs --------------------------
(***************************************************************************)
(* Proof that run_keeper, over any number of epochs, cranks the epoch it   *)
(* has read, whichever sections of its loop fail, as long as the calls of  *)
(* KeeperState::fetch do not.                                              *)
(***************************************************************************)
EXTENDS KeeperLoop, TLAPS

USE DEF starting_epoch, NoEpoch

KeeperStates ==
    [epoch : Epochs \cup {NoEpoch}, address_epoch : Epochs \cup {NoEpoch},
     is_epoch_completed : BOOLEAN, epoch_state : Epochs \cup {NoEpoch},
     current_state : [epoch : Epochs \cup {NoEpoch}, stage : Stages \cup {"None"}]]

-----------------------------------------------------------------------------
(* The inductive invariant                                                 *)

\* The loop is never ahead of the cluster, nor its cache of the loop.
WalkInv ==
    /\ current_epoch <= last_current_epoch
    /\ last_current_epoch <= cluster_epoch
    /\ state.epoch <= last_current_epoch

\* The addresses and the epoch of the cache differ only while a fetch has failed
\* at a torn epoch, and until the loop leaves that epoch for a new one.
AddressInv ==
    /\ state.address_epoch # state.epoch =>
          /\ state.epoch # current_epoch
          /\ ~ state.is_epoch_completed /\ ~ epoch_stall
          /\ pc \in {"progress", "register", "fetch"}
    /\ pc \in {"update", "create", "crank", "detect_stall"} => state.epoch = current_epoch
    /\ pc # "progress" => ~ epoch_stall

\* The stage was read from the epoch to be cranked, and only the chain has moved
\* on since.
StageInv ==
    /\ \/ pc = "crank"
       \/ pc = "create" /\ ~ state.is_epoch_completed /\ state.epoch_state # NoEpoch
       => /\ state.current_state.epoch = current_epoch
          /\ state.current_state.stage \in Stages
          /\ Order(state.current_state.stage) <= Order(stage[current_epoch])
    /\ pc = "detect_stall" => state.current_state.epoch = current_epoch

IInv ==
    /\ TypeOK
    /\ state \in KeeperStates
    /\ WalkInv
    /\ AddressInv
    /\ StageInv

-----------------------------------------------------------------------------
(* What the calls that fill the cache return                               *)

LEMMA UpdateCurrentState ==
    ASSUME NEW s \in KeeperStates, NEW ok \in BOOLEAN, s.address_epoch \in Epochs
    PROVE  LET r == update_current_state(s, ok)
           IN  /\ r.ok \in BOOLEAN /\ r.state \in KeeperStates
               /\ r.state.epoch = s.epoch /\ r.state.address_epoch = s.address_epoch
               /\ r.state.is_epoch_completed = s.is_epoch_completed
               /\ r.state.epoch_state = s.epoch_state
               /\ r.ok => /\ r.state.current_state.epoch = s.address_epoch
                          /\ r.state.current_state.stage = stage[s.address_epoch]
                          /\ r.state.current_state.stage \in Stages
<1> DEFINE e == s.address_epoch
           t == [s EXCEPT !.current_state = [epoch |-> e, stage |-> stage[e]]]
<1>1. CASE ok /\ stage[e] \in Stages
  <2>1. update_current_state(s, ok) = [ok |-> TRUE, state |-> t]
    BY <1>1 DEF update_current_state
  <2>2. /\ t \in KeeperStates /\ t.epoch = s.epoch /\ t.address_epoch = e
        /\ t.is_epoch_completed = s.is_epoch_completed /\ t.epoch_state = s.epoch_state
        /\ t.current_state.epoch = e /\ t.current_state.stage = stage[e]
    BY <1>1 DEF KeeperStates
  <2>3. update_current_state(s, ok).ok = TRUE /\ update_current_state(s, ok).state = t
    BY <2>1
  <2> HIDE DEF t
  <2> QED  BY <1>1, <2>2, <2>3
<1>2. CASE ~ (ok /\ stage[e] \in Stages)
  BY <1>2 DEF update_current_state
<1> QED  BY <1>1, <1>2

\* The epoch and the addresses stay; Ok means that the epoch is completed, that
\* it has no epoch state, or that its stage is cached; and when the first two
\* calls succeed an error means that the epoch is not completed.
LEMMA UpdateEpochStateResult ==
    ASSUME NEW s \in KeeperStates,
           NEW m \in BOOLEAN, NEW a \in BOOLEAN, NEW u \in BOOLEAN
    PROVE  LET r == update_epoch_state(s, m, a, u)
           IN  /\ r.ok \in BOOLEAN /\ r.state \in KeeperStates
               /\ r.state.epoch = s.epoch /\ r.state.address_epoch = s.address_epoch
               /\ r.ok /\ ~ r.state.is_epoch_completed /\ r.state.epoch_state # NoEpoch =>
                     /\ r.state.current_state.epoch = s.address_epoch
                     /\ r.state.current_state.stage = stage[s.address_epoch]
                     /\ r.state.current_state.stage \in Stages
               /\ m /\ a /\ ~ r.ok => ~ r.state.is_epoch_completed
<1> DEFINE t == [s EXCEPT !.is_epoch_completed = FALSE]
           q == [t EXCEPT !.epoch_state =
                    IF HasEpochState(t.address_epoch) THEN t.address_epoch ELSE NoEpoch]
           c == [s EXCEPT !.is_epoch_completed = TRUE]
<1>1. /\ t \in KeeperStates /\ t.epoch = s.epoch /\ t.address_epoch = s.address_epoch
      /\ t.is_epoch_completed = FALSE
  BY DEF KeeperStates
<1>2. /\ c \in KeeperStates /\ c.epoch = s.epoch /\ c.address_epoch = s.address_epoch
      /\ c.is_epoch_completed = TRUE
  BY DEF KeeperStates
<1>3. /\ q \in KeeperStates /\ q.epoch = s.epoch /\ q.address_epoch = s.address_epoch
      /\ q.is_epoch_completed = FALSE
      /\ q.epoch_state # NoEpoch => q.address_epoch \in Epochs
  <2> HIDE DEF t
  <2> QED  BY <1>1 DEF KeeperStates, HasEpochState
<1>4. update_epoch_state(s, m, a, u) =
        IF ~ m THEN [ok |-> FALSE, state |-> s]
        ELSE IF get_is_epoch_completed(s.epoch) THEN [ok |-> TRUE, state |-> c]
        ELSE IF ~ a THEN [ok |-> FALSE, state |-> t]
        ELSE IF q.epoch_state = NoEpoch THEN [ok |-> TRUE, state |-> q]
        ELSE update_current_state(q, u)
  BY DEF update_epoch_state
<1> HIDE DEF t, q, c
<1>5. CASE ~ m \/ get_is_epoch_completed(s.epoch) \/ ~ a \/ q.epoch_state = NoEpoch
  <2> DEFINE r == update_epoch_state(s, m, a, u)
  <2>1. \/ r.ok = FALSE /\ r.state = s /\ ~ m
        \/ r.ok = TRUE /\ r.state = c
        \/ r.ok = FALSE /\ r.state = t
        \/ r.ok = TRUE /\ r.state = q /\ q.epoch_state = NoEpoch
    BY <1>4, <1>5
  <2> HIDE DEF r
  <2>2. /\ r.ok \in BOOLEAN /\ r.state \in KeeperStates
        /\ r.state.epoch = s.epoch /\ r.state.address_epoch = s.address_epoch
        /\ r.ok /\ ~ r.state.is_epoch_completed => r.state.epoch_state = NoEpoch
        /\ m /\ ~ r.ok => ~ r.state.is_epoch_completed
    BY <1>1, <1>2, <1>3, <2>1
  <2> QED  BY <2>2 DEF r
<1>6. CASE m /\ ~ get_is_epoch_completed(s.epoch) /\ a /\ q.epoch_state # NoEpoch
  <2>1. update_epoch_state(s, m, a, u) = update_current_state(q, u)
    BY <1>4, <1>6
  <2>2. q.address_epoch \in Epochs
    BY <1>3, <1>6
  <2> DEFINE r == update_current_state(q, u)
  <2>3. /\ r.ok \in BOOLEAN /\ r.state \in KeeperStates
        /\ r.state.epoch = q.epoch /\ r.state.address_epoch = q.address_epoch
        /\ r.state.is_epoch_completed = q.is_epoch_completed
        /\ r.ok => /\ r.state.current_state.epoch = q.address_epoch
                   /\ r.state.current_state.stage = stage[q.address_epoch]
                   /\ r.state.current_state.stage \in Stages
    <3>1. q \in KeeperStates
      BY <1>3
    <3> QED  BY <2>2, <3>1, UpdateCurrentState
  <2> HIDE DEF r
  <2>4. /\ r.ok \in BOOLEAN /\ r.state \in KeeperStates
        /\ r.state.epoch = s.epoch /\ r.state.address_epoch = s.address_epoch
        /\ r.state.is_epoch_completed = FALSE
        /\ r.ok => /\ r.state.current_state.epoch = s.address_epoch
                   /\ r.state.current_state.stage = stage[s.address_epoch]
                   /\ r.state.current_state.stage \in Stages
    BY <1>3, <2>3
  <2>5. update_epoch_state(s, m, a, u) = r
    BY <2>1 DEF r
  <2> QED  BY <2>4, <2>5
<1> QED  BY <1>5, <1>6

-----------------------------------------------------------------------------
(* Every step preserves the invariant                                      *)

LEMMA EpochFacts == /\ Epochs \subseteq Nat /\ 1 \in Epochs /\ 0 \notin Epochs
                    /\ \A e : e \in Epochs <=> e \in Nat /\ 1 <= e /\ e <= LastEpoch
BY LoopAssumption DEF Epochs

LEMMA ResultBoolean == Result \subseteq BOOLEAN
BY DEF Result

\* A step that leaves the cache and the walk alone may only move the stage of an
\* epoch on.
LEMMA Advances ==
    ASSUME NEW e \in Epochs, NEW s \in Stages \cup {"torn", "completed"},
           stage \in [Epochs -> Stages \cup {"none", "torn", "completed"}],
           Order(stage[e]) <= Order(s), stage' = [stage EXCEPT ![e] = s]
    PROVE  /\ stage' \in [Epochs -> Stages \cup {"none", "torn", "completed"}]
           /\ \A f \in Epochs : Order(stage[f]) <= Order(stage'[f])
<1>1. \A x \in Stages \cup {"none", "torn", "completed"} : Order(x) \in Nat
  BY DEF Order, Stages
<1>2. stage' \in [Epochs -> Stages \cup {"none", "torn", "completed"}]
  OBVIOUS
<1>3. ASSUME NEW f \in Epochs  PROVE Order(stage[f]) <= Order(stage'[f])
  <2>1. CASE f = e
    BY <2>1
  <2>2. CASE f # e
    BY <1>1, <2>2
  <2> QED  BY <2>1, <2>2
<1> QED  BY <1>2, <1>3

LEMMA OrderType == \A x \in Stages \cup {"None", "none", "torn", "completed"} :
                      x # "None" => Order(x) \in Nat
BY DEF Order, Stages

LEMMA ProgressEpochInv ==
    ASSUME IInv, ProgressEpoch
    PROVE  IInv'
<1>1. /\ progress_epoch \in Epochs /\ progress_epoch <= cluster_epoch
      /\ progress_epoch > last_current_epoch \/ progress_epoch = current_epoch
         \/ state.is_epoch_completed \/ epoch_stall
  <2>1. /\ cluster_epoch \in Epochs /\ current_epoch \in Epochs /\ last_current_epoch \in Epochs
        /\ current_epoch <= last_current_epoch /\ last_current_epoch <= cluster_epoch
    BY DEF IInv, TypeOK, WalkInv
  <2>2. /\ cluster_epoch \in Nat /\ current_epoch \in Nat /\ last_current_epoch \in Nat
        /\ cluster_epoch >= 1 /\ current_epoch >= 1 /\ last_current_epoch >= 1
        /\ cluster_epoch <= LastEpoch /\ LastEpoch \in Nat
    BY <2>1, EpochFacts, LoopAssumption
  <2>3. CASE cluster_epoch > last_current_epoch
    BY <2>1, <2>2, <2>3 DEF progress_epoch
  <2>4. CASE ~ (cluster_epoch > last_current_epoch)
             /\ ~ (state.is_epoch_completed \/ epoch_stall)
    <3>1. progress_epoch = current_epoch
      BY <2>4 DEF progress_epoch
    <3> QED  BY <2>1, <2>2, <3>1
  <2>5. CASE ~ (cluster_epoch > last_current_epoch)
             /\ (state.is_epoch_completed \/ epoch_stall)
    <3>1. progress_epoch = IF current_epoch = cluster_epoch THEN 1 ELSE current_epoch + 1
      BY <2>5 DEF progress_epoch
    <3>2. progress_epoch \in Epochs /\ progress_epoch <= cluster_epoch
      BY <2>1, <2>2, <3>1, EpochFacts
    <3> QED  BY <2>5, <3>2
  <2> QED  BY <2>3, <2>4, <2>5
<1>2. TypeOK' /\ state' \in KeeperStates
  BY <1>1 DEF ProgressEpoch, IInv, TypeOK, chain, Sections
<1>3. WalkInv'
  BY <1>1, EpochFacts DEF ProgressEpoch, IInv, TypeOK, WalkInv, chain
<1>4. AddressInv'
  BY <1>1, EpochFacts DEF ProgressEpoch, IInv, TypeOK, WalkInv, AddressInv
<1>5. StageInv'
  BY DEF ProgressEpoch, StageInv
<1> QED  BY <1>2, <1>3, <1>4, <1>5 DEF IInv

LEMMA RegisterVaultsInv ==
    ASSUME IInv, NEW ok \in BOOLEAN, RegisterVaults(ok)
    PROVE  IInv'
<1> USE DEF RegisterVaults, Continue, BackToTop, walk, chain
<1>1. TypeOK' /\ state' \in KeeperStates /\ WalkInv'
  BY DEF IInv, TypeOK, WalkInv, Sections
<1>2. AddressInv' /\ StageInv'
  BY DEF IInv, AddressInv, StageInv
<1> QED  BY <1>1, <1>2 DEF IInv

\* Only the torn epoch makes a fetch fail, and what it leaves behind does not
\* look like the state of the epoch the loop is at.
LEMMA FetchInv ==
    ASSUME IInv, FetchKeeperState(TRUE, TRUE, TRUE, TRUE)
    PROVE  IInv'
<1> USE DEF Continue, BackToTop, walk, chain
<1> DEFINE t == SetAddresses(state, current_epoch)
           r == update_epoch_state(t, TRUE, TRUE, TRUE)
           u == [r.state EXCEPT !.epoch = current_epoch]
<1>1. CASE state.epoch = current_epoch
  <2>1. pc = "fetch" /\ pc' = "update" /\ UNCHANGED <<stage, rewards, cluster_epoch, walk, state>>
    BY <1>1 DEF FetchKeeperState
  <2>2. TypeOK' /\ state' \in KeeperStates /\ WalkInv'
    BY <2>1 DEF IInv, TypeOK, WalkInv, Sections
  <2>3. AddressInv' /\ StageInv'
    BY <1>1, <2>1 DEF IInv, AddressInv, StageInv
  <2> QED  BY <2>2, <2>3 DEF IInv
<1>2. CASE state.epoch # current_epoch
  <2>1. /\ t \in KeeperStates /\ t.address_epoch = current_epoch /\ t.epoch = state.epoch
    BY DEF IInv, TypeOK, KeeperStates, SetAddresses
  <2>2. /\ r.ok \in BOOLEAN /\ r.state \in KeeperStates
        /\ r.state.epoch = state.epoch /\ r.state.address_epoch = current_epoch
        /\ ~ r.ok => ~ r.state.is_epoch_completed
    <3> HIDE DEF t
    <3> QED  BY <2>1, UpdateEpochStateResult
  <2>3. /\ pc = "fetch" /\ UNCHANGED <<stage, rewards, cluster_epoch, walk>>
        /\ pc' = IF r.ok THEN "update" ELSE "progress"
        /\ state' = IF r.ok THEN u ELSE r.state
    <3> HIDE DEF r
    <3>1. fetch(state, current_epoch, TRUE, TRUE, TRUE, TRUE) =
            IF ~ r.ok THEN r ELSE [ok |-> TRUE, state |-> u]
      BY DEF fetch, r
    <3> DEFINE q == fetch(state, current_epoch, TRUE, TRUE, TRUE, TRUE)
    <3>2. q.ok = r.ok /\ q.state = IF r.ok THEN u ELSE r.state
      <4>1. CASE r.ok
        <5> HIDE DEF u, q
        <5>1. q = [ok |-> TRUE, state |-> u]
          BY <3>1, <4>1 DEF q
        <5>2. q.ok = TRUE /\ q.state = u
          BY <5>1
        <5>3. r.ok = TRUE
          BY <2>2, <4>1
        <5> QED  BY <5>2, <5>3
      <4>2. CASE ~ r.ok
        BY <3>1, <4>2
      <4> QED  BY <4>1, <4>2
    <3>3. /\ pc = "fetch" /\ UNCHANGED <<stage, rewards, cluster_epoch>>
          /\ state' = q.state
          /\ IF q.ok THEN Continue("update") ELSE BackToTop
      BY <1>2 DEF FetchKeeperState
    <3> HIDE DEF q, u
    <3> QED  BY <3>2, <3>3
  <2> HIDE DEF r
  <2>4. u \in KeeperStates /\ u.epoch = current_epoch /\ u.address_epoch = current_epoch
    BY <2>2 DEF KeeperStates, IInv, TypeOK
  <2> HIDE DEF u
  <2>5. state' \in KeeperStates
    BY <2>2, <2>3, <2>4
  <2>6. TypeOK'
    BY <2>3, <2>5 DEF IInv, TypeOK, KeeperStates, Sections
  <2>7. WalkInv'
    BY <2>2, <2>3, <2>4, EpochFacts DEF IInv, TypeOK, WalkInv
  <2>8. AddressInv'
    <3>1. ~ epoch_stall
      BY <2>3 DEF IInv, AddressInv
    <3>2. CASE r.ok
      BY <2>3, <2>4, <3>1, <3>2 DEF AddressInv
    <3>3. CASE ~ r.ok
      BY <1>2, <2>2, <2>3, <3>1, <3>3 DEF AddressInv
    <3> QED  BY <3>2, <3>3
  <2>9. StageInv'
    BY <2>3 DEF StageInv
  <2> QED  BY <2>5, <2>6, <2>7, <2>8, <2>9 DEF IInv
<1> QED  BY <1>1, <1>2

LEMMA UpdateInv ==
    ASSUME IInv, NEW m \in BOOLEAN, NEW a \in BOOLEAN, NEW u \in BOOLEAN, UpdateEpochState(m, a, u)
    PROVE  IInv'
<1> USE DEF Continue, BackToTop, walk, chain
<1> DEFINE r == update_epoch_state(state, m, a, u)
<1>1. /\ r.ok \in BOOLEAN /\ r.state \in KeeperStates
      /\ r.state.epoch = state.epoch /\ r.state.address_epoch = state.address_epoch
      /\ r.ok /\ ~ r.state.is_epoch_completed /\ r.state.epoch_state # NoEpoch =>
            /\ r.state.current_state.epoch = state.address_epoch
            /\ r.state.current_state.stage = stage[state.address_epoch]
            /\ r.state.current_state.stage \in Stages
  BY UpdateEpochStateResult DEF IInv
<1>2. /\ pc = "update" /\ UNCHANGED <<stage, rewards, cluster_epoch, walk>>
      /\ pc' = IF r.ok THEN "create" ELSE "progress"
      /\ state' = r.state
  BY DEF UpdateEpochState
<1> HIDE DEF r
<1>3. /\ state.epoch = current_epoch /\ state.address_epoch = current_epoch /\ ~ epoch_stall
      /\ current_epoch \in Epochs
  BY <1>2 DEF IInv, AddressInv, TypeOK
<1>4. TypeOK' /\ state' \in KeeperStates
  BY <1>1, <1>2 DEF IInv, TypeOK, KeeperStates, Sections
<1>5. WalkInv' /\ AddressInv'
  BY <1>1, <1>2, <1>3 DEF IInv, WalkInv, AddressInv
<1>6. StageInv'
  <2>1. stage[current_epoch] \in Stages \cup {"none", "torn", "completed"}
    BY <1>3 DEF IInv, TypeOK
  <2>2. Order(stage[current_epoch]) \in Nat
    BY <2>1, OrderType DEF Stages
  <2>3. CASE r.ok /\ ~ r.state.is_epoch_completed /\ r.state.epoch_state # NoEpoch
    <3>1. /\ state'.current_state.epoch = current_epoch'
          /\ state'.current_state.stage \in Stages
          /\ state'.current_state.stage = stage'[current_epoch']
      BY <1>1, <1>2, <1>3, <2>3
    <3>2. Order(state'.current_state.stage) <= Order(stage'[current_epoch'])
      BY <1>2, <2>2, <3>1
    <3> QED  BY <1>2, <3>1, <3>2 DEF StageInv
  <2>4. CASE ~ (r.ok /\ ~ r.state.is_epoch_completed /\ r.state.epoch_state # NoEpoch)
    BY <1>1, <1>2, <2>4 DEF StageInv
  <2> QED  BY <2>3, <2>4
<1> QED  BY <1>4, <1>5, <1>6 DEF IInv

\* The chain moves on under the loop.
LEMMA StageMovesInv ==
    ASSUME IInv, rewards' \in [Epochs -> {"unclaimed", "pending", "distributed"}],
           stage' \in [Epochs -> Stages \cup {"none", "torn", "completed"}],
           \A f \in Epochs : Order(stage[f]) <= Order(stage'[f]),
           cluster_epoch' \in Epochs, cluster_epoch <= cluster_epoch',
           UNCHANGED <<pc, walk, state>>
    PROVE  IInv'
<1> USE DEF walk
<1>1. TypeOK' /\ state' \in KeeperStates /\ AddressInv'
  BY DEF IInv, TypeOK, AddressInv
<1>2. WalkInv'
  BY EpochFacts DEF IInv, WalkInv, TypeOK
<1>3. StageInv'
  <2> SUFFICES ASSUME \/ pc = "crank"
                      \/ /\ pc = "create" /\ ~ state.is_epoch_completed
                         /\ state.epoch_state # NoEpoch
               PROVE  Order(state.current_state.stage) <= Order(stage'[current_epoch])
    BY DEF IInv, StageInv
  <2> DEFINE x == Order(state.current_state.stage)
             y == Order(stage[current_epoch])
             z == Order(stage'[current_epoch])
  <2>1. x <= y /\ y <= z
    BY DEF IInv, StageInv, TypeOK
  <2>2. y \in Nat /\ z \in Nat
    <3>1. /\ stage[current_epoch] \in Stages \cup {"none", "torn", "completed"}
          /\ stage'[current_epoch] \in Stages \cup {"none", "torn", "completed"}
      BY DEF IInv, TypeOK
    <3> QED  BY <3>1, OrderType DEF Stages
  <2>3. x \in Nat
    <3>1. state.current_state.stage \in Stages
      BY DEF IInv, StageInv
    <3> QED  BY <3>1, OrderType DEF Stages
  <2> HIDE DEF x, y, z
  <2> QED  BY <2>1, <2>2, <2>3 DEF x, z
<1> QED  BY <1>1, <1>2, <1>3 DEF IInv

\* A step that ends in a section that asks nothing of the cached stage.
LEMMA SectionEndsInv ==
    ASSUME IInv, pc \in {"create", "crank", "detect_stall"},
           stage' \in [Epochs -> Stages \cup {"none", "torn", "completed"}],
           rewards' \in [Epochs -> {"unclaimed", "pending", "distributed"}],
           UNCHANGED <<cluster_epoch, current_epoch, last_current_epoch, state>>,
           epoch_stall' \in BOOLEAN,
           \/ pc' = "progress"
           \/ pc = "crank" /\ pc' = "detect_stall" /\ UNCHANGED epoch_stall
    PROVE  IInv'
<1>1. state.address_epoch = state.epoch
  BY DEF IInv, AddressInv
<1>2. TypeOK' /\ state' \in KeeperStates /\ WalkInv'
  BY DEF IInv, TypeOK, WalkInv, Sections
<1>3. AddressInv' /\ StageInv'
  BY <1>1 DEF IInv, AddressInv, StageInv
<1> QED  BY <1>2, <1>3 DEF IInv

LEMMA CreateOrCompleteInv ==
    ASSUME IInv, NEW ok \in BOOLEAN, CreateOrComplete(ok)
    PROVE  IInv'
<1> USE DEF Continue, BackToTop, walk
<1>1. /\ pc = "create" /\ UNCHANGED <<rewards, cluster_epoch, walk, state>>
      /\ state.epoch = current_epoch /\ current_epoch \in Epochs
  BY DEF CreateOrComplete, IInv, AddressInv, TypeOK
<1>2. CASE state.is_epoch_completed \/ state.epoch_state = NoEpoch
  <2>1. stage' \in [Epochs -> Stages \cup {"none", "torn", "completed"}]
    BY <1>1 DEF IInv, TypeOK, CreateOrComplete, Stages
  <2>2. pc' = "progress"
    BY <1>2 DEF CreateOrComplete
  <2> QED  BY <1>1, <2>1, <2>2, SectionEndsInv DEF IInv, TypeOK
<1>3. CASE ~ (state.is_epoch_completed \/ state.epoch_state = NoEpoch)
  <2>1. pc' = "crank" /\ UNCHANGED stage
    BY <1>3 DEF CreateOrComplete
  <2>2. TypeOK' /\ state' \in KeeperStates /\ WalkInv'
    BY <1>1, <2>1 DEF IInv, TypeOK, WalkInv, Sections
  <2>3. AddressInv' /\ StageInv'
    BY <1>1, <1>3, <2>1 DEF IInv, AddressInv, StageInv
  <2> QED  BY <2>2, <2>3 DEF IInv
<1> QED  BY <1>2, <1>3

LEMMA CrankInv ==
    ASSUME IInv, (\E outcome \in Outcomes : CrankState(outcome)) \/ CrankTears
    PROVE  IInv'
<1> USE DEF Continue, BackToTop, walk
<1>1. /\ pc = "crank" /\ UNCHANGED <<cluster_epoch, walk, state>>
      /\ pc' \in {"progress", "detect_stall"}
      /\ state.epoch = current_epoch /\ current_epoch \in Epochs
      /\ stage \in [Epochs -> Stages \cup {"none", "torn", "completed"}]
      /\ rewards \in [Epochs -> {"unclaimed", "pending", "distributed"}]
  BY DEF CrankState, CrankTears, IInv, AddressInv, TypeOK
<1>2. /\ stage' \in [Epochs -> Stages \cup {"none", "torn", "completed"}]
      /\ rewards' \in [Epochs -> {"unclaimed", "pending", "distributed"}]
  <2>1. CASE CrankTears
    BY <1>1, <2>1 DEF CrankTears
  <2>2. ASSUME NEW outcome \in Outcomes, CrankState(outcome)
        PROVE  /\ stage' \in [Epochs -> Stages \cup {"none", "torn", "completed"}]
               /\ rewards' \in [Epochs -> {"unclaimed", "pending", "distributed"}]
    <3> DEFINE e == state.epoch
               x == rewards[e]
    <3>1. \/ UNCHANGED <<stage, rewards>>
          \/ \E s \in {"Snapshot", "Vote", "completed"} :
                stage' = [stage EXCEPT ![e] = s] /\ UNCHANGED rewards
          \/ \E w \in {x, "distributed"} :
                rewards' = [rewards EXCEPT ![e] = w] /\ UNCHANGED stage
      BY <2>2, Zenon DEF CrankState, CrankMoves
    <3>2. x \in {"unclaimed", "pending", "distributed"}
      BY <1>1
    <3> QED  BY <1>1, <3>1, <3>2 DEF Stages
  <2> QED  BY <2>1, <2>2
<1> QED  BY <1>1, <1>2, SectionEndsInv DEF IInv, TypeOK

LEMMA DetectStallInv ==
    ASSUME IInv, NEW ok \in BOOLEAN, DetectStall(ok)
    PROVE  IInv'
<1>1. epoch_stall' \in BOOLEAN
  <2>1. detect_stall \in BOOLEAN
    BY DEF detect_stall
  <2>2. epoch_stall' = detect_stall \/ epoch_stall' = epoch_stall
    BY Zenon DEF DetectStall
  <2>3. epoch_stall \in BOOLEAN
    BY DEF IInv, TypeOK
  <2> QED  BY <2>1, <2>2, <2>3, Zenon
<1> QED  BY <1>1, SectionEndsInv DEF DetectStall, chain, IInv, TypeOK

LEMMA EnvironmentInv ==
    ASSUME IInv,
           NewEpoch \/ \E e \in Epochs : ConsensusSettles(e) \/ ClaimTips(e) \/ CloseOpens(e)
    PROVE  IInv'
<1>1. /\ stage \in [Epochs -> Stages \cup {"none", "torn", "completed"}]
      /\ rewards \in [Epochs -> {"unclaimed", "pending", "distributed"}]
      /\ cluster_epoch \in Epochs
  BY DEF IInv, TypeOK
<1>2. cluster_epoch <= cluster_epoch /\ \A f \in Epochs : Order(stage[f]) <= Order(stage[f])
  <2>1. ASSUME NEW f \in Epochs  PROVE Order(stage[f]) <= Order(stage[f])
    <3>1. stage[f] \in Stages \cup {"none", "torn", "completed"}
      BY <1>1
    <3>2. Order(stage[f]) \in Nat
      BY <3>1, OrderType DEF Stages
    <3> QED  BY <3>2
  <2> QED  BY <1>1, <2>1, EpochFacts
<1>3. CASE NewEpoch
  <2>1. cluster_epoch' \in Epochs /\ cluster_epoch <= cluster_epoch'
    BY <1>1, <1>3, EpochFacts, LoopAssumption DEF NewEpoch
  <2> QED  BY <1>1, <1>2, <1>3, <2>1, StageMovesInv DEF NewEpoch
<1>4. ASSUME NEW e \in Epochs, ConsensusSettles(e) \/ CloseOpens(e)
      PROVE  IInv'
  <2>1. PICK s \in {"Distribute", "Close"} :
               stage' = [stage EXCEPT ![e] = s] /\ Order(stage[e]) <= Order(s)
    BY <1>4 DEF ConsensusSettles, CloseOpens, Order
  <2>2. /\ stage' \in [Epochs -> Stages \cup {"none", "torn", "completed"}]
        /\ \A f \in Epochs : Order(stage[f]) <= Order(stage'[f])
    BY <1>1, <2>1, Advances DEF Stages
  <2> QED  BY <1>1, <1>2, <1>4, <2>2, StageMovesInv DEF ConsensusSettles, CloseOpens
<1>5. ASSUME NEW e \in Epochs, ClaimTips(e)
      PROVE  IInv'
  <2>1. rewards' \in [Epochs -> {"unclaimed", "pending", "distributed"}]
    BY <1>1, <1>5 DEF ClaimTips
  <2> QED  BY <1>1, <1>2, <1>5, <2>1, StageMovesInv DEF ClaimTips
<1> QED  BY <1>3, <1>4, <1>5

LEMMA InitInv == Init => IInv
<1> SUFFICES ASSUME Init PROVE IInv
  OBVIOUS
<1>1. state \in KeeperStates
  BY DEF Init, KeeperStates
<1>2. TypeOK
  BY <1>1, EpochFacts DEF Init, TypeOK, Sections, KeeperStates
<1>3. WalkInv /\ AddressInv /\ StageInv
  BY DEF Init, WalkInv, AddressInv, StageInv
<1> QED  BY <1>1, <1>2, <1>3 DEF IInv

LEMMA NextInv ==
    ASSUME "fetch" \notin Faulty, IInv, [Next]_vars
    PROVE  IInv'
<1>1. CASE ProgressEpoch
  BY <1>1, ProgressEpochInv
<1>2. CASE \E ok \in Result : RegisterVaults(ok) \/ CreateOrComplete(ok) \/ DetectStall(ok)
  BY <1>2, ResultBoolean, RegisterVaultsInv, CreateOrCompleteInv, DetectStallInv
<1>3. CASE \E o, m, a, u \in Result : FetchKeeperState(o, m, a, u)
  <2>1. Result = {TRUE}
    BY <1>3 DEF FetchKeeperState, Result
  <2> QED  BY <1>3, <2>1, FetchInv
<1>4. CASE \E m, a, u \in Result : UpdateEpochState(m, a, u)
  BY <1>4, ResultBoolean, UpdateInv
<1>5. CASE (\E outcome \in Outcomes : CrankState(outcome)) \/ CrankTears
  BY <1>5, CrankInv
<1>6. CASE NewEpoch \/ \E e \in Epochs : ConsensusSettles(e) \/ ClaimTips(e) \/ CloseOpens(e)
  BY <1>6, EnvironmentInv
<1>7. CASE UNCHANGED vars
  BY <1>7 DEF vars, chain, walk, IInv, TypeOK, WalkInv, AddressInv, StageInv
<1> QED  BY <1>1, <1>2, <1>3, <1>4, <1>5, <1>6, <1>7 DEF Next, Keeper

-----------------------------------------------------------------------------
(* The theorem                                                             *)

\* "To ensure that the state is fetched for the correct epoch": whatever fails
\* in the sections of run_keeper other than the fetch itself, and with epochs
\* torn by lost transactions, what is created or cranked is the epoch whose
\* accounts were read.
THEOREM KeeperCranksWhatItRead ==
    ASSUME "fetch" \notin Faulty
    PROVE  Spec => []CranksWhatItRead
<1>1. Init => IInv
  BY InitInv
<1>2. IInv /\ [Next]_vars => IInv'
  BY NextInv
<1>3. IInv => CranksWhatItRead
  BY DEF IInv, AddressInv, StageInv, CranksWhatItRead
<1> QED  BY <1>1, <1>2, <1>3, PTL DEF Spec
=============================================================================
