------------------------ MODULE EpochLifecycleProofs ------------------------
(***************************************************************************)
(* Proofs that the accounts of an NCN epoch, for any operators, vaults,    *)
(* mints, fee groups, account sizes and parameters, keep the properties of *)
(* module EpochLifecycle, and that a keeper does nothing to them that      *)
(* module EpochLifecycle does not allow anybody.                           *)
(***************************************************************************)
EXTENDS KeeperCrank, FiniteSetTheorems, TLAPS

-----------------------------------------------------------------------------
(* The inductive invariant                                                 *)

\* Every status is true of its account, and only closing closes.
StatusInv ==
    /\ \A a \in Accounts :
          /\ load(a) <=> status[a] \in {"Created", "CreatedWithReceiver"}
          /\ load(a) => Exists(a)
          /\ status[a] = "Closed" => ~ Exists(a) /\ is_closing
    /\ status[epoch_state_account] = "Closed" <=> marker

\* Operator snapshots are made after the epoch snapshot and for its operators
\* only; an NCN reward router is never half allocated.
SnapshotInv ==
    /\ status[epoch_snapshot] = "DNE" =>
          /\ ~ voted
          /\ \A o \in Operators : /\ ~ Exists(operator_snapshot(o))
                                  /\ status[operator_snapshot(o)] = "DNE"
    /\ \A o \in Operators :
          Exists(operator_snapshot(o)) \/ status[operator_snapshot(o)] # "DNE"
             => o <= snapshot.operator_count
    /\ \A o \in Operators, g \in FeeGroups :
          Exists(ncn_reward_router(o, g)) => load(ncn_reward_router(o, g))

\* The epoch state counts an operator's delegations as its snapshot does.
DelegationsCounted(o) ==
    \/ /\ delegations[o].count = 0 /\ delegations[o].registered = {}
       /\ is_complete(progress.operator_snapshot[o])
    \/ /\ delegations[o].count = Cardinality(Vaults)
       /\ progress.operator_snapshot[o] =
             [tally |-> Cardinality(delegations[o].registered), total |-> Cardinality(Vaults)]

DelegationInv ==
    \A o \in Operators : status[operator_snapshot(o)] # "DNE" => DelegationsCounted(o)

\* The finished operators are counted, and nobody votes before all are.
CountInv ==
    /\ snapshot.operators_registered <= snapshot.operator_count
    /\ snapshot.operators_registered = Cardinality({o \in Operators : finished(o)})
    /\ progress.epoch_snapshot = [tally |-> snapshot.operators_registered,
                                  total |-> snapshot.operator_count]
    /\ voted => \A o \in 1 .. snapshot.operator_count : finished(o)

\* No decision without a vote, no closing without a decision.
OrderInv ==
    /\ decided # NotReached => voted
    /\ is_closing => decided # NotReached

IInv ==
    /\ TypeOK
    /\ length \in [Accounts -> Nat]
    /\ StatusInv
    /\ SnapshotInv
    /\ DelegationInv
    /\ CountInv
    /\ OrderInv
    /\ NoOrphans

-----------------------------------------------------------------------------
(* Accounts and their sizes                                                *)

\* Program derived addresses of different kinds or seeds are different.
LEMMA AccountsDiffer ==
    /\ epoch_state_account \in Accounts /\ weight_table \in Accounts
    /\ epoch_snapshot \in Accounts /\ ballot_box \in Accounts /\ base_reward_router \in Accounts
    /\ epoch_snapshot # epoch_state_account /\ epoch_snapshot # weight_table
    /\ epoch_snapshot # ballot_box /\ epoch_snapshot # base_reward_router
    /\ epoch_state_account # weight_table
    /\ epoch_state_account # ballot_box /\ epoch_state_account # base_reward_router
    /\ \A o \in Operators :
          /\ operator_snapshot(o) \in Accounts
          /\ operator_snapshot(o) # epoch_state_account
          /\ operator_snapshot(o) # weight_table
          /\ operator_snapshot(o) # epoch_snapshot
          /\ operator_snapshot(o) # ballot_box
          /\ operator_snapshot(o) # base_reward_router
          /\ \A p \in Operators : operator_snapshot(o) = operator_snapshot(p) => o = p
    /\ \A o \in Operators, g \in FeeGroups :
          /\ ncn_reward_router(o, g) \in Accounts
          /\ ncn_reward_router(o, g) # epoch_state_account
          /\ ncn_reward_router(o, g) # weight_table
          /\ ncn_reward_router(o, g) # epoch_snapshot
          /\ ncn_reward_router(o, g) # ballot_box
          /\ ncn_reward_router(o, g) # base_reward_router
          /\ \A p \in Operators : ncn_reward_router(o, g) # operator_snapshot(p)
BY DEF Accounts, Tracked, Singles, OperatorSnapshots, NcnRewardRouters, epoch_state_account,
       weight_table, epoch_snapshot, ballot_box, base_reward_router, operator_snapshot,
       ncn_reward_router

\* There are no other accounts.
LEMMA AccountKinds ==
    \A a \in Accounts :
        \/ a = epoch_state_account
        \/ a \in Singles
        \/ \E o \in Operators : a = operator_snapshot(o)
        \/ \E o \in Operators, g \in FeeGroups : a = ncn_reward_router(o, g)
BY DEF Accounts, Tracked, OperatorSnapshots, NcnRewardRouters

\* Size is that of the account's kind, and at least one unit.
LEMMA SizeFacts ==
    /\ \A a \in Accounts : Size[a[1]] \in Nat /\ Size[a[1]] >= 1
    /\ epoch_snapshot[1] = "epoch_snapshot"
    /\ \A o \in Operators, g \in FeeGroups : ncn_reward_router(o, g)[1] = "ncn_reward_router"
BY LifecycleAssumption DEF epoch_snapshot, ncn_reward_router

\* A reallocation never grows an account beyond its size.
LEMMA GrownInBounds ==
    ASSUME NEW a \in Accounts, TypeOK, Exists(a)
    PROVE  Grown(a) \in 1 .. Size[a[1]]
BY SizeFacts DEF TypeOK, Exists, Grown

-----------------------------------------------------------------------------
(* Counting operators                                                      *)

LEMMA OperatorsFinite ==
    /\ IsFiniteSet(Operators)
    /\ \A S \in SUBSET Operators : IsFiniteSet(S) /\ Cardinality(S) \in Nat
    /\ \A n \in 0 .. OperatorLimit : IsFiniteSet(1 .. n) /\ Cardinality(1 .. n) = n
<1>1. OperatorLimit \in Nat
  BY LifecycleAssumption
<1>2. ASSUME NEW n \in Nat  PROVE IsFiniteSet(1 .. n) /\ Cardinality(1 .. n) = n
  BY FS_Interval
<1>3. IsFiniteSet(Operators)
  BY <1>1, <1>2 DEF Operators
<1>4. ASSUME NEW S \in SUBSET Operators  PROVE IsFiniteSet(S) /\ Cardinality(S) \in Nat
  BY <1>3, FS_Subset, FS_CardinalityType
<1> QED  BY <1>1, <1>2, <1>3, <1>4

LEMMA VaultsFinite ==
    /\ Cardinality(Vaults) \in Nat \ {0}
    /\ \A S \in SUBSET Vaults : IsFiniteSet(S) /\ Cardinality(S) \in Nat
    /\ \A S \in SUBSET Vaults, v \in Vaults :
          v \notin S => Cardinality(S \cup {v}) = Cardinality(S) + 1
<1>1. IsFiniteSet(Vaults) /\ Vaults # {}
  BY LifecycleAssumption
<1>2. Cardinality(Vaults) \in Nat /\ Cardinality(Vaults) # 0
  BY <1>1, FS_CardinalityType, FS_EmptySet
<1>3. ASSUME NEW S \in SUBSET Vaults  PROVE IsFiniteSet(S) /\ Cardinality(S) \in Nat
  BY <1>1, FS_Subset, FS_CardinalityType
<1>4. ASSUME NEW S \in SUBSET Vaults, NEW v \in Vaults, v \notin S
      PROVE  Cardinality(S \cup {v}) = Cardinality(S) + 1
  BY <1>3, <1>4, FS_AddElement
<1> QED  BY <1>2, <1>3, <1>4

\* One more operator is finished.
LEMMA OneMoreFinished ==
    ASSUME NEW S \in SUBSET Operators, NEW o \in Operators, o \notin S
    PROVE  Cardinality(S \cup {o}) = Cardinality(S) + 1
BY OperatorsFinite, FS_AddElement

\* The epoch snapshot is finalized only if every operator in it is finished.
LEMMA FinalizedMeansAll ==
    ASSUME TypeOK, CountInv, SnapshotInv, epoch_snapshot_finalized
    PROVE  \A o \in 1 .. snapshot.operator_count : finished(o)
<1> DEFINE F == {o \in Operators : finished(o)}
           n == snapshot.operator_count
<1>1. n \in 0 .. OperatorLimit /\ OperatorLimit \in Nat
  BY LifecycleAssumption DEF TypeOK
<1>2. F \subseteq 1 .. n
  BY <1>1 DEF SnapshotInv, finished, Operators
<1>3. Cardinality(F) = n
  BY DEF CountInv, epoch_snapshot_finalized
<1>4. IsFiniteSet(1 .. n) /\ Cardinality(1 .. n) = n
  BY <1>1, OperatorsFinite
<1>5. F = 1 .. n
  <2> HIDE DEF F, n
  <2> QED  BY <1>2, <1>3, <1>4, FS_Subset
<1> QED  BY <1>5

-----------------------------------------------------------------------------
(* Steps that change one account                                           *)

\* initialize_* and the reallocations that leave an account too small.
Enlarges(a, n) ==
    /\ n \in 1 .. Size[a[1]]
    /\ status[a] # "Closed" /\ ~ marker
    /\ \A o \in Operators, g \in FeeGroups : a # ncn_reward_router(o, g)
    /\ \A o \in Operators : a = operator_snapshot(o) =>
          o <= snapshot.operator_count /\ status[epoch_snapshot] # "DNE"
    /\ length' = [length EXCEPT ![a] = n]
    /\ UNCHANGED <<ready, status, progress, decided, is_closing, marker, snapshots, voting,
                   ncn_operators, config, slot>>

LEMMA EnlargesInv ==
    ASSUME IInv, NEW a \in Accounts, NEW n, Enlarges(a, n)
    PROVE  IInv'
<1> USE DEF Exists, load, snapshots, voting
<1>1. n \in Nat /\ n > 0 /\ length' \in [Accounts -> Nat]
      /\ length'[a] = n /\ \A b \in Accounts : b # a => length'[b] = length[b]
  BY SizeFacts DEF IInv, Enlarges
<1>2. TypeOK'
  <2>1. \A b \in Accounts : length'[b] \in 0 .. Size[b[1]]
    BY SizeFacts DEF IInv, Enlarges, TypeOK
  <2> QED  BY <2>1 DEF IInv, TypeOK, Enlarges
<1>3. StatusInv'
  BY <1>1 DEF IInv, StatusInv, Enlarges
<1>4. SnapshotInv'
  BY <1>1, AccountsDiffer DEF IInv, SnapshotInv, Enlarges
<1>5. DelegationInv' /\ CountInv' /\ OrderInv'
  BY DEF IInv, Enlarges, DelegationInv, DelegationsCounted, CountInv, OrderInv, finished,
         is_complete
<1>6. NoOrphans'
  BY DEF NoOrphans, Enlarges
<1> QED  BY <1>1, <1>2, <1>3, <1>4, <1>5, <1>6 DEF IInv

\* The step that gives an account its discriminator and reports its status.
Initializes(a, n, s) ==
    /\ n \in 1 .. Size[a[1]]
    /\ status[a] = "DNE" /\ ~ marker
    /\ s \in {"Created", "CreatedWithReceiver"}
    /\ length' = [length EXCEPT ![a] = n]
    /\ MarkReady(a, s)
    /\ UNCHANGED <<decided, is_closing, marker, voting, ncn_operators, config, slot>>

\* The accounts themselves stay well described.
LEMMA InitializesStatus ==
    ASSUME IInv, NEW a \in Accounts, NEW n, NEW s, Initializes(a, n, s)
    PROVE  /\ length' \in [Accounts -> Nat]
           /\ length'[a] > 0 /\ \A b \in Accounts : b # a => length'[b] = length[b]
           /\ status'[a] = s /\ \A b \in Accounts : b # a => status'[b] = status[b]
           /\ \A b \in Accounts : length'[b] \in 0 .. Size[b[1]]
           /\ ready' \subseteq Accounts
           /\ status' \in [Accounts -> {"DNE", "Created", "CreatedWithReceiver", "Closed"}]
           /\ StatusInv' /\ OrderInv' /\ NoOrphans'
<1> USE DEF Exists, load, voting, MarkReady
<1>1. /\ length' \in [Accounts -> Nat]
      /\ length'[a] = n /\ n \in Nat /\ n > 0
      /\ \A b \in Accounts : b # a => length'[b] = length[b]
  BY SizeFacts DEF IInv, Initializes
<1>2. /\ status'[a] = s /\ \A b \in Accounts : b # a => status'[b] = status[b]
      /\ status' \in [Accounts -> {"DNE", "Created", "CreatedWithReceiver", "Closed"}]
  BY DEF IInv, TypeOK, Initializes
<1>3. \A b \in Accounts : length'[b] \in 0 .. Size[b[1]]
  BY <1>1 DEF IInv, TypeOK, Initializes
<1>4. ready' \subseteq Accounts
  BY DEF IInv, TypeOK, Initializes
<1>5. StatusInv'
  <2>1. ASSUME NEW b \in Accounts
        PROVE  /\ load(b)' <=> status'[b] \in {"Created", "CreatedWithReceiver"}
               /\ load(b)' => Exists(b)'
               /\ status'[b] = "Closed" => ~ Exists(b)' /\ is_closing'
    <3>1. CASE b = a
      BY <3>1, <1>1, <1>2 DEF Initializes
    <3>2. CASE b # a
      BY <3>2, <1>1, <1>2 DEF IInv, StatusInv, Initializes
    <3> QED  BY <3>1, <3>2
  <2>2. status'[epoch_state_account] = "Closed" <=> marker'
    BY <1>2, AccountsDiffer DEF IInv, StatusInv, Initializes
  <2> QED  BY <2>1, <2>2 DEF StatusInv
<1>6. OrderInv' /\ NoOrphans'
  BY DEF IInv, OrderInv, NoOrphans, Initializes
<1> QED  BY <1>1, <1>2, <1>3, <1>4, <1>5, <1>6

\* Accounts other than the snapshots do not touch what the snapshots count.
LEMMA InitializesOther ==
    ASSUME IInv, NEW a \in Accounts, NEW n, NEW s, Initializes(a, n, s), TypeOK',
           a # epoch_snapshot, \A o \in Operators : a # operator_snapshot(o),
           UNCHANGED <<snapshot, delegations, progress.epoch_snapshot,
                       progress.operator_snapshot>>
    PROVE  IInv'
<1> USE DEF Exists, load, voting
<1>1. /\ StatusInv' /\ OrderInv' /\ NoOrphans' /\ length' \in [Accounts -> Nat]
      /\ status'[epoch_snapshot] = status[epoch_snapshot]
      /\ \A o \in Operators : /\ length'[operator_snapshot(o)] = length[operator_snapshot(o)]
                              /\ status'[operator_snapshot(o)] = status[operator_snapshot(o)]
  BY InitializesStatus, AccountsDiffer
<1>2. UNCHANGED <<voted, decided, is_closing>>
  BY DEF Initializes
<1>3. SnapshotInv'
  <2>1. \A o \in Operators, g \in FeeGroups :
          Exists(ncn_reward_router(o, g))' => load(ncn_reward_router(o, g))'
    BY InitializesStatus, AccountsDiffer DEF IInv, SnapshotInv, Initializes, MarkReady
  <2> QED  BY <1>1, <1>2, <2>1 DEF IInv, SnapshotInv
<1>4. DelegationInv'
  BY <1>1 DEF IInv, DelegationInv, DelegationsCounted, is_complete
<1>5. CountInv'
  <2>1. \A o \in Operators : finished(o)' <=> finished(o)
    BY <1>1 DEF finished
  <2>2. {o \in Operators : finished(o)}' = {o \in Operators : finished(o)}
    BY <2>1
  <2>3. 1 .. snapshot.operator_count \subseteq Operators
    BY LifecycleAssumption DEF IInv, TypeOK, Operators
  <2> QED  BY <1>2, <2>1, <2>2, <2>3 DEF IInv, CountInv
<1> QED  BY <1>1, <1>3, <1>4, <1>5 DEF IInv

-----------------------------------------------------------------------------
(* Every instruction preserves the invariant                               *)

\* An account that is being allocated has no status yet, and an account that
\* exists keeps the marker away.
LEMMA ExistingIsOpen ==
    ASSUME IInv, NEW a \in Accounts, Exists(a)
    PROVE  status[a] # "Closed" /\ ~ marker /\ (~ load(a) => status[a] = "DNE")
BY DEF IInv, StatusInv, NoOrphans, TypeOK

LEMMA MissingIsNew ==
    ASSUME IInv, NEW a \in Accounts, ~ Exists(a), ~ is_closing
    PROVE  status[a] = "DNE"
BY DEF IInv, StatusInv, TypeOK

LEMMA ReallocOnlyInv ==
    ASSUME IInv, NEW a \in Accounts, ReallocOnly(a),
           UNCHANGED <<progress, decided, is_closing, marker, snapshots, voting,
                       ncn_operators, config, slot>>
    PROVE  IInv'
<1>1. status[a] # "Closed" /\ ~ marker /\ Exists(a) /\ ~ load(a)
  BY ExistingIsOpen DEF ReallocOnly
<1>2. Grown(a) \in 1 .. Size[a[1]]
  BY <1>1, GrownInBounds DEF IInv
<1>3. \A o \in Operators, g \in FeeGroups : a # ncn_reward_router(o, g)
  BY <1>1 DEF IInv, SnapshotInv
<1>4. \A o \in Operators : a = operator_snapshot(o) =>
          o <= snapshot.operator_count /\ status[epoch_snapshot] # "DNE"
  BY <1>1 DEF IInv, SnapshotInv
<1>5. Enlarges(a, Grown(a))
  BY <1>1, <1>2, <1>3, <1>4 DEF Enlarges, ReallocOnly
<1> QED  BY <1>5, EnlargesInv

LEMMA ReallocInitializes ==
    ASSUME IInv, NEW a \in Accounts, NEW s \in {"Created", "CreatedWithReceiver"},
           ReallocAndInitialize(a, s),
           UNCHANGED <<decided, is_closing, marker, voting, ncn_operators, config, slot>>
    PROVE  Initializes(a, Grown(a), s)
<1>1. status[a] = "DNE" /\ ~ marker /\ Exists(a)
  BY ExistingIsOpen DEF ReallocAndInitialize
<1>2. Grown(a) \in 1 .. Size[a[1]]
  BY <1>1, GrownInBounds DEF IInv
<1> QED  BY <1>1, <1>2 DEF Initializes, ReallocAndInitialize

\* realloc_* of an account whose initialization changes nothing else.
LEMMA ReallocInv ==
    ASSUME IInv, NEW a \in Accounts, NEW s \in {"Created", "CreatedWithReceiver"},
           a # epoch_snapshot, \A o \in Operators : a # operator_snapshot(o),
           ReallocOnly(a) \/ ReallocAndInitialize(a, s),
           UNCHANGED <<progress, decided, is_closing, marker, snapshots, voting,
                       ncn_operators, config, slot>>
    PROVE  IInv'
<1>1. CASE ReallocOnly(a)
  BY <1>1, ReallocOnlyInv
<1>2. CASE ReallocAndInitialize(a, s)
  <2>1. Initializes(a, Grown(a), s)
    BY <1>2, ReallocInitializes
  <2>2. TypeOK'
    BY <2>1, InitializesStatus DEF IInv, TypeOK, snapshots, voting
  <2> QED  BY <2>1, <2>2, InitializesOther DEF snapshots
<1> QED  BY <1>1, <1>2

LEMMA InitializeEpochStateInv ==
    ASSUME IInv, InitializeEpochState
    PROVE  IInv'
<1>1. Enlarges(epoch_state_account, 1)
  <2>1. status[epoch_state_account] # "Closed" /\ ~ marker
    BY DEF IInv, StatusInv, InitializeEpochState, MarkerCheck
  <2> QED  BY <2>1, AccountsDiffer, SizeFacts DEF Enlarges, InitializeEpochState, Allocate
<1> QED  BY <1>1, AccountsDiffer, EnlargesInv

LEMMA InitializeAccountInv ==
    ASSUME IInv, NEW a, InitializeAccount(a)
    PROVE  IInv'
<1>1. a \in Accounts
  BY AccountsDiffer DEF InitializeAccount
<1>2. Enlarges(a, 1)
  <2>1. status[a] # "Closed" /\ ~ marker
    BY <1>1, MissingIsNew
    DEF InitializeAccount, load_and_check_is_closing, Allocate, MarkerCheck
  <2> QED  BY <1>1, <2>1, AccountsDiffer, SizeFacts DEF Enlarges, InitializeAccount, Allocate
<1> QED  BY <1>1, <1>2, EnlargesInv

LEMMA InitializeOperatorSnapshotInv ==
    ASSUME IInv, NEW o \in Operators, InitializeOperatorSnapshot(o)
    PROVE  IInv'
<1> DEFINE a == operator_snapshot(o)
<1>1. a \in Accounts
  BY AccountsDiffer
<1>2. status[a] # "Closed" /\ ~ marker
  BY <1>1, MissingIsNew
  DEF InitializeOperatorSnapshot, load_and_check_is_closing, Allocate, MarkerCheck
<1>3. o <= snapshot.operator_count
  BY DEF InitializeOperatorSnapshot, OperatorIsInSnapshot
<1>4. status[epoch_snapshot] # "DNE"
  BY AccountsDiffer DEF InitializeOperatorSnapshot, IInv, StatusInv
<1>5. Enlarges(a, 1)
  BY <1>1, <1>2, <1>3, <1>4, AccountsDiffer, SizeFacts
  DEF Enlarges, InitializeOperatorSnapshot, Allocate
<1> QED  BY <1>1, <1>5, EnlargesInv

LEMMA MintsFinite == \A S \in SUBSET Mints : Cardinality(S) \in Nat
BY LifecycleAssumption, FS_Subset, FS_CardinalityType

LEMMA ReallocWeightTableInv ==
    ASSUME IInv, ReallocWeightTable
    PROVE  IInv'
<1>1. CASE ReallocOnly(weight_table) /\ UNCHANGED <<progress, weights>>
  BY <1>1, AccountsDiffer, ReallocOnlyInv DEF ReallocWeightTable, snapshots
<1>2. CASE /\ ReallocAndInitialize(weight_table, "Created")
           /\ weights' = {}
           /\ progress' = [progress EXCEPT !.set_weight =
                             [tally |-> 0, total |-> Cardinality(Mints)]]
  <2>1. Initializes(weight_table, Grown(weight_table), "Created")
    BY <1>2, AccountsDiffer, ReallocInitializes DEF ReallocWeightTable
  <2>2. TypeOK'
    <3>1. progress' \in [set_weight : Progress, epoch_snapshot : Progress,
                         operator_snapshot : [Operators -> Progress]]
      BY <1>2, MintsFinite DEF IInv, TypeOK, Progress
    <3> QED  BY <1>2, <2>1, <3>1, InitializesStatus, AccountsDiffer
             DEF IInv, TypeOK, ReallocWeightTable, voting
  <2>3. UNCHANGED <<snapshot, delegations, progress.epoch_snapshot, progress.operator_snapshot>>
    BY <1>2 DEF IInv, TypeOK, ReallocWeightTable
  <2> QED  BY <2>1, <2>2, <2>3, InitializesOther, AccountsDiffer
<1> QED  BY <1>1, <1>2 DEF ReallocWeightTable

\* What leaves the accounts, the snapshots, the votes and the progress of the
\* snapshots alone preserves the invariant.
LEMMA UnchangedInv ==
    ASSUME IInv, TypeOK',
           UNCHANGED <<created, decided, is_closing, marker, snapshot, delegations, voted,
                       progress.epoch_snapshot, progress.operator_snapshot>>
    PROVE  IInv'
BY DEF IInv, created, StatusInv, SnapshotInv, DelegationInv, CountInv, OrderInv, NoOrphans,
       Exists, load, finished, is_complete, DelegationsCounted

LEMMA SetWeightInv ==
    ASSUME IInv, NEW m \in Mints, SetWeight(m)
    PROVE  IInv'
<1>1. progress' \in [set_weight : Progress, epoch_snapshot : Progress,
                     operator_snapshot : [Operators -> Progress]]
  <2>1. Cardinality(Mints) \in Nat /\ Cardinality(weights \cup {m}) \in Nat
    BY MintsFinite DEF IInv, TypeOK
  <2> QED  BY <2>1 DEF IInv, TypeOK, SetWeight, Progress
<1>2. UNCHANGED <<progress.epoch_snapshot, progress.operator_snapshot>>
  BY DEF IInv, TypeOK, SetWeight
<1>3. TypeOK'
  BY <1>1 DEF IInv, TypeOK, SetWeight, created, voting
<1> QED  BY <1>2, <1>3, UnchangedInv DEF SetWeight, voting

\* The operators are counted afresh, while none has a snapshot yet.
LEMMA InitializeEpochSnapshotInv ==
    ASSUME IInv, InitializeEpochSnapshot
    PROVE  IInv'
<1> USE DEF Exists, load, voting
<1> DEFINE n == Size["epoch_snapshot"]
<1>1. ~ Exists(epoch_snapshot) /\ ~ is_closing /\ ~ marker
  BY DEF InitializeEpochSnapshot, Allocate, load_and_check_is_closing, MarkerCheck
<1>2. status[epoch_snapshot] = "DNE"
  BY <1>1, MissingIsNew, AccountsDiffer
<1>3. Initializes(epoch_snapshot, n, "Created")
  BY <1>1, <1>2, SizeFacts, AccountsDiffer DEF Initializes, InitializeEpochSnapshot, Allocate
<1>4. ~ voted /\ \A o \in Operators : ~ Exists(operator_snapshot(o))
                                      /\ status[operator_snapshot(o)] = "DNE"
  BY <1>2 DEF IInv, SnapshotInv
<1>5. \A o \in Operators : ~ Exists(operator_snapshot(o))'
                           /\ status'[operator_snapshot(o)] = "DNE"
  BY <1>3, <1>4, InitializesStatus, AccountsDiffer
<1>6. ncn_operators \in 0 .. OperatorLimit /\ OperatorLimit \in Nat /\ ncn_operators \in Nat
  BY LifecycleAssumption DEF IInv, TypeOK, Operators
<1>7. TypeOK'
  <2>1. progress' \in [set_weight : Progress, epoch_snapshot : Progress,
                       operator_snapshot : [Operators -> Progress]]
    BY <1>6 DEF IInv, TypeOK, InitializeEpochSnapshot, Progress
  <2>2. snapshot' \in [operator_count : 0 .. OperatorLimit,
                       operators_registered : 0 .. OperatorLimit]
    BY <1>6 DEF InitializeEpochSnapshot
  <2> QED  BY <1>3, <2>1, <2>2, InitializesStatus, AccountsDiffer
           DEF IInv, TypeOK, InitializeEpochSnapshot
<1>8. SnapshotInv'
  <2>1. \A o \in Operators, g \in FeeGroups :
          Exists(ncn_reward_router(o, g))' => load(ncn_reward_router(o, g))'
    BY <1>3, InitializesStatus, AccountsDiffer DEF IInv, SnapshotInv, Initializes, MarkReady
  <2> QED  BY <1>4, <1>5, <2>1 DEF SnapshotInv, InitializeEpochSnapshot
<1>9. DelegationInv'
  BY <1>5 DEF DelegationInv
<1>10. CountInv'
  <2>1. {o \in Operators : finished(o)}' = {}
    BY <1>5 DEF finished
  <2>2. Cardinality({}) = 0
    BY FS_EmptySet
  <2>3. /\ snapshot' = [operator_count |-> ncn_operators, operators_registered |-> 0]
        /\ progress'.epoch_snapshot = [tally |-> 0, total |-> ncn_operators]
        /\ ~ voted'
    BY <1>4 DEF IInv, TypeOK, InitializeEpochSnapshot
  <2> QED  BY <1>6, <2>1, <2>2, <2>3 DEF CountInv
<1> QED  BY <1>3, <1>7, <1>8, <1>9, <1>10, InitializesStatus, AccountsDiffer DEF IInv

LEMMA InitializeNcnRewardRouterInv ==
    ASSUME IInv, NEW o \in Operators, NEW g \in FeeGroups, InitializeNcnRewardRouter(o, g)
    PROVE  IInv'
<1> DEFINE a == ncn_reward_router(o, g)
           n == Size["ncn_reward_router"]
<1>1. a \in Accounts /\ n \in 1 .. Size[a[1]]
  BY AccountsDiffer, SizeFacts
<1>2. status[a] = "DNE" /\ ~ marker
  BY <1>1, MissingIsNew
  DEF InitializeNcnRewardRouter, load_and_check_is_closing, MarkerCheck, Allocate
<1>3. Initializes(a, n, "CreatedWithReceiver")
  BY <1>1, <1>2 DEF Initializes, InitializeNcnRewardRouter, Allocate
<1>4. TypeOK'
  <2> HIDE DEF a, n
  <2> QED  BY <1>1, <1>3, InitializesStatus
           DEF IInv, TypeOK, InitializeNcnRewardRouter, snapshots, voting
<1> QED  BY <1>1, <1>3, <1>4, InitializesOther, AccountsDiffer
         DEF InitializeNcnRewardRouter, snapshots

ProgressType == [set_weight : Progress, epoch_snapshot : Progress,
                 operator_snapshot : [Operators -> Progress]]

\* What registering an operator writes.
LEMMA RegisterOperatorWrites ==
    ASSUME IInv, NEW o \in Operators, NEW tally \in Nat, NEW total \in Nat,
           RegisterOperator(o, tally, total)
    PROVE  /\ progress' \in ProgressType
           /\ progress'.epoch_snapshot = [tally |-> snapshot.operators_registered + 1,
                                          total |-> snapshot.operator_count]
           /\ progress'.operator_snapshot[o] = [tally |-> tally, total |-> total]
           /\ \A p \in Operators :
                 p # o => progress'.operator_snapshot[p] = progress.operator_snapshot[p]
           /\ snapshot' \in [operator_count : 0 .. OperatorLimit,
                             operators_registered : 0 .. OperatorLimit]
           /\ snapshot'.operator_count = snapshot.operator_count
           /\ snapshot'.operators_registered = snapshot.operators_registered + 1
           /\ snapshot'.operators_registered <= snapshot'.operator_count
<1>1. /\ progress \in ProgressType
      /\ snapshot \in [operator_count : 0 .. OperatorLimit,
                       operators_registered : 0 .. OperatorLimit]
      /\ OperatorLimit \in Nat
  BY LifecycleAssumption DEF IInv, TypeOK, ProgressType
<1>2. /\ progress.epoch_snapshot.tally = snapshot.operators_registered
      /\ progress.epoch_snapshot.total = snapshot.operator_count
      /\ snapshot.operators_registered < snapshot.operator_count
  BY <1>1 DEF IInv, CountInv, RegisterOperator, epoch_snapshot_finalized
<1>3. /\ snapshot'.operator_count = snapshot.operator_count
      /\ snapshot'.operators_registered = snapshot.operators_registered + 1
      /\ snapshot' \in [operator_count : 0 .. OperatorLimit,
                        operators_registered : 0 .. OperatorLimit]
  BY <1>1, <1>2 DEF RegisterOperator
<1>4. /\ progress'.set_weight = progress.set_weight
      /\ progress'.epoch_snapshot = [progress.epoch_snapshot EXCEPT !.tally = @ + 1]
      /\ progress'.operator_snapshot =
            [progress.operator_snapshot EXCEPT ![o] = [tally |-> tally, total |-> total]]
      /\ progress' = [set_weight |-> progress'.set_weight,
                      epoch_snapshot |-> progress'.epoch_snapshot,
                      operator_snapshot |-> progress'.operator_snapshot]
  BY <1>1 DEF RegisterOperator, ProgressType
<1>5. /\ progress'.epoch_snapshot = [tally |-> progress.epoch_snapshot.tally + 1,
                                     total |-> progress.epoch_snapshot.total]
      /\ progress'.epoch_snapshot \in Progress
  BY <1>1, <1>4 DEF ProgressType, Progress
<1>6. /\ progress'.operator_snapshot \in [Operators -> Progress]
      /\ progress'.operator_snapshot[o] = [tally |-> tally, total |-> total]
      /\ \A p \in Operators :
            p # o => progress'.operator_snapshot[p] = progress.operator_snapshot[p]
  BY <1>1, <1>4 DEF ProgressType, Progress
<1>7. progress' \in ProgressType
  BY <1>1, <1>4, <1>5, <1>6 DEF ProgressType
<1> QED  BY <1>1, <1>2, <1>3, <1>5, <1>6, <1>7

\* Operator o is the one that a step adds to the finished ones.
Finishes(o) ==
    /\ \A p \in Operators \ {o} : finished(p)' <=> finished(p)
    /\ ~ finished(o)

LEMMA FinishesInv ==
    ASSUME IInv, TypeOK', NEW o \in Operators, Finishes(o), UNCHANGED voted,
           finished(o)' => /\ snapshot'.operators_registered = snapshot.operators_registered + 1
                           /\ snapshot'.operators_registered <= snapshot'.operator_count,
           ~ finished(o)' => UNCHANGED snapshot,
           snapshot'.operator_count = snapshot.operator_count,
           progress'.epoch_snapshot = [tally |-> snapshot'.operators_registered,
                                       total |-> snapshot'.operator_count]
    PROVE  CountInv'
<1> DEFINE F == {p \in Operators : finished(p)}
           G == {p \in Operators : finished(p)'}
<1>1. Cardinality(F) = snapshot.operators_registered
  BY DEF IInv, CountInv
<1>2. 1 .. snapshot.operator_count \subseteq Operators
  BY LifecycleAssumption DEF IInv, TypeOK, Operators
<1>3. voted' => \A p \in 1 .. snapshot'.operator_count : finished(p)'
  BY <1>2 DEF IInv, CountInv, Finishes
<1>4. CASE finished(o)'
  <2>1. G = F \cup {o} /\ o \notin F /\ F \in SUBSET Operators
    BY <1>4 DEF Finishes
  <2>2. Cardinality(G) = snapshot.operators_registered + 1
    <3> HIDE DEF F, G
    <3> QED  BY <1>1, <2>1, OneMoreFinished
  <2> QED  BY <1>3, <1>4, <2>2 DEF CountInv
<1>5. CASE ~ finished(o)'
  <2>1. G = F
    BY <1>5 DEF Finishes
  <2> QED  BY <1>1, <1>3, <1>5, <2>1 DEF IInv, CountInv
<1> QED  BY <1>4, <1>5

\* An operator that is not active is finished at once, any other is not.
LEMMA ReallocOperatorSnapshotInv ==
    ASSUME IInv, NEW o \in Operators, NEW is_active \in BOOLEAN,
           ReallocOperatorSnapshot(o, is_active)
    PROVE  IInv'
<1> USE DEF Exists, load, voting
<1> DEFINE a == operator_snapshot(o)
           d == [count |-> IF is_active THEN Cardinality(Vaults) ELSE 0, registered |-> {}]
<1>1. a \in Accounts
  BY AccountsDiffer
<1>2. CASE ReallocOnly(a) /\ UNCHANGED <<snapshots, progress>>
  BY <1>1, <1>2, ReallocOnlyInv DEF ReallocOperatorSnapshot
<1>3. CASE /\ ReallocAndInitialize(a, "Created")
           /\ delegations' = [delegations EXCEPT ![o] = d]
           /\ IF is_active
              THEN /\ progress' = [progress EXCEPT !.operator_snapshot[o] =
                                     [tally |-> 0, total |-> Cardinality(Vaults)]]
                   /\ UNCHANGED snapshot
              ELSE RegisterOperator(o, 1, 1)
           /\ UNCHANGED weights
  <2>1. Initializes(a, Grown(a), "Created")
    BY <1>1, <1>3, ReallocInitializes DEF ReallocOperatorSnapshot
  <2>2. /\ status[a] = "DNE" /\ length[a] > 0 /\ status'[a] = "Created"
        /\ \A b \in Accounts : b # a => length'[b] = length[b] /\ status'[b] = status[b]
    BY <1>1, <1>3, <2>1, InitializesStatus, ZenonT(60) DEF ReallocAndInitialize, Initializes
  <2>3. /\ \A p \in Operators : p # o => /\ operator_snapshot(p) # a
                                         /\ operator_snapshot(p) \in Accounts
        /\ epoch_snapshot \in Accounts /\ epoch_snapshot # a
    BY AccountsDiffer
  <2>4. /\ delegations'[o] = d
        /\ \A p \in Operators : p # o => delegations'[p] = delegations[p]
        /\ delegations' \in [Operators -> [count : {0, Cardinality(Vaults)},
                                           registered : SUBSET Vaults]]
    BY <1>3 DEF IInv, TypeOK
  <2>5. Cardinality(Vaults) \in Nat \ {0} /\ Cardinality({}) = 0
    BY VaultsFinite, FS_EmptySet
  <2>6. /\ progress' \in ProgressType
        /\ \A p \in Operators :
              p # o => progress'.operator_snapshot[p] = progress.operator_snapshot[p]
        /\ snapshot' \in [operator_count : 0 .. OperatorLimit,
                          operators_registered : 0 .. OperatorLimit]
        /\ snapshot'.operator_count = snapshot.operator_count
        /\ progress'.epoch_snapshot = [tally |-> snapshot'.operators_registered,
                                       total |-> snapshot'.operator_count]
        /\ is_active => /\ UNCHANGED snapshot
                        /\ progress'.operator_snapshot[o] =
                              [tally |-> 0, total |-> Cardinality(Vaults)]
        /\ ~ is_active => /\ snapshot'.operators_registered = snapshot.operators_registered + 1
                          /\ snapshot'.operators_registered <= snapshot'.operator_count
                          /\ progress'.operator_snapshot[o] = [tally |-> 1, total |-> 1]
    <3>1. CASE is_active
      <4>1. progress \in ProgressType
        BY DEF IInv, TypeOK, ProgressType
      <4>2. /\ progress'.set_weight = progress.set_weight
            /\ progress'.epoch_snapshot = progress.epoch_snapshot
            /\ progress'.operator_snapshot =
                 [progress.operator_snapshot EXCEPT ![o] =
                    [tally |-> 0, total |-> Cardinality(Vaults)]]
            /\ progress' = [set_weight |-> progress'.set_weight,
                            epoch_snapshot |-> progress'.epoch_snapshot,
                            operator_snapshot |-> progress'.operator_snapshot]
        BY <1>3, <3>1, <4>1 DEF ProgressType
      <4>3. progress'.operator_snapshot \in [Operators -> Progress]
        BY <2>5, <4>1, <4>2 DEF ProgressType, Progress
      <4>4. progress' \in ProgressType
        BY <4>1, <4>2, <4>3 DEF ProgressType
      <4> QED  BY <1>3, <3>1, <4>1, <4>2, <4>4 DEF IInv, TypeOK, CountInv, ProgressType
    <3>2. CASE ~ is_active
      <4>1. RegisterOperator(o, 1, 1)
        BY <1>3, <3>2
      <4> QED  BY <3>2, <4>1, RegisterOperatorWrites
    <3> QED  BY <3>1, <3>2
  <2>7. TypeOK'
    BY <1>1, <1>3, <2>1, <2>4, <2>6, InitializesStatus
    DEF IInv, TypeOK, ReallocOperatorSnapshot, ProgressType
  <2>8. SnapshotInv'
    <3>1. \A p \in Operators, g \in FeeGroups :
            Exists(ncn_reward_router(p, g))' => load(ncn_reward_router(p, g))'
      BY <2>1, <2>2, AccountsDiffer DEF IInv, SnapshotInv, Initializes, MarkReady
    <3>2. status[epoch_snapshot] # "DNE" /\ o <= snapshot.operator_count
      BY <2>2 DEF IInv, SnapshotInv
    <3> QED  BY <2>2, <2>3, <2>6, <3>1, <3>2 DEF IInv, SnapshotInv
  <2>9. DelegationInv'
    <3>1. DelegationsCounted(o)'
      BY <2>4, <2>5, <2>6 DEF DelegationsCounted, is_complete
    <3>2. ASSUME NEW p \in Operators, p # o, DelegationsCounted(p)
          PROVE  DelegationsCounted(p)'
      BY <2>4, <2>6, <3>2 DEF DelegationsCounted, is_complete
    <3> QED  BY <2>2, <2>3, <3>1, <3>2 DEF IInv, DelegationInv
  <2>10. Finishes(o) /\ (finished(o)' <=> ~ is_active)
    <3>1. \A p \in Operators \ {o} : finished(p)' <=> finished(p)
      BY <2>2, <2>3, <2>4 DEF finished
    <3>2. ~ finished(o) /\ (finished(o)' <=> ~ is_active)
      BY <2>2, <2>4, <2>5 DEF finished
    <3> QED  BY <3>1, <3>2 DEF Finishes
  <2>11. CountInv'
    BY <2>1, <2>6, <2>7, <2>10, FinishesInv DEF Initializes
  <2> QED  BY <1>1, <2>1, <2>7, <2>8, <2>9, <2>11, InitializesStatus DEF IInv
<1> QED  BY <1>2, <1>3 DEF ReallocOperatorSnapshot

\* One more delegation of an operator; the last one finishes it.
LEMMA SnapshotVaultOperatorDelegationInv ==
    ASSUME IInv, NEW o \in Operators, NEW v \in Vaults, SnapshotVaultOperatorDelegation(o, v)
    PROVE  IInv'
<1> USE DEF Exists, load, voting
<1> DEFINE r == delegations[o].registered
           seen == Cardinality(r)
           tally == progress.operator_snapshot[o].tally + 1
           total == progress.operator_snapshot[o].total
           last == seen + 1 = delegations[o].count
<1>1. /\ progress \in ProgressType
      /\ delegations \in [Operators -> [count : {0, Cardinality(Vaults)},
                                        registered : SUBSET Vaults]]
  BY DEF IInv, TypeOK, ProgressType
<1>2. /\ status[operator_snapshot(o)] # "DNE"
      /\ v \notin r /\ r \in SUBSET Vaults /\ seen # delegations[o].count
  BY <1>1, AccountsDiffer DEF SnapshotVaultOperatorDelegation, DelegationIsNew, IInv, StatusInv
<1>3. /\ seen \in Nat /\ Cardinality(r \cup {v}) = seen + 1
      /\ Cardinality(Vaults) \in Nat \ {0} /\ Cardinality({}) = 0
  BY <1>2, VaultsFinite, FS_EmptySet
<1>4. /\ delegations[o].count = Cardinality(Vaults)
      /\ tally = seen + 1 /\ total = Cardinality(Vaults)
  <2>1. DelegationsCounted(o)
    BY <1>2 DEF IInv, DelegationInv
  <2>2. CASE delegations[o].count = 0 /\ delegations[o].registered = {}
    BY <1>2, <1>3, <2>2
  <2>3. CASE /\ delegations[o].count = Cardinality(Vaults)
             /\ progress.operator_snapshot[o] = [tally |-> seen, total |-> Cardinality(Vaults)]
    BY <2>3
  <2> QED  BY <2>1, <2>2, <2>3 DEF DelegationsCounted
<1>5. /\ delegations'[o].registered = r \cup {v}
      /\ delegations'[o].count = delegations[o].count
      /\ \A p \in Operators : p # o => delegations'[p] = delegations[p]
      /\ delegations' \in [Operators -> [count : {0, Cardinality(Vaults)},
                                         registered : SUBSET Vaults]]
  BY <1>1, <1>2 DEF SnapshotVaultOperatorDelegation
<1>6. /\ UNCHANGED <<length, ready, status, decided, is_closing, marker, weights, voted,
                     tie_breaker, ncn_operators, config, slot>>
      /\ IF last THEN RegisterOperator(o, tally, total)
         ELSE /\ progress' = [progress EXCEPT !.operator_snapshot[o].tally = tally]
              /\ UNCHANGED snapshot
  BY DEF SnapshotVaultOperatorDelegation, created
<1>7. /\ progress' \in ProgressType
      /\ \A p \in Operators :
            p # o => progress'.operator_snapshot[p] = progress.operator_snapshot[p]
      /\ progress'.operator_snapshot[o] = [tally |-> seen + 1, total |-> Cardinality(Vaults)]
      /\ snapshot' \in [operator_count : 0 .. OperatorLimit,
                        operators_registered : 0 .. OperatorLimit]
      /\ snapshot'.operator_count = snapshot.operator_count
      /\ progress'.epoch_snapshot = [tally |-> snapshot'.operators_registered,
                                     total |-> snapshot'.operator_count]
      /\ ~ last => UNCHANGED snapshot
      /\ last => /\ snapshot'.operators_registered = snapshot.operators_registered + 1
                 /\ snapshot'.operators_registered <= snapshot'.operator_count
  <2>1. CASE last
    <3>1. RegisterOperator(o, seen + 1, Cardinality(Vaults))
      BY <1>4, <1>6, <2>1
    <3> QED  BY <1>3, <2>1, <3>1, RegisterOperatorWrites
  <2>2. CASE ~ last
    <3>1. /\ progress'.set_weight = progress.set_weight
          /\ progress'.epoch_snapshot = progress.epoch_snapshot
          /\ progress'.operator_snapshot =
               [progress.operator_snapshot EXCEPT ![o].tally = tally]
          /\ progress' = [set_weight |-> progress'.set_weight,
                          epoch_snapshot |-> progress'.epoch_snapshot,
                          operator_snapshot |-> progress'.operator_snapshot]
      BY <1>1, <1>6, <2>2 DEF ProgressType
    <3>2. /\ progress'.operator_snapshot \in [Operators -> Progress]
          /\ progress'.operator_snapshot[o] = [tally |-> tally, total |-> total]
          /\ \A p \in Operators :
                p # o => progress'.operator_snapshot[p] = progress.operator_snapshot[p]
      BY <1>1, <1>3, <1>4, <3>1 DEF ProgressType, Progress
    <3>3. progress' \in ProgressType
      BY <1>1, <3>1, <3>2 DEF ProgressType
    <3>4. UNCHANGED snapshot
      BY <1>6, <2>2
    <3> QED  BY <1>4, <2>2, <3>1, <3>2, <3>3, <3>4 DEF IInv, TypeOK, CountInv
  <2> QED  BY <2>1, <2>2
<1>8. TypeOK'
  BY <1>5, <1>6, <1>7 DEF IInv, TypeOK, ProgressType
<1>9. SnapshotInv' /\ StatusInv' /\ OrderInv' /\ NoOrphans'
  BY <1>6, <1>7 DEF IInv, SnapshotInv, StatusInv, OrderInv, NoOrphans
<1>10. DelegationInv'
  <2>1. DelegationsCounted(o)'
    BY <1>3, <1>4, <1>5, <1>7 DEF DelegationsCounted
  <2>2. ASSUME NEW p \in Operators, p # o, DelegationsCounted(p)
        PROVE  DelegationsCounted(p)'
    BY <1>5, <1>7, <2>2 DEF DelegationsCounted, is_complete
  <2> QED  BY <1>6, <2>1, <2>2 DEF IInv, DelegationInv
<1>11. CountInv'
  <2>1. Finishes(o)
    BY <1>2, <1>5, <1>6 DEF Finishes, finished
  <2>2. finished(o)' <=> last
    BY <1>2, <1>3, <1>5, <1>6 DEF finished
  <2> QED  BY <1>6, <1>7, <1>8, <2>1, <2>2, FinishesInv
<1> QED  BY <1>6, <1>8, <1>9, <1>10, <1>11 DEF IInv

\* A vote needs the finalized epoch snapshot, a tie breaker needs a vote.
LEMMA DecisionInv ==
    ASSUME IInv, (\E o \in Operators : CastVote(o)) \/ AdminSetTieBreaker
    PROVE  IInv'
<1> USE DEF Exists, load
<1>1. /\ UNCHANGED <<length, ready, status, progress, is_closing, marker, weights, snapshot,
                     delegations, ncn_operators, config, slot>>
      /\ voted' /\ voted' \in BOOLEAN /\ tie_breaker' \in BOOLEAN
      /\ decided' = slot \/ UNCHANGED decided
      /\ decided # NotReached => decided' # NotReached
  BY DEF CastVote, AdminSetTieBreaker, created, snapshots, IInv, TypeOK, NotReached
<1>2. status[epoch_snapshot] # "DNE" /\ \A o \in 1 .. snapshot.operator_count : finished(o)
  <2>1. CASE voted
    BY <2>1 DEF IInv, SnapshotInv, CountInv
  <2>2. CASE \E o \in Operators : CastVote(o)
    <3>1. VoteNeedsSnapshot
      BY <2>2 DEF CastVote
    <3>2. status[epoch_snapshot] # "DNE"
      BY <3>1, AccountsDiffer DEF VoteNeedsSnapshot, IInv, StatusInv
    <3> QED  BY <3>1, <3>2, FinalizedMeansAll DEF VoteNeedsSnapshot, IInv
  <2> QED  BY <2>1, <2>2 DEF AdminSetTieBreaker
<1>3. TypeOK'
  BY <1>1, LifecycleAssumption DEF IInv, TypeOK
<1>4. StatusInv' /\ SnapshotInv' /\ NoOrphans'
  BY <1>1, <1>2 DEF IInv, StatusInv, SnapshotInv, NoOrphans
<1>5. DelegationInv'
  BY <1>1 DEF IInv, DelegationInv, DelegationsCounted, is_complete
<1>6. CountInv'
  BY <1>1, <1>2 DEF IInv, CountInv, finished
<1>7. OrderInv'
  BY <1>1 DEF IInv, OrderInv
<1> QED  BY <1>1, <1>3, <1>4, <1>5, <1>6, <1>7 DEF IInv

\* When the EpochState account is closed, nothing of the epoch is left: every
\* operator snapshot that was begun is finished by then, and so was closed.
LEMMA LastCloseLeavesNothing ==
    ASSUME IInv, CloseEpochAccount(epoch_state_account)
    PROVE  \A a \in Accounts : a # epoch_state_account => ~ Exists(a)
<1>1. are_all_closed /\ decided # NotReached
  BY DEF CloseEpochAccount, can_close_epoch_accounts
<1>2. \A o \in 1 .. snapshot.operator_count : finished(o)
  BY <1>1 DEF IInv, OrderInv, CountInv
<1>3. ASSUME NEW o \in Operators, Exists(operator_snapshot(o))
      PROVE  FALSE
  <2>1. o \in 1 .. snapshot.operator_count
    BY <1>3, LifecycleAssumption DEF IInv, SnapshotInv, TypeOK, Operators
  <2>2. status[operator_snapshot(o)] # "DNE"
    BY <1>2, <2>1 DEF finished
  <2>3. status[operator_snapshot(o)] = "Closed"
    BY <1>1, <2>2 DEF are_all_closed, OperatorSnapshots
  <2> QED  BY <1>3, <2>3, AccountsDiffer DEF IInv, StatusInv
<1>4. ASSUME NEW o \in Operators, NEW g \in FeeGroups, Exists(ncn_reward_router(o, g))
      PROVE  FALSE
  <2>1. load(ncn_reward_router(o, g))
    BY <1>4 DEF IInv, SnapshotInv
  <2>2. status[ncn_reward_router(o, g)] \in {"Created", "CreatedWithReceiver"}
    BY <2>1, AccountsDiffer DEF IInv, StatusInv
  <2> QED  BY <1>1, <2>2 DEF are_all_closed, NcnRewardRouters
<1>5. ASSUME NEW a \in Singles
      PROVE  ~ Exists(a)
  <2>1. a \in Accounts
    BY DEF Accounts, Tracked
  <2> QED  BY <1>1, <2>1 DEF are_all_closed, IInv, StatusInv
<1> QED  BY <1>3, <1>4, <1>5, AccountKinds

LEMMA CloseEpochAccountInv ==
    ASSUME IInv, NEW a \in Accounts, CloseEpochAccount(a)
    PROVE  IInv'
<1> USE DEF Exists, load
<1>1. /\ UNCHANGED <<progress, decided, weights, snapshot, delegations, voted, tie_breaker,
                     ncn_operators, config, slot>>
      /\ is_closing' /\ is_closing' = TRUE
      /\ decided # NotReached /\ load(a) /\ ~ marker
      /\ marker' = (a = epoch_state_account)
  BY DEF CloseEpochAccount, can_close_epoch_accounts, snapshots, voting, MarkerCheck
<1>2. /\ length' \in [Accounts -> Nat] /\ length'[a] = 0
      /\ \A b \in Accounts : b # a => length'[b] = length[b]
      /\ status' \in [Accounts -> {"DNE", "Created", "CreatedWithReceiver", "Closed"}]
      /\ status'[a] = "Closed" /\ \A b \in Accounts : b # a => status'[b] = status[b]
      /\ ready' = ready \ {a}
  BY DEF IInv, TypeOK, CloseEpochAccount
<1>3. TypeOK'
  <2>1. \A b \in Accounts : length'[b] \in 0 .. Size[b[1]]
    BY <1>2, SizeFacts DEF IInv, TypeOK
  <2> QED  BY <1>1, <1>2, <2>1 DEF IInv, TypeOK
<1>4. StatusInv'
  <2>1. ASSUME NEW b \in Accounts
        PROVE  /\ load(b)' <=> status'[b] \in {"Created", "CreatedWithReceiver"}
               /\ load(b)' => Exists(b)'
               /\ status'[b] = "Closed" => ~ Exists(b)' /\ is_closing'
    <3>1. CASE b = a
      BY <1>1, <1>2, <3>1
    <3>2. CASE b # a
      BY <1>1, <1>2, <3>2 DEF IInv, StatusInv
    <3> QED  BY <3>1, <3>2
  <2>2. status'[epoch_state_account] = "Closed" <=> marker'
    BY <1>1, <1>2, AccountsDiffer DEF IInv, StatusInv
  <2> QED  BY <2>1, <2>2 DEF StatusInv
<1>5. status[a] # "DNE"
  BY <1>1 DEF IInv, StatusInv
<1>6. \A b \in Accounts : /\ status'[b] = "DNE" <=> status[b] = "DNE"
                          /\ length'[b] > 0 => length[b] > 0
  BY <1>2, <1>5
<1>7. SnapshotInv'
  <2>1. \A o \in Operators, g \in FeeGroups :
          Exists(ncn_reward_router(o, g))' => load(ncn_reward_router(o, g))'
    BY <1>2, AccountsDiffer DEF IInv, SnapshotInv
  <2> QED  BY <1>1, <1>6, <2>1, AccountsDiffer DEF IInv, SnapshotInv
<1>8. DelegationInv'
  BY <1>1, <1>6, AccountsDiffer DEF IInv, DelegationInv, DelegationsCounted, is_complete
<1>9. CountInv'
  <2>1. \A o \in Operators : finished(o)' <=> finished(o)
    BY <1>1, <1>6, AccountsDiffer DEF finished
  <2>2. {o \in Operators : finished(o)}' = {o \in Operators : finished(o)}
    BY <2>1
  <2>3. 1 .. snapshot.operator_count \subseteq Operators
    BY LifecycleAssumption DEF IInv, TypeOK, Operators
  <2> QED  BY <1>1, <2>1, <2>2, <2>3 DEF IInv, CountInv
<1>10. OrderInv'
  BY <1>1 DEF IInv, OrderInv
<1>11. NoOrphans'
  <2>1. CASE a = epoch_state_account
    <3>1. CloseEpochAccount(epoch_state_account)
      BY <2>1
    <3>2. \A b \in Accounts : b # a => ~ Exists(b)
      BY <2>1, <3>1, LastCloseLeavesNothing
    <3>3. \A b \in Accounts : length'[b] = 0 \/ length'[b] = length[b]
      BY <1>2
    <3> QED  BY <1>2, <3>2, <3>3 DEF NoOrphans
  <2>2. CASE a # epoch_state_account
    BY <1>1, <2>2 DEF NoOrphans
  <2> QED  BY <2>1, <2>2
<1> QED  BY <1>2, <1>3, <1>4, <1>7, <1>8, <1>9, <1>10, <1>11 DEF IInv

LEMMA EnvironmentInv ==
    ASSUME IInv, AddOperator \/ AdminSetParameters \/ Tick
    PROVE  IInv'
<1>1. UNCHANGED <<created, decided, is_closing, marker, snapshot, delegations, voted, progress>>
  BY DEF AddOperator, AdminSetParameters, Tick, snapshots, voting
<1>2. TypeOK'
  BY <1>1, LifecycleAssumption, SMTT(30)
  DEF IInv, TypeOK, AddOperator, AdminSetParameters, Tick, snapshots, voting, created, Operators
<1> QED  BY <1>1, <1>2, UnchangedInv

LEMMA InitInv == Init => IInv
<1> SUFFICES ASSUME Init PROVE IInv
  OBVIOUS
<1> USE DEF Init, Exists, load
<1>1. TypeOK /\ length \in [Accounts -> Nat]
  <2>1. /\ progress \in [set_weight : Progress, epoch_snapshot : Progress,
                         operator_snapshot : [Operators -> Progress]]
        /\ delegations \in [Operators -> [count : {0, Cardinality(Vaults)},
                                          registered : SUBSET Vaults]]
    BY DEF Progress
  <2>2. /\ length \in [Accounts -> Nat] /\ \A a \in Accounts : length[a] \in 0 .. Size[a[1]]
        /\ status \in [Accounts -> {"DNE", "Created", "CreatedWithReceiver", "Closed"}]
    BY SizeFacts
  <2>3. /\ snapshot \in [operator_count : 0 .. OperatorLimit,
                         operators_registered : 0 .. OperatorLimit]
        /\ slot \in 0 .. MaxSlot
    BY LifecycleAssumption
  <2> QED  BY <2>1, <2>2, <2>3 DEF TypeOK
<1>2. StatusInv /\ SnapshotInv /\ DelegationInv /\ OrderInv /\ NoOrphans
  BY AccountsDiffer DEF StatusInv, SnapshotInv, DelegationInv, OrderInv, NoOrphans
<1>3. CountInv
  <2>1. {o \in Operators : finished(o)} = {}
    BY AccountsDiffer DEF finished
  <2>2. Cardinality({o \in Operators : finished(o)}) = 0
    BY <2>1, FS_EmptySet, Zenon
  <2>3. /\ snapshot = [operator_count |-> 0, operators_registered |-> 0]
        /\ progress.epoch_snapshot = [tally |-> 0, total |-> 0]
        /\ ~ voted
    OBVIOUS
  <2> QED  BY <2>2, <2>3 DEF CountInv
<1> QED  BY <1>1, <1>2, <1>3 DEF IInv

-----------------------------------------------------------------------------
(* The theorems                                                            *)

LEMMA NextInv ==
    ASSUME IInv, [Next]_vars
    PROVE  IInv'
<1>1. CASE InitializeEpochState
  BY <1>1, InitializeEpochStateInv
<1>2. CASE ReallocEpochState
  BY <1>2, ReallocInv, AccountsDiffer DEF ReallocEpochState
<1>3. CASE \E a \in Singles : InitializeAccount(a)
  BY <1>3, InitializeAccountInv
<1>4. CASE ReallocWeightTable
  BY <1>4, ReallocWeightTableInv
<1>5. CASE \E m \in Mints : SetWeight(m)
  BY <1>5, SetWeightInv
<1>6. CASE InitializeEpochSnapshot
  BY <1>6, InitializeEpochSnapshotInv
<1>7. CASE \E o \in Operators : InitializeOperatorSnapshot(o)
  BY <1>7, InitializeOperatorSnapshotInv
<1>8. CASE \E o \in Operators, active \in BOOLEAN : ReallocOperatorSnapshot(o, active)
  BY <1>8, ReallocOperatorSnapshotInv
<1>9. CASE \E o \in Operators, v \in Vaults : SnapshotVaultOperatorDelegation(o, v)
  BY <1>9, SnapshotVaultOperatorDelegationInv
<1>10. CASE ReallocBallotBox
  BY <1>10, ReallocInv, AccountsDiffer DEF ReallocBallotBox
<1>11. CASE (\E o \in Operators : CastVote(o)) \/ AdminSetTieBreaker
  BY <1>11, DecisionInv
<1>12. CASE ReallocBaseRewardRouter
  BY <1>12, ReallocInv, AccountsDiffer DEF ReallocBaseRewardRouter
<1>13. CASE \E o \in Operators, g \in FeeGroups : InitializeNcnRewardRouter(o, g)
  BY <1>13, InitializeNcnRewardRouterInv
<1>14. CASE \E a \in Accounts : CloseEpochAccount(a)
  BY <1>14, CloseEpochAccountInv
<1>15. CASE AddOperator \/ AdminSetParameters \/ Tick
  BY <1>15, EnvironmentInv
<1>16. CASE UNCHANGED vars
  <2>1. TypeOK'
    BY <1>16 DEF vars, created, snapshots, voting, IInv, TypeOK
  <2> QED  BY <1>16, <2>1, UnchangedInv DEF vars, snapshots, voting
<1> QED  BY <1>1, <1>2, <1>3, <1>4, <1>5, <1>6, <1>7, <1>8, <1>9, <1>10, <1>11, <1>12, <1>13,
            <1>14, <1>15, <1>16 DEF Next

\* The inductive invariant of an epoch's accounts.
THEOREM EpochAccountsInvariant == Spec => []IInv
<1>1. Init => IInv
  BY InitInv
<1>2. IInv /\ [Next]_vars => IInv'
  BY NextInv
<1> QED  BY <1>1, <1>2, PTL DEF Spec

\* account_status of the EpochState is true of every account of the epoch,
\* whoever creates, reallocates and closes them in whatever order.
THEOREM StatusesAgree == Spec => []StatusAgrees
<1>1. IInv => StatusAgrees
  BY DEF IInv, StatusInv, StatusAgrees
<1> QED  BY <1>1, EpochAccountsInvariant, PTL

\* When close_epoch_account writes the EpochMarker, it has left no account of
\* the epoch behind, not even a half allocated one.
THEOREM NothingIsOrphaned == Spec => []NoOrphans
<1>1. IInv => NoOrphans
  BY DEF IInv
<1> QED  BY <1>1, EpochAccountsInvariant, PTL

\* The epoch snapshot, the epoch state and the operator snapshots count the same
\* finished operators, and an epoch is decided and closed only with all of them.
THEOREM RegistrationsAreCounted == Spec => []RegistrationsCounted
<1>1. ASSUME IInv  PROVE RegistrationsCounted
  <2>1. ASSUME NEW o \in Operators, finished(o)
        PROVE  is_complete(progress.operator_snapshot[o])
    <3>1. DelegationsCounted(o) /\ Cardinality(delegations[o].registered) = delegations[o].count
      BY <1>1, <2>1 DEF IInv, DelegationInv, finished
    <3>2. Cardinality(Vaults) \in Nat
      BY VaultsFinite
    <3> QED  BY <3>1, <3>2 DEF DelegationsCounted, is_complete
  <2> QED  BY <1>1, <2>1 DEF IInv, CountInv, OrderInv, RegistrationsCounted
<1> QED  BY <1>1, EpochAccountsInvariant, PTL

\* A status changes from "DNE" when its account is initialized, or to "Closed".
LEMMA StatusSteps ==
    ASSUME IInv, [Next]_vars
    PROVE  \/ UNCHANGED <<status, marker>>
           \/ \E a \in Accounts, s \in {"Created", "CreatedWithReceiver"} :
                 /\ status[a] = "DNE" /\ status' = [status EXCEPT ![a] = s]
                 /\ UNCHANGED marker
           \/ \E a \in Accounts : CloseEpochAccount(a)
<1> DEFINE Goal == \/ UNCHANGED <<status, marker>>
                   \/ \E a \in Accounts, s \in {"Created", "CreatedWithReceiver"} :
                         /\ status[a] = "DNE" /\ status' = [status EXCEPT ![a] = s]
                         /\ UNCHANGED marker
                   \/ \E a \in Accounts : CloseEpochAccount(a)
<1>1. ASSUME NEW a \in Accounts, NEW s \in {"Created", "CreatedWithReceiver"},
             ReallocOnly(a) \/ ReallocAndInitialize(a, s), UNCHANGED marker
      PROVE  Goal
  BY <1>1, ExistingIsOpen DEF ReallocOnly, ReallocAndInitialize, MarkReady
<1>2. ASSUME NEW a \in Accounts, NEW s \in {"Created", "CreatedWithReceiver"}, NEW n,
             load_and_check_is_closing, Allocate(a, n), MarkReady(a, s), UNCHANGED marker
      PROVE  Goal
  BY <1>2, MissingIsNew DEF load_and_check_is_closing, Allocate, MarkReady
<1> SUFFICES Goal
  OBVIOUS
<1> HIDE DEF Goal
<1>3. CASE \/ ReallocEpochState \/ ReallocWeightTable \/ ReallocBallotBox
           \/ ReallocBaseRewardRouter
  BY <1>1, <1>3, AccountsDiffer
  DEF ReallocEpochState, ReallocWeightTable, ReallocBallotBox, ReallocBaseRewardRouter
<1>4. CASE \E o \in Operators, active \in BOOLEAN : ReallocOperatorSnapshot(o, active)
  BY <1>1, <1>4, AccountsDiffer DEF ReallocOperatorSnapshot
<1>5. CASE InitializeEpochSnapshot
  BY <1>2, <1>5, AccountsDiffer DEF InitializeEpochSnapshot
<1>6. CASE \E o \in Operators, g \in FeeGroups : InitializeNcnRewardRouter(o, g)
  BY <1>2, <1>6, AccountsDiffer DEF InitializeNcnRewardRouter
<1>7. CASE \/ InitializeEpochState
           \/ \E a \in Singles : InitializeAccount(a)
           \/ \E o \in Operators : InitializeOperatorSnapshot(o)
           \/ \E m \in Mints : SetWeight(m)
           \/ \E o \in Operators, v \in Vaults : SnapshotVaultOperatorDelegation(o, v)
  BY <1>7 DEF InitializeEpochState, InitializeAccount, InitializeOperatorSnapshot, SetWeight,
              SnapshotVaultOperatorDelegation, created, Goal
<1>8. CASE \/ \E o \in Operators : CastVote(o)
           \/ AdminSetTieBreaker \/ AddOperator \/ AdminSetParameters \/ Tick
           \/ UNCHANGED vars
  BY <1>8 DEF CastVote, AdminSetTieBreaker, AddOperator, AdminSetParameters, Tick, vars, created,
              Goal
<1>9. CASE \E a \in Accounts : CloseEpochAccount(a)
  BY <1>9 DEF Goal
<1> QED  BY <1>3, <1>4, <1>5, <1>6, <1>7, <1>8, <1>9 DEF Next

LEMMA StepKeepsClosed ==
    ASSUME IInv, IInv', [Next]_vars
    PROVE  /\ marker => marker'
           /\ \A a \in Accounts : status[a] = "Closed" => length'[a] = 0 /\ status'[a] = "Closed"
<1>1. status \in [Accounts -> {"DNE", "Created", "CreatedWithReceiver", "Closed"}]
  BY DEF IInv, TypeOK
<1>2. /\ marker => marker'
      /\ \A a \in Accounts : status[a] = "Closed" => status'[a] = "Closed"
  <2>1. CASE UNCHANGED <<status, marker>>
    BY <2>1
  <2>2. CASE \E a \in Accounts, s \in {"Created", "CreatedWithReceiver"} :
               /\ status[a] = "DNE" /\ status' = [status EXCEPT ![a] = s]
               /\ UNCHANGED marker
    BY <1>1, <2>2
  <2>3. CASE \E a \in Accounts : CloseEpochAccount(a)
    BY <1>1, <2>3 DEF CloseEpochAccount
  <2> QED  BY <2>1, <2>2, <2>3, StatusSteps
<1>3. ASSUME NEW a \in Accounts, status'[a] = "Closed"
      PROVE  length'[a] = 0
  BY <1>3 DEF IInv, StatusInv, Exists
<1> QED  BY <1>2, <1>3

\* cannot_reopen_accounts: neither initialize_* nor realloc_* brings a closed
\* account of an epoch back, and nothing removes its marker.
THEOREM ClosedStaysClosed == Spec => ClosedForGood
<1>1. IInv /\ IInv' /\ [Next]_vars =>
        [/\ marker => marker'
         /\ \A a \in Accounts :
               status[a] = "Closed" => length'[a] = 0 /\ status'[a] = "Closed"]_vars
  BY StepKeepsClosed
<1> QED  BY <1>1, EpochAccountsInvariant, PTL DEF Spec, ClosedForGood

-----------------------------------------------------------------------------
(* The keeper                                                              *)

\* Whatever transaction the keeper sends, the program does to the accounts only
\* what it does for anybody.
LEMMA TransactionIsNext ==
    ASSUME IInv, NEW i, Transaction(i)
    PROVE  Next
<1>1. all_operators \subseteq Operators
  BY LifecycleAssumption DEF IInv, TypeOK, all_operators, Operators
<1>2. {weight_table, ballot_box, base_reward_router} \subseteq Singles
  BY DEF Singles
<1>3. CASE Create(i.account)
  <2>1. CASE \/ create_epoch_state \/ create_weight_table \/ create_epoch_snapshot
             \/ create_ballot_box \/ create_base_reward_router
    BY <1>2, <2>1
    DEF create_epoch_state, create_weight_table, create_epoch_snapshot, create_ballot_box,
        create_base_reward_router, Next
  <2>2. CASE \E o \in all_operators : create_operator_snapshot(o)
    BY <1>1, <2>2 DEF create_operator_snapshot, Next
  <2>3. CASE \E o \in all_operators, g \in FeeGroups : create_ncn_reward_router(o, g)
    BY <1>1, <2>3 DEF create_ncn_reward_router, Next
  <2> QED  BY <1>3, <2>1, <2>2, <2>3 DEF Create
<1>4. CASE close_epoch_account(i.account)
  BY <1>4 DEF close_epoch_account, CloseEpochAccount, load, IInv, TypeOK, Next
<1>5. CASE i.mint \in Mints /\ set_weight_with_st_mint(i.mint)
  BY <1>5 DEF set_weight_with_st_mint, Next
<1>6. CASE /\ i.operator \in Operators /\ i.vault \in Vaults
           /\ snapshot_vault_operator_delegation(i.operator, i.vault)
  BY <1>6 DEF snapshot_vault_operator_delegation, Next
<1> QED  BY <1>3, <1>4, <1>5, <1>6 DEF Transaction

LEMMA KeeperStep ==
    ASSUME IInv, [KNext]_allvars
    PROVE  [Next]_vars
<1>1. CASE StartCrank \/ Skip \/ Refused \/ Restart
  BY <1>1 DEF StartCrank, Skip, Refused, Restart
<1>2. CASE Confirmed
  BY <1>2, TransactionIsNext DEF Confirmed
<1>3. CASE \E landed \in BOOLEAN : Fails(landed)
  BY <1>3, TransactionIsNext DEF Fails
<1>4. CASE World
  BY <1>4 DEF World, Next
<1>5. CASE Anybody
  BY <1>5 DEF Anybody
<1>6. CASE UNCHANGED allvars
  BY <1>6 DEF allvars
<1> QED  BY <1>1, <1>2, <1>3, <1>4, <1>5, <1>6 DEF KNext, Keeper

\* The keeper's cranks, with their lost and misreported transactions, its
\* restarts and everybody else's transactions, implement the life of the
\* epoch's accounts, so that all that is proved of those holds under a keeper.
THEOREM KeeperImplementsLifecycle == KSpec => Spec
<1>1. KInit => Init /\ IInv
  BY InitInv DEF KInit
<1>2. IInv /\ [KNext]_allvars => IInv' /\ [Next]_vars
  BY KeeperStep, NextInv
<1> QED  BY <1>1, <1>2, PTL DEF KSpec, Spec

=============================================================================
