---------------------------- MODULE StakeSnapshot ----------------------------
(***************************************************************************)
(* The stake weights of one NCN epoch: the EpochSnapshot account, the      *)
(* OperatorSnapshot accounts, and the vault program whose delegations they *)
(* read while vaults go on moving stake, epochs pass and parties opt out.  *)
(* Anybody cranks; a snapshot is one transaction per (operator, vault).    *)
(*                                                                         *)
(* The weight table is finalized, so what it says of a vault is a constant *)
(* (VaultRegistry!FinalizedTableIsFrozen).  How the accounts grow and what *)
(* the handlers write to the EpochState account is in EpochLifecycle.      *)
(***************************************************************************)
EXTENDS Integers, FiniteSets, Sequences, Sums

CONSTANTS
    OperatorLimit,  \* operators the NCN may ever have; 1 .. OperatorLimit are their indices
    Vaults,         \* vaults with an NcnVaultTicket
    TableVaults,    \* vaults in the weight table's copy of the registry
    FeeGroups,      \* NCN fee groups
    VaultWeight,    \* VaultWeight[v]: weight, group and multiplier of v's mint in the table
    Deposits,       \* Deposits[v]: tokens of vault v
    MAX_VAULTS,     \* positions in an OperatorSnapshot
    MaxEvents,      \* bound on delegations, cooldowns and opt-outs together
    MaxEpoch        \* bound on the clock, in epochs

Operators == 1 .. OperatorLimit

ASSUME SnapshotAssumption ==
    /\ OperatorLimit \in Nat \ {0}
    /\ IsFiniteSet(Vaults) /\ TableVaults \subseteq Vaults /\ TableVaults # {}
    /\ VaultWeight \in [Vaults -> [weight : Nat, group : FeeGroups, multiplier : Nat]]
    /\ Deposits \in [Vaults -> Nat]
    /\ Cardinality(TableVaults) <= MAX_VAULTS
    /\ MAX_VAULTS \in Nat /\ MaxEvents \in Nat /\ MaxEpoch \in Nat

VARIABLES
    epoch_snapshot,     \* the EpochSnapshot account, or None
    operator_snapshot,  \* the OperatorSnapshot account of each operator, or None
    ncn_operators,      \* operator_count of the Ncn account
    delegation,         \* delegation[v][o]: the VaultOperatorDelegation's state, or None
    free,               \* undelegated tokens of each vault
    updated,            \* epoch of each vault's last full update
    barred,             \* vaults and operators the NCN removed
    leaving,            \* "active", "cooldown" or "inactive": the vault's or operator's own side
    events,             \* delegations, cooldowns and opt-outs so far
    taken,              \* taken[o][v]: stake and epoch of each entry (history)
    epoch               \* cluster epoch

snapshots == <<epoch_snapshot, operator_snapshot, taken>>
vault_program == <<delegation, free, updated>>
opt_ins == <<ncn_operators, barred, leaving>>
vars == <<snapshots, vault_program, opt_ins, events, epoch>>

None == [exists |-> FALSE]
Components == {"stake"} \cup FeeGroups
StakeWeights == [Components -> Nat]
ZeroWeights == [c \in Components |-> 0]
Plus(a, b) == [c \in Components |-> a[c] + b[c]]

\* EpochSnapshot::finalized and OperatorSnapshot::finalized.
epoch_finalized(s) == s.operators_registered = s.operator_count
operator_finalized(s) == Len(s.entries) = s.vault_operator_delegation_count

Exists(s) == s # None

DelegationState == [staked : Nat, enqueued : Nat, cooling : Nat]
Entry == [vault : Vaults, ncn_fee_group : FeeGroups, stake_weights : StakeWeights]

\* The type invariant.
TypeOK ==
    /\ Exists(epoch_snapshot) =>
          epoch_snapshot \in [operator_count : Nat, operators_registered : Nat,
                              vault_count : Nat, valid_delegations : Nat,
                              stake_weights : StakeWeights]
    /\ \A o \in Operators : Exists(operator_snapshot[o]) =>
          /\ operator_snapshot[o].is_active \in BOOLEAN
          /\ operator_snapshot[o].vault_operator_delegation_count \in 0 .. MAX_VAULTS
          /\ operator_snapshot[o].entries \in Seq(Entry)
          /\ operator_snapshot[o].valid_delegations \in Nat
          /\ operator_snapshot[o].stake_weights \in StakeWeights
    /\ ncn_operators \in Operators
    /\ \A v \in Vaults, o \in Operators :
          Exists(delegation[v][o]) => delegation[v][o] \in DelegationState
    /\ free \in [Vaults -> Nat]
    /\ updated \in [Vaults -> 0 .. MaxEpoch]
    /\ barred \subseteq Vaults \cup Operators
    /\ leaving \in [Vaults \cup Operators -> {"active", "cooldown", "inactive"}]
    /\ events \in 0 .. MaxEvents
    /\ epoch \in 0 .. MaxEpoch

\* Each vault has some of its tokens with the first operator.
Init ==
    /\ epoch_snapshot = None
    /\ operator_snapshot = [o \in Operators |-> None]
    /\ taken = [o \in Operators |-> [v \in Vaults |-> None]]
    /\ ncn_operators \in Operators
    /\ \E first \in [Vaults -> BOOLEAN] :
          /\ delegation = [v \in Vaults |-> [o \in Operators |->
                 IF o = 1 /\ first[v]
                 THEN [staked |-> Deposits[v], enqueued |-> 0, cooling |-> 0] ELSE None]]
          /\ free = [v \in Vaults |-> IF first[v] THEN 0 ELSE Deposits[v]]
    /\ updated = [v \in Vaults |-> 0]
    /\ barred = {}
    /\ leaving = [p \in Vaults \cup Operators |-> "active"]
    /\ events = 0
    /\ epoch = 0

-----------------------------------------------------------------------------
(* The handlers.                                                           *)

InitializeEpochSnapshot ==
    /\ ~ Exists(epoch_snapshot)
    /\ epoch_snapshot' = [operator_count |-> ncn_operators, operators_registered |-> 0,
                          vault_count |-> Cardinality(TableVaults), valid_delegations |-> 0,
                          stake_weights |-> ZeroWeights]
    /\ UNCHANGED <<operator_snapshot, taken, vault_program, opt_ins, events, epoch>>

\* EpochSnapshot::increment_operator_registration
RegisterOperator_Overwrites(valid, weights) ==
    /\ ~ epoch_finalized(epoch_snapshot)
    /\ epoch_snapshot' = [epoch_snapshot EXCEPT
           !.operators_registered = @ + 1, !.valid_delegations = @ + valid,
           !.stake_weights = weights]
RegisterOperator(valid, weights) ==
    /\ ~ epoch_finalized(epoch_snapshot)
    /\ epoch_snapshot' = [epoch_snapshot EXCEPT
           !.operators_registered = @ + 1, !.valid_delegations = @ + valid,
           !.stake_weights = Plus(@, weights)]

OperatorIsActive(o) == o \notin barred /\ leaving[o] \in {"active", "cooldown"}

InSnapshot(o) == Exists(epoch_snapshot) /\ o <= epoch_snapshot.operator_count

\* initialize_operator_snapshot up to the realloc_operator_snapshot that
\* initializes the account: an operator that is out counts as registered.
ReallocOperatorSnapshot(o) ==
    /\ InSnapshot(o) /\ o <= ncn_operators
    /\ ~ Exists(operator_snapshot[o])
    /\ operator_snapshot' = [operator_snapshot EXCEPT ![o] =
           [is_active |-> OperatorIsActive(o),
            vault_operator_delegation_count |->
                IF OperatorIsActive(o) THEN epoch_snapshot.vault_count ELSE 0,
            entries |-> <<>>, valid_delegations |-> 0, stake_weights |-> ZeroWeights]]
    /\ IF OperatorIsActive(o) THEN UNCHANGED epoch_snapshot ELSE RegisterOperator(0, ZeroWeights)
    /\ UNCHANGED <<taken, vault_program, opt_ins, events, epoch>>

is_update_needed_Ignored(v) == FALSE
is_update_needed(v) == updated[v] < epoch

total_security(d) == d.staked + d.enqueued + d.cooling

\* is_active of snapshot_vault_operator_delegation: a vault the NCN removed is
\* barred at once, a vault that leaves counts until its cooldown ends.
DelegationIsActive(v, o) ==
    /\ leaving[v] \in {"active", "cooldown"}
    /\ v \notin barred
    /\ Exists(delegation[v][o])

calculate_total_stake_weight(v, o) ==
    IF DelegationIsActive(v, o) THEN total_security(delegation[v][o]) * VaultWeight[v].weight
    ELSE 0

\* StakeWeights::snapshot
WeightsOf(v, stake) ==
    [c \in Components |->
        IF c = "stake" THEN stake
        ELSE IF c = VaultWeight[v].group THEN VaultWeight[v].multiplier * stake ELSE 0]

check_registry_for_vault(v) == v \in TableVaults

contains_vault_index(s, v) == \E i \in DOMAIN s.entries : s.entries[i].vault = v

\* increment_vault_operator_delegation_registration
WithEntry(s, v, weights) ==
    [s EXCEPT
        !.entries = Append(@, [vault |-> v, ncn_fee_group |-> VaultWeight[v].group,
                               stake_weights |-> weights]),
        !.valid_delegations = IF weights["stake"] > 0 THEN @ + 1 ELSE @,
        !.stake_weights = Plus(@, weights)]

SnapshotVaultOperatorDelegation(o, v) ==
    LET s == operator_snapshot[o]
        stake == calculate_total_stake_weight(v, o)
        after == WithEntry(s, v, WeightsOf(v, stake))
    IN  /\ Exists(s)
        /\ ~ is_update_needed(v)
        /\ check_registry_for_vault(v)
        /\ ~ operator_finalized(s)
        /\ Len(s.entries) < MAX_VAULTS
        /\ ~ contains_vault_index(s, v)
        /\ operator_snapshot' = [operator_snapshot EXCEPT ![o] = after]
        /\ taken' = [taken EXCEPT ![o][v] =
               [epoch |-> epoch,
                stake |-> IF DelegationIsActive(v, o) THEN total_security(delegation[v][o]) ELSE 0]]
        /\ IF operator_finalized(after)
           THEN RegisterOperator(after.valid_delegations, after.stake_weights)
           ELSE UNCHANGED epoch_snapshot
        /\ UNCHANGED <<vault_program, opt_ins, events, epoch>>

-----------------------------------------------------------------------------
(* The vault program: stake moves only in a vault that is up to date, and  *)
(* the update of an epoch lets enqueued stake cool down and frees the      *)
(* stake that has cooled down for an epoch.                                *)

\* A first delegation to an operator creates the state.
Delegated(d, amount) ==
    IF Exists(d) THEN [d EXCEPT !.staked = @ + amount]
    ELSE [staked |-> amount, enqueued |-> 0, cooling |-> 0]

Delegate(v, o, amount) ==
    /\ events < MaxEvents /\ events' = events + 1
    /\ ~ (updated[v] < epoch) /\ o <= ncn_operators
    /\ amount <= free[v]
    /\ free' = [free EXCEPT ![v] = @ - amount]
    /\ delegation' = [delegation EXCEPT ![v][o] = Delegated(@, amount)]
    /\ UNCHANGED <<snapshots, updated, opt_ins, epoch>>

CooldownDelegation(v, o, amount) ==
    /\ events < MaxEvents /\ events' = events + 1
    /\ ~ (updated[v] < epoch)
    /\ Exists(delegation[v][o]) /\ amount <= delegation[v][o].staked
    /\ delegation' = [delegation EXCEPT ![v][o].staked = @ - amount,
                                        ![v][o].enqueued = @ + amount]
    /\ UNCHANGED <<snapshots, free, updated, opt_ins, epoch>>

VaultUpdate(v) ==
    /\ updated[v] < epoch
    /\ updated' = [updated EXCEPT ![v] = epoch]
    /\ delegation' = [delegation EXCEPT ![v] = [o \in Operators |->
           LET d == delegation[v][o]
           IN  IF Exists(d) THEN [staked |-> d.staked, enqueued |-> 0, cooling |-> d.enqueued]
               ELSE None]]
    /\ free' = [free EXCEPT ![v] = @ + SumOver(
           LAMBDA o : IF Exists(delegation[v][o]) THEN delegation[v][o].cooling ELSE 0, Operators)]
    /\ UNCHANGED <<snapshots, opt_ins, events, epoch>>

-----------------------------------------------------------------------------
(* The restaking program and the clock.                                    *)

NcnAddsOperator ==
    /\ ncn_operators < OperatorLimit
    /\ ncn_operators' = ncn_operators + 1
    /\ UNCHANGED <<snapshots, vault_program, barred, leaving, events, epoch>>

NcnRemoves(p) ==
    /\ events < MaxEvents /\ events' = events + 1
    /\ p \notin barred
    /\ barred' = barred \cup {p}
    /\ UNCHANGED <<snapshots, vault_program, ncn_operators, leaving, epoch>>

Leaves(p) ==
    /\ events < MaxEvents /\ events' = events + 1
    /\ leaving[p] = "active"
    /\ leaving' = [leaving EXCEPT ![p] = "cooldown"]
    /\ UNCHANGED <<snapshots, vault_program, ncn_operators, barred, epoch>>

CooldownEnds(p) ==
    /\ leaving[p] = "cooldown"
    /\ leaving' = [leaving EXCEPT ![p] = "inactive"]
    /\ UNCHANGED <<snapshots, vault_program, ncn_operators, barred, events, epoch>>

NextEpoch ==
    /\ epoch < MaxEpoch
    /\ epoch' = epoch + 1
    /\ UNCHANGED <<snapshots, vault_program, opt_ins, events>>

Next ==
    \/ InitializeEpochSnapshot
    \/ \E o \in Operators :
          \/ ReallocOperatorSnapshot(o)
          \/ \E v \in Vaults :
                \/ SnapshotVaultOperatorDelegation(o, v)
                \/ \E n \in 1 .. Deposits[v] : Delegate(v, o, n) \/ CooldownDelegation(v, o, n)
    \/ \E v \in Vaults : VaultUpdate(v)
    \/ NcnAddsOperator
    \/ \E p \in Vaults \cup Operators : NcnRemoves(p) \/ Leaves(p) \/ CooldownEnds(p)
    \/ NextEpoch

Spec == Init /\ [][Next]_vars

-----------------------------------------------------------------------------
(* Properties.                                                             *)

Taken == {o \in Operators : Exists(operator_snapshot[o])}
FinalOperators == {o \in Taken : operator_finalized(operator_snapshot[o])}

\* The operator weights are the sums of their vault entries, and the epoch's
\* total, the denominator of every consensus share, is the sum over exactly
\* the operators whose snapshots are final.
SumsAgree ==
    /\ \A o \in Taken, c \in Components :
          operator_snapshot[o].stake_weights[c] =
              SumOver(LAMBDA i : operator_snapshot[o].entries[i].stake_weights[c],
                      DOMAIN operator_snapshot[o].entries)
    /\ Exists(epoch_snapshot) => \A c \in Components :
          epoch_snapshot.stake_weights[c] =
              SumOver(LAMBDA o : operator_snapshot[o].stake_weights[c], FinalOperators)

\* operators_registered counts the final snapshots, so a finalized epoch
\* snapshot, on which cast_vote relies, has one of every operator it expects,
\* also of those that opted out or joined meanwhile; and a final snapshot of an
\* active operator has an entry for each vault of the table and no other.
RegisteredIsFinal ==
    /\ Exists(epoch_snapshot) =>
          /\ epoch_snapshot.operators_registered = Cardinality(FinalOperators)
          /\ epoch_finalized(epoch_snapshot) =>
                FinalOperators = 1 .. epoch_snapshot.operator_count
    /\ \A o \in FinalOperators :
          operator_snapshot[o].is_active =>
              {operator_snapshot[o].entries[i].vault :
                  i \in DOMAIN operator_snapshot[o].entries} = TableVaults

\* The stake an epoch counts, built up across transactions of all operators in
\* any order, is the sum over exactly the operators that are registered as
\* final, and none is missing once the epoch snapshot is finalized.
WeightsAddUp == TypeOK /\ SumsAgree /\ RegisteredIsFinal

\* Entries of a vault that were taken in the same epoch never count a token
\* for two operators, although they are taken one transaction at a time while
\* the vault moves stake: the vault must be up to date, so what was counted as
\* cooling down for one operator is not delegated to another one in that epoch.
StakeCountedOnce ==
    \A v \in TableVaults, e \in 0 .. epoch :
        SumOver(LAMBDA o : taken[o][v].stake,
                {o \in Operators : Exists(taken[o][v]) /\ taken[o][v].epoch = e})
            <= Deposits[v]
=============================================================================
