------------------------------ MODULE FeeConfig ------------------------------
(***************************************************************************)
(* The fees of an NCN: the FeeConfig part of the Config account with its   *)
(* two fee buffers, admin_set_config_fees, the epoch boundary, the copies  *)
(* initialize_epoch_snapshot takes, and the total every operator reads to  *)
(* compute its Merkle root.                                                *)
(***************************************************************************)
EXTENDS Integers, FiniteSetsExt

CONSTANTS
    BaseGroups, NcnGroups,   \* fee groups
    DefaultBase, DefaultNcn, \* the groups of a call that names none
    Values,                  \* fees an admin may ask for
    Wallets,                 \* wallets of base fee groups
    BlockEngineFees,         \* block engine fees an admin may ask for
    MaxFeeBps,               \* MAX_FEE_BPS
    NoFees,                  \* stands for a snapshot that was not taken
    MaxEpoch                 \* bound on the clock

Groups == BaseGroups \cup NcnGroups

ASSUME FeesAssumption ==
    /\ DefaultBase \in BaseGroups /\ DefaultNcn \in NcnGroups
    /\ BaseGroups \cap NcnGroups = {}
    /\ Values \subseteq Nat
    /\ BlockEngineFees \subseteq Nat
    /\ MaxFeeBps \in Nat \ {0} /\ MaxEpoch \in Nat

VARIABLES
    fee_config,        \* [fee_1, fee_2], each an activation epoch and fees by group
    block_engine_fee,  \* block_engine_fee_bps
    wallets,           \* base_fee_wallets
    epoch,             \* Clock::get().epoch
    snapshots,         \* fees in the epoch snapshot of each epoch
    reads,             \* totals that operators have read in this epoch
    in_force           \* history: the fees in force in each epoch so far

vars == <<fee_config, block_engine_fee, wallets, epoch, snapshots, reads, in_force>>

Buffers == {"fee_1", "fee_2"}
total_fees_bps(bps) == MapThenSumSet(LAMBDA g : bps[g], Groups)

-----------------------------------------------------------------------------
(* The two buffers                                                         *)

\* A buffer that is not active yet leaves the other one, else the younger wins.
CurrentBuffer_Older(fc, e) ==
    IF fc["fee_1"].activation_epoch > e THEN "fee_2"
    ELSE IF fc["fee_2"].activation_epoch > e THEN "fee_1"
    ELSE IF fc["fee_1"].activation_epoch <= fc["fee_2"].activation_epoch THEN "fee_1" ELSE "fee_2"
CurrentBuffer(fc, e) ==
    IF fc["fee_1"].activation_epoch > e THEN "fee_2"
    ELSE IF fc["fee_2"].activation_epoch > e THEN "fee_1"
    ELSE IF fc["fee_1"].activation_epoch >= fc["fee_2"].activation_epoch THEN "fee_1" ELSE "fee_2"
current_fees(fc, e) == fc[CurrentBuffer(fc, e)]

\* A buffer that is scheduled is updated, else the older one.
UpdatableBuffer_Younger(fc, e) ==
    IF fc["fee_1"].activation_epoch > e THEN "fee_1"
    ELSE IF fc["fee_2"].activation_epoch > e THEN "fee_2"
    ELSE IF fc["fee_1"].activation_epoch >= fc["fee_2"].activation_epoch THEN "fee_1" ELSE "fee_2"
UpdatableBuffer(fc, e) ==
    IF fc["fee_1"].activation_epoch > e THEN "fee_1"
    ELSE IF fc["fee_2"].activation_epoch > e THEN "fee_2"
    ELSE IF fc["fee_1"].activation_epoch <= fc["fee_2"].activation_epoch THEN "fee_1" ELSE "fee_2"

\* set_fees_to_current, when the buffer to update is an old one.
CopyOver_Never(fc, e) == fc
CopyOver(fc, e) ==
    IF fc[UpdatableBuffer(fc, e)].activation_epoch <= e
    THEN [fc EXCEPT ![UpdatableBuffer(fc, e)] = current_fees(fc, e)]
    ELSE fc

Changed(bps, changes) ==
    [g \in Groups |-> IF g \in DOMAIN changes THEN changes[g] ELSE bps[g]]

\* set_base_fee_bps, set_ncn_fee_bps and update_updatable_epoch on the buffer
\* that is updatable after the copy.
Written(fc, changes, e) ==
    LET b == UpdatableBuffer(CopyOver(fc, e), e)
    IN  [CopyOver(fc, e) EXCEPT ![b] =
            [activation_epoch |-> e + 1, bps |-> Changed(@.bps, changes)]]

\* The fees are computed of what the block engine leaves, which cannot be nothing.
check_fees_okay(fc, fee, e) ==
    /\ fee < MaxFeeBps
    /\ total_fees_bps(current_fees(fc, e).bps) \in 1 .. MaxFeeBps

adjusted_fee_bps(fee, block_engine) == (fee * MaxFeeBps) \div (MaxFeeBps - block_engine)

-----------------------------------------------------------------------------
\* FeeConfig::new by initialize_config: only the default groups have fees.
Init ==
    /\ epoch = 0
    /\ \E b \in Values, n \in Values :
          LET fees == [activation_epoch |-> epoch,
                       bps |-> [g \in Groups |-> IF g = DefaultBase THEN b
                                                 ELSE IF g = DefaultNcn THEN n ELSE 0]]
          IN  /\ b <= MaxFeeBps /\ n <= MaxFeeBps
              /\ fee_config = [x \in Buffers |-> fees]
              /\ in_force = [e \in {0} |-> fees.bps]
    /\ block_engine_fee \in BlockEngineFees
    /\ \E w \in Wallets : wallets = [g \in BaseGroups |-> w]
    /\ check_fees_okay(fee_config, block_engine_fee, epoch)
    /\ snapshots = [e \in 0 .. MaxEpoch |-> NoFees]
    /\ reads = {}

\* The fees a call may set: none or one base group, none or one NCN group.
Changes == {c \in UNION {[S -> Values] : S \in SUBSET Groups} :
              /\ \A g, h \in DOMAIN c \cap BaseGroups : g = h
              /\ \A g, h \in DOMAIN c \cap NcnGroups : g = h}

\* process_admin_set_config_fees; a wallet is set for the group named, and
\* wallets and the block engine fee change at once.
UpdateFeeConfig(changes, group, wallet, fee) ==
    LET fc == Written(fee_config, changes, epoch)
    IN  /\ \A g \in DOMAIN changes : changes[g] <= MaxFeeBps
        /\ group \in BaseGroups /\ DOMAIN changes \cap BaseGroups \subseteq {group}
        /\ check_fees_okay(fc, fee, epoch) /\ check_fees_okay(fc, fee, epoch + 1)
        /\ fee_config' = fc
        /\ block_engine_fee' = fee
        /\ wallets' = [wallets EXCEPT ![group] = wallet]
        /\ UNCHANGED <<epoch, snapshots, reads, in_force>>

\* initialize_epoch_snapshot copies the fees, for this or an earlier epoch.
InitializeEpochSnapshot(e) ==
    /\ e <= epoch /\ snapshots[e] = NoFees
    /\ snapshots' = [snapshots EXCEPT ![e] = current_fees(fee_config, e).bps]
    /\ UNCHANGED <<fee_config, block_engine_fee, wallets, epoch, reads, in_force>>

\* An operator's process_epoch reads the total fees of the epoch it votes in.
ProcessEpoch ==
    /\ reads' = reads \cup {adjusted_fee_bps(total_fees_bps(current_fees(fee_config, epoch).bps),
                                            block_engine_fee)}
    /\ UNCHANGED <<fee_config, block_engine_fee, wallets, epoch, snapshots, in_force>>

NextEpoch ==
    /\ epoch < MaxEpoch
    /\ epoch' = epoch + 1
    /\ in_force' = [e \in 0 .. epoch + 1 |->
                       IF e <= epoch THEN in_force[e] ELSE current_fees(fee_config, e).bps]
    /\ reads' = {}
    /\ UNCHANGED <<fee_config, block_engine_fee, wallets, snapshots>>

Next ==
    \/ \E changes \in Changes, group \in BaseGroups, wallet \in Wallets, fee \in BlockEngineFees :
          UpdateFeeConfig(changes, group, wallet, fee)
    \/ \E e \in 0 .. MaxEpoch : InitializeEpochSnapshot(e)
    \/ ProcessEpoch
    \/ NextEpoch

Spec == Init /\ [][Next]_vars

-----------------------------------------------------------------------------
(* Properties                                                              *)

Fees == [activation_epoch : Nat, bps : [Groups -> 0 .. MaxFeeBps]]

\* The type invariant: no fee is above the cap, and the block engine leaves
\* something, so adjusted_fee_bps never divides by zero.
TypeOK ==
    /\ fee_config \in [Buffers -> Fees]
    /\ block_engine_fee \in 0 .. MaxFeeBps - 1
    /\ wallets \in [BaseGroups -> Wallets]
    /\ epoch \in 0 .. MaxEpoch
    /\ snapshots \in [0 .. MaxEpoch -> [Groups -> 0 .. MaxFeeBps] \cup {NoFees}]
    /\ reads \subseteq Nat
    /\ in_force \in [0 .. epoch -> [Groups -> 0 .. MaxFeeBps]]

\* The buffers of update_updatable_epoch: at most one of them is scheduled, for
\* the next epoch, so the other one is in force.
OneIsScheduled ==
    /\ \A b \in Buffers : fee_config[b].activation_epoch <= epoch + 1
    /\ \E b \in Buffers : fee_config[b].activation_epoch <= epoch

current_bps == current_fees(fee_config, epoch).bps
next_bps == current_fees(fee_config, epoch + 1).bps
ValidFees == {bps \in [Groups -> 0 .. MaxFeeBps] : total_fees_bps(bps) \in 1 .. MaxFeeBps}
Schedule == INSTANCE FeeSchedule WITH current <- current_bps, next <- next_bps

\* "Two fees so that we can update one and use the other, on the epoch boundary
\* we switch": no update of update_fee_config moves the fees in force, none is
\* lost at the boundary, and the fees of this and of the next epoch are always
\* within the cap.
ImplementsSchedule == Schedule!Spec

\* update_fee_config keeps what earlier updates of this and of past epochs set:
\* one call moves the coming fee of at most one base and one NCN group.
UpdatesAccumulate ==
    [][\A G \in {BaseGroups, NcnGroups} : \A g, h \in G :
          epoch' = epoch /\ next_bps'[g] # next_bps[g] /\ next_bps'[h] # next_bps[h] => g = h]_vars

\* The fees initialize_epoch_snapshot copies before the epoch ends are the ones
\* the epoch began with, whatever was updated since.
TimelySnapshot ==
    [][\A e \in 0 .. epoch : e = epoch /\ snapshots'[e] # snapshots[e]
          => snapshots'[e] = in_force[e]]_vars

\* "This is important so all operators calculate the same Merkle root regardless
\* of when fee changes take place": all process_epoch calls of an epoch get one total.
OperatorsAgreeOnFees == \A t, u \in reads : t = u
=============================================================================
