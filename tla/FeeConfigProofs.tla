--------------------------- MODULE FeeConfigProofs ---------------------------
(***************************************************************************)
(* Proofs about FeeConfig: the two buffers implement the abstract fee      *)
(* schedule, for every set of groups, fees, cap and number of epochs.      *)
(***************************************************************************)
EXTENDS FeeConfig, TLAPS

\* The fees in force now and the ones coming next both passed check_fees_okay.
WithinCap ==
    /\ total_fees_bps(current_bps) \in 1 .. MaxFeeBps
    /\ total_fees_bps(next_bps) \in 1 .. MaxFeeBps

\* The history has the fees of the current epoch.
HistoryIsCurrent == in_force[epoch] = current_bps

\* Two buffers with one activation epoch are the same: set_fees_to_current
\* copies nothing then, as current_fees and updatable_fees both choose fee_1,
\* and it is fee_2 that stays in force.
TiedBuffersAreEqual(fc) ==
    fc["fee_1"].activation_epoch = fc["fee_2"].activation_epoch => fc["fee_1"] = fc["fee_2"]

IInv ==
    /\ TypeOK
    /\ OneIsScheduled
    /\ TiedBuffersAreEqual(fee_config)
    /\ WithinCap
    /\ HistoryIsCurrent

-----------------------------------------------------------------------------
(* The buffers                                                             *)

\* What the invariant says of the activation epochs, for any pair of buffers.
Scheduled(fc, e) ==
    /\ TiedBuffersAreEqual(fc)
    /\ \A b \in Buffers : fc[b].activation_epoch <= e + 1
    /\ \E b \in Buffers : fc[b].activation_epoch <= e

\* current_fees returns one of the two buffers.
LEMMA CurrentIsABuffer ==
    ASSUME NEW fc \in [Buffers -> Fees], NEW e \in Nat
    PROVE  /\ CurrentBuffer(fc, e) \in Buffers
           /\ current_fees(fc, e) \in Fees
           /\ current_fees(fc, e).bps \in [Groups -> 0 .. MaxFeeBps]
<1>1. CurrentBuffer(fc, e) \in Buffers
  BY DEF CurrentBuffer, Buffers
<1>2. current_fees(fc, e) \in Fees
  BY <1>1 DEF current_fees
<1> QED BY <1>1, <1>2 DEF Fees

\* With nothing scheduled beyond e, the fees of e stay in force.
LEMMA NothingLater ==
    ASSUME NEW fc \in [Buffers -> Fees], NEW e \in Nat,
           \A b \in Buffers : fc[b].activation_epoch <= e
    PROVE  current_fees(fc, e + 1) = current_fees(fc, e)
<1>1. /\ fc["fee_1"].activation_epoch \in Nat /\ fc["fee_2"].activation_epoch \in Nat
      /\ fc["fee_1"].activation_epoch <= e /\ fc["fee_2"].activation_epoch <= e
  BY DEF Buffers, Fees
<1>2. CurrentBuffer(fc, e + 1) = CurrentBuffer(fc, e)
  BY <1>1 DEF CurrentBuffer
<1> QED BY <1>2 DEF current_fees

\* One call of update_fee_config: the buffer that is not in force gets the
\* changes, on top of what was coming, and is scheduled for the next epoch.
LEMMA WrittenBuffers ==
    ASSUME NEW fc \in [Buffers -> Fees], NEW e \in Nat, Scheduled(fc, e), NEW changes
    PROVE  \E b \in Buffers, c \in Buffers :
              /\ b # c
              /\ Written(fc, changes, e)
                  = [x \in Buffers |->
                        IF x = b
                        THEN [activation_epoch |-> e + 1,
                              bps |-> Changed(current_fees(fc, e + 1).bps, changes)]
                        ELSE current_fees(fc, e)]
<1> DEFINE a1 == fc["fee_1"].activation_epoch
           a2 == fc["fee_2"].activation_epoch
<1>1. /\ a1 \in Nat /\ a2 \in Nat /\ a1 <= e + 1 /\ a2 <= e + 1 /\ (a1 <= e \/ a2 <= e)
      /\ "fee_1" \in Buffers /\ "fee_2" \in Buffers /\ "fee_1" # "fee_2"
      /\ Buffers = {"fee_1", "fee_2"}
  BY DEF Scheduled, Buffers, Fees
<1>2. CASE a1 > e
  <2>1. /\ UpdatableBuffer(fc, e) = "fee_1" /\ CopyOver(fc, e) = fc
        /\ CurrentBuffer(fc, e) = "fee_2" /\ CurrentBuffer(fc, e + 1) = "fee_1"
    BY <1>1, <1>2 DEF UpdatableBuffer, CopyOver, CurrentBuffer
  <2>2. Written(fc, changes, e)
          = [fc EXCEPT !["fee_1"] = [activation_epoch |-> e + 1,
                                     bps |-> Changed(fc["fee_1"].bps, changes)]]
    BY <2>1, <1>1 DEF Written
  <2>3. current_fees(fc, e) = fc["fee_2"] /\ current_fees(fc, e + 1) = fc["fee_1"]
    BY <2>1 DEF current_fees
  <2>4. Written(fc, changes, e)
          = [x \in Buffers |->
                IF x = "fee_1"
                THEN [activation_epoch |-> e + 1, bps |-> Changed(fc["fee_1"].bps, changes)]
                ELSE fc["fee_2"]]
    BY <2>2, <1>1
  <2> QED BY <2>3, <2>4, <1>1
<1>3. CASE a1 <= e /\ a2 > e
  <2>1. /\ UpdatableBuffer(fc, e) = "fee_2" /\ CopyOver(fc, e) = fc
        /\ CurrentBuffer(fc, e) = "fee_1" /\ CurrentBuffer(fc, e + 1) = "fee_2"
    BY <1>1, <1>3 DEF UpdatableBuffer, CopyOver, CurrentBuffer
  <2>2. Written(fc, changes, e)
          = [fc EXCEPT !["fee_2"] = [activation_epoch |-> e + 1,
                                     bps |-> Changed(fc["fee_2"].bps, changes)]]
    BY <2>1, <1>1 DEF Written
  <2>3. current_fees(fc, e) = fc["fee_1"] /\ current_fees(fc, e + 1) = fc["fee_2"]
    BY <2>1 DEF current_fees
  <2>4. Written(fc, changes, e)
          = [x \in Buffers |->
                IF x = "fee_2"
                THEN [activation_epoch |-> e + 1, bps |-> Changed(fc["fee_2"].bps, changes)]
                ELSE fc["fee_1"]]
    BY <2>2, <1>1
  <2> QED BY <2>3, <2>4, <1>1
<1>4. CASE a1 <= e /\ a2 <= e
  <2> DEFINE cur == current_fees(fc, e)
             cp == CopyOver(fc, e)
  <2>1. cur \in Fees /\ current_fees(fc, e + 1) = cur
    BY <1>1, <1>4, CurrentIsABuffer, NothingLater
  <2>2. cp = [x \in Buffers |-> cur]
    <3>1. cur = IF a1 >= a2 THEN fc["fee_1"] ELSE fc["fee_2"]
      BY <1>1, <1>4 DEF current_fees, CurrentBuffer
    <3>2. UpdatableBuffer(fc, e) = IF a1 <= a2 THEN "fee_1" ELSE "fee_2"
      BY <1>1, <1>4 DEF UpdatableBuffer
    <3>3. cp = [fc EXCEPT ![UpdatableBuffer(fc, e)] = cur]
      BY <1>1, <1>4, <3>2 DEF CopyOver
    <3> HIDE DEF cur, cp
    <3>4. CASE a1 < a2
      <4>a. UpdatableBuffer(fc, e) = "fee_1" /\ cur = fc["fee_2"]
        BY <1>1, <3>1, <3>2, <3>4
      <4>1. cur = fc["fee_2"] /\ cp = [fc EXCEPT !["fee_1"] = cur]
        BY <4>a, <3>3
      <4> QED BY <4>1, <1>1
    <3>5. CASE a1 > a2
      <4>a. UpdatableBuffer(fc, e) = "fee_2" /\ cur = fc["fee_1"]
        BY <1>1, <3>1, <3>2, <3>5
      <4>1. cur = fc["fee_1"] /\ cp = [fc EXCEPT !["fee_2"] = cur]
        BY <4>a, <3>3
      <4> QED BY <4>1, <1>1
    <3>6. CASE a1 = a2
      <4>1. cur = fc["fee_1"] /\ cur = fc["fee_2"] /\ cp = fc
        BY <1>1, <3>1, <3>2, <3>3, <3>6 DEF Scheduled, TiedBuffersAreEqual
      <4> QED BY <4>1, <1>1
    <3> QED BY <1>1, <3>4, <3>5, <3>6
  <2>3. UpdatableBuffer(cp, e) = "fee_1"
    <3>1. cur.activation_epoch \in Nat /\ cur.activation_epoch <= e
      BY <1>1, <1>4 DEF current_fees, CurrentBuffer
    <3> QED BY <2>2, <3>1, <1>1 DEF UpdatableBuffer
  <2>4. Written(fc, changes, e)
          = [cp EXCEPT !["fee_1"] = [activation_epoch |-> e + 1,
                                     bps |-> Changed(cp["fee_1"].bps, changes)]]
    BY <2>3 DEF Written
  <2> HIDE DEF cur, cp
  <2>5. Written(fc, changes, e)
          = [x \in Buffers |-> IF x = "fee_1"
                               THEN [activation_epoch |-> e + 1, bps |-> Changed(cur.bps, changes)]
                               ELSE cur]
    BY <2>2, <2>4, <1>1
  <2> QED BY <2>1, <2>5, <1>1 DEF cur
<1> QED BY <1>1, <1>2, <1>3, <1>4

\* What one call of update_fee_config does to the fees in force, to the coming
\* ones, and to the activation epochs.
LEMMA WrittenFees ==
    ASSUME NEW fc \in [Buffers -> Fees], NEW e \in Nat, Scheduled(fc, e), NEW changes,
           Changed(current_fees(fc, e + 1).bps, changes) \in [Groups -> 0 .. MaxFeeBps]
    PROVE  /\ Written(fc, changes, e) \in [Buffers -> Fees]
           /\ Scheduled(Written(fc, changes, e), e)
           /\ current_fees(Written(fc, changes, e), e) = current_fees(fc, e)
           /\ current_fees(Written(fc, changes, e), e + 1).bps
                = Changed(current_fees(fc, e + 1).bps, changes)
<1> DEFINE cur == current_fees(fc, e)
           new == [activation_epoch |-> e + 1,
                   bps |-> Changed(current_fees(fc, e + 1).bps, changes)]
           w == Written(fc, changes, e)
<1>1. PICK b \in Buffers, c \in Buffers :
         b # c /\ w = [x \in Buffers |-> IF x = b THEN new ELSE cur]
  BY WrittenBuffers
<1>2. cur \in Fees /\ new \in Fees
  BY CurrentIsABuffer DEF Fees
<1>3. cur.activation_epoch \in Nat /\ cur.activation_epoch <= e
  BY DEF current_fees, CurrentBuffer, Scheduled, Buffers, Fees
<1>4. new.activation_epoch = e + 1
  OBVIOUS
<1>5. new.bps = Changed(current_fees(fc, e + 1).bps, changes)
  OBVIOUS
<1> HIDE DEF cur, new, w
<1>6. w \in [Buffers -> Fees]
  BY <1>1, <1>2
<1>7. CASE b = "fee_1"
  <2>1. w["fee_1"] = new /\ w["fee_2"] = cur
    BY <1>1, <1>7 DEF Buffers
  <2>2. Scheduled(w, e)
    BY <2>1, <1>3, <1>4 DEF Scheduled, TiedBuffersAreEqual, Buffers
  <2>3. current_fees(w, e) = cur /\ current_fees(w, e + 1) = new
    BY <2>1, <1>3, <1>4 DEF current_fees, CurrentBuffer
  <2> QED BY <2>2, <2>3, <1>5, <1>6 DEF cur, w
<1>8. CASE b = "fee_2"
  <2>1. w["fee_1"] = cur /\ w["fee_2"] = new
    BY <1>1, <1>8 DEF Buffers
  <2>2. Scheduled(w, e)
    BY <2>1, <1>3, <1>4 DEF Scheduled, TiedBuffersAreEqual, Buffers
  <2>3. current_fees(w, e) = cur /\ current_fees(w, e + 1) = new
    BY <2>1, <1>3, <1>4 DEF current_fees, CurrentBuffer
  <2> QED BY <2>2, <2>3, <1>5, <1>6 DEF cur, w
<1> QED BY <1>7, <1>8 DEF Buffers

\* The fees a call sets are within the cap, so the changed fees are too.
LEMMA ChangedIsTyped ==
    ASSUME NEW bps \in [Groups -> 0 .. MaxFeeBps], NEW changes \in Changes,
           \A g \in DOMAIN changes : changes[g] <= MaxFeeBps
    PROVE  Changed(bps, changes) \in [Groups -> 0 .. MaxFeeBps]
<1>1. PICK S \in SUBSET Groups : changes \in [S -> Values]
  BY DEF Changes
<1>2. \A g \in DOMAIN changes : changes[g] \in 0 .. MaxFeeBps
  <2>1. DOMAIN changes = S /\ \A g \in S : changes[g] \in Values
    BY <1>1
  <2>2. Values \subseteq Nat /\ MaxFeeBps \in Nat
    BY FeesAssumption
  <2> SUFFICES ASSUME NEW g \in DOMAIN changes PROVE changes[g] \in 0 .. MaxFeeBps
    OBVIOUS
  <2>3. changes[g] \in Nat
    BY <2>1, <2>2
  <2>4. changes[g] <= MaxFeeBps
    OBVIOUS
  <2> QED BY <2>2, <2>3, <2>4
<1> QED BY <1>2 DEF Changed

-----------------------------------------------------------------------------
(* The invariant                                                           *)

\* initialize_config establishes the invariant.
LEMMA InitInv == Init => IInv
<1> SUFFICES ASSUME Init PROVE IInv
  OBVIOUS
<1>1. PICK b \in Values, n \in Values :
         LET fees == [activation_epoch |-> epoch,
                      bps |-> [g \in Groups |-> IF g = DefaultBase THEN b
                                                ELSE IF g = DefaultNcn THEN n ELSE 0]]
         IN  /\ b <= MaxFeeBps /\ n <= MaxFeeBps
             /\ fee_config = [x \in Buffers |-> fees]
             /\ in_force = [e \in {0} |-> fees.bps]
  BY DEF Init
<1> DEFINE bps == [g \in Groups |-> IF g = DefaultBase THEN b
                                    ELSE IF g = DefaultNcn THEN n ELSE 0]
           fees == [activation_epoch |-> 0, bps |-> bps]
<1>2. epoch = 0 /\ fee_config = [x \in Buffers |-> fees] /\ in_force = [e \in {0} |-> bps]
  BY <1>1 DEF Init
<1>3. bps \in [Groups -> 0 .. MaxFeeBps]
  BY <1>1, FeesAssumption
<1>4. fees \in Fees /\ fees.activation_epoch = 0 /\ fees.bps = bps
  BY <1>3 DEF Fees
<1> HIDE DEF bps, fees
<1>5. /\ fee_config \in [Buffers -> Fees]
      /\ fee_config["fee_1"] = fees /\ fee_config["fee_2"] = fees
  BY <1>2, <1>4 DEF Buffers
<1>6. current_bps = bps /\ next_bps = bps
  BY <1>2, <1>4, <1>5 DEF current_bps, next_bps, current_fees, CurrentBuffer
<1>7. block_engine_fee \in 0 .. MaxFeeBps - 1 /\ total_fees_bps(current_bps) \in 1 .. MaxFeeBps
  BY FeesAssumption DEF Init, check_fees_okay, current_bps
<1>8. /\ wallets \in [BaseGroups -> Wallets] /\ epoch \in 0 .. MaxEpoch /\ reads \subseteq Nat
      /\ snapshots \in [0 .. MaxEpoch -> [Groups -> 0 .. MaxFeeBps] \cup {NoFees}]
  BY FeesAssumption DEF Init
<1>9. in_force \in [0 .. epoch -> [Groups -> 0 .. MaxFeeBps]] /\ in_force[epoch] = bps
  BY <1>2, <1>3
<1>10. OneIsScheduled /\ TiedBuffersAreEqual(fee_config)
  BY <1>2, <1>4, <1>5 DEF OneIsScheduled, TiedBuffersAreEqual, Buffers
<1> QED
  BY <1>5, <1>6, <1>7, <1>8, <1>9, <1>10 DEF IInv, TypeOK, WithinCap, HistoryIsCurrent

\* admin_set_config_fees leaves the fees in force and changes the coming ones.
LEMMA UpdateFacts ==
    ASSUME IInv, NEW changes \in Changes, NEW group, NEW wallet, NEW fee \in BlockEngineFees,
           UpdateFeeConfig(changes, group, wallet, fee)
    PROVE  /\ fee_config' \in [Buffers -> Fees]
           /\ OneIsScheduled' /\ TiedBuffersAreEqual(fee_config)'
           /\ current_bps' = current_bps
           /\ next_bps' = Changed(next_bps, changes)
           /\ WithinCap'
           /\ block_engine_fee' \in 0 .. MaxFeeBps - 1
<1> DEFINE w == Written(fee_config, changes, epoch)
<1>1. epoch \in Nat /\ fee_config \in [Buffers -> Fees] /\ Scheduled(fee_config, epoch)
  BY FeesAssumption DEF IInv, TypeOK, OneIsScheduled, Scheduled
<1>2. next_bps \in [Groups -> 0 .. MaxFeeBps]
  BY <1>1, CurrentIsABuffer DEF next_bps
<1>3. \A g \in DOMAIN changes : changes[g] <= MaxFeeBps
  BY DEF UpdateFeeConfig
<1>4. Changed(next_bps, changes) \in [Groups -> 0 .. MaxFeeBps]
  BY <1>2, <1>3, ChangedIsTyped
<1>5. /\ w \in [Buffers -> Fees] /\ Scheduled(w, epoch)
      /\ current_fees(w, epoch) = current_fees(fee_config, epoch)
      /\ current_fees(w, epoch + 1).bps = Changed(next_bps, changes)
  BY <1>1, <1>4, WrittenFees DEF next_bps
<1>6. /\ fee_config' = w /\ epoch' = epoch /\ block_engine_fee' = fee
      /\ check_fees_okay(w, fee, epoch) /\ check_fees_okay(w, fee, epoch + 1)
  BY DEF UpdateFeeConfig
<1> HIDE DEF w
<1>7. OneIsScheduled' /\ TiedBuffersAreEqual(fee_config)'
  BY <1>5, <1>6 DEF Scheduled, OneIsScheduled, TiedBuffersAreEqual
<1>8. current_bps' = current_bps /\ next_bps' = Changed(next_bps, changes)
  BY <1>5, <1>6 DEF current_bps, next_bps
<1>9. WithinCap'
  BY <1>6 DEF WithinCap, check_fees_okay, current_bps, next_bps
<1>10. fee \in 0 .. MaxFeeBps - 1
  BY <1>6, FeesAssumption DEF check_fees_okay
<1> QED BY <1>5, <1>6, <1>7, <1>8, <1>9, <1>10

\* At the epoch boundary the coming fees come into force, and nothing else is
\* scheduled.
LEMMA BoundaryFacts ==
    ASSUME IInv, NextEpoch
    PROVE  /\ current_bps' = next_bps /\ next_bps' = next_bps
           /\ OneIsScheduled' /\ TiedBuffersAreEqual(fee_config)'
<1>1. /\ epoch \in Nat /\ epoch' = epoch + 1 /\ fee_config' = fee_config
      /\ fee_config \in [Buffers -> Fees]
      /\ \A b \in Buffers : fee_config[b].activation_epoch <= epoch + 1
  BY FeesAssumption DEF IInv, TypeOK, OneIsScheduled, NextEpoch
<1>2. current_fees(fee_config, epoch + 1 + 1) = current_fees(fee_config, epoch + 1)
  BY <1>1, NothingLater
<1>3. current_bps' = next_bps /\ next_bps' = next_bps
  BY <1>1, <1>2 DEF current_bps, next_bps
<1>4. OneIsScheduled'
  BY <1>1 DEF OneIsScheduled, Buffers, Fees
<1> QED BY <1>1, <1>3, <1>4 DEF IInv, TiedBuffersAreEqual

\* Every step keeps the invariant.
LEMMA NextInv == IInv /\ [Next]_vars => IInv'
<1> SUFFICES ASSUME IInv, [Next]_vars PROVE IInv'
  OBVIOUS
<1>a. /\ epoch \in Nat /\ fee_config \in [Buffers -> Fees] /\ MaxEpoch \in Nat
      /\ MaxFeeBps \in Nat
  BY FeesAssumption DEF IInv, TypeOK
<1>1. ASSUME NEW changes \in Changes, NEW group \in BaseGroups, NEW wallet \in Wallets,
             NEW fee \in BlockEngineFees, UpdateFeeConfig(changes, group, wallet, fee)
      PROVE  IInv'
  <2>1. /\ fee_config' \in [Buffers -> Fees]
        /\ OneIsScheduled' /\ TiedBuffersAreEqual(fee_config)'
        /\ current_bps' = current_bps
        /\ WithinCap'
        /\ block_engine_fee' \in 0 .. MaxFeeBps - 1
    BY <1>1, UpdateFacts
  <2>2. /\ UNCHANGED <<epoch, snapshots, reads, in_force>>
        /\ wallets' = [wallets EXCEPT ![group] = wallet]
    BY <1>1 DEF UpdateFeeConfig
  <2>3. TypeOK'
    BY <2>1, <2>2, <1>1 DEF IInv, TypeOK
  <2>4. HistoryIsCurrent'
    BY <2>1, <2>2 DEF IInv, HistoryIsCurrent
  <2> QED BY <2>1, <2>3, <2>4 DEF IInv
<1>2. ASSUME NEW e \in 0 .. MaxEpoch, InitializeEpochSnapshot(e) PROVE IInv'
  <2>1. current_fees(fee_config, e).bps \in [Groups -> 0 .. MaxFeeBps]
    BY <1>a, <1>2, CurrentIsABuffer
  <2>2. UNCHANGED <<fee_config, block_engine_fee, wallets, epoch, reads, in_force>>
    BY <1>2 DEF InitializeEpochSnapshot
  <2>3. TypeOK'
    BY <1>2, <2>1, <2>2 DEF IInv, TypeOK, InitializeEpochSnapshot
  <2> QED BY <2>2, <2>3 DEF IInv, OneIsScheduled, TiedBuffersAreEqual, WithinCap,
                            HistoryIsCurrent, current_bps, next_bps
<1>3. CASE ProcessEpoch
  <2> DEFINE t == total_fees_bps(current_bps)
             r == MaxFeeBps - block_engine_fee
  <2>1. t \in Nat /\ r \in Nat /\ r > 0
    BY <1>a DEF IInv, TypeOK, WithinCap
  <2>2. t * MaxFeeBps \in Nat
    BY <2>1, <1>a
  <2> HIDE DEF t, r
  <2>3. adjusted_fee_bps(t, block_engine_fee) \in Nat
    <3>1. \A x \in Nat, y \in Nat : y > 0 => x \div y \in Nat
      BY SMT
    <3> QED BY <2>1, <2>2, <3>1 DEF adjusted_fee_bps, r
  <2>4. /\ UNCHANGED <<fee_config, block_engine_fee, wallets, epoch, snapshots, in_force>>
        /\ reads' = reads \cup {adjusted_fee_bps(t, block_engine_fee)}
    BY <1>3 DEF ProcessEpoch, t, current_bps
  <2>5. TypeOK'
    BY <2>3, <2>4 DEF IInv, TypeOK
  <2> QED BY <2>4, <2>5 DEF IInv, OneIsScheduled, TiedBuffersAreEqual, WithinCap,
                            HistoryIsCurrent, current_bps, next_bps
<1>4. CASE NextEpoch
  <2>1. /\ current_bps' = next_bps /\ next_bps' = next_bps
        /\ OneIsScheduled' /\ TiedBuffersAreEqual(fee_config)'
    BY <1>4, BoundaryFacts
  <2>2. /\ epoch < MaxEpoch /\ epoch' = epoch + 1 /\ reads' = {}
        /\ UNCHANGED <<fee_config, block_engine_fee, wallets, snapshots>>
        /\ in_force' = [e \in 0 .. epoch + 1 |->
                           IF e <= epoch THEN in_force[e] ELSE current_fees(fee_config, e).bps]
    BY <1>4 DEF NextEpoch
  <2>3. \A e \in 0 .. epoch + 1 : current_fees(fee_config, e).bps \in [Groups -> 0 .. MaxFeeBps]
    BY <1>a, CurrentIsABuffer
  <2>4. in_force' \in [0 .. epoch' -> [Groups -> 0 .. MaxFeeBps]]
    BY <2>2, <2>3, <1>a DEF IInv, TypeOK
  <2>5. TypeOK'
    BY <2>2, <2>4, <1>a DEF IInv, TypeOK
  <2>6. HistoryIsCurrent'
    BY <2>2, <1>a DEF HistoryIsCurrent, current_bps
  <2> QED BY <2>1, <2>5, <2>6 DEF IInv, WithinCap
<1>5. CASE UNCHANGED vars
  BY <1>5 DEF vars, IInv, TypeOK, OneIsScheduled, TiedBuffersAreEqual, WithinCap,
              HistoryIsCurrent, current_bps, next_bps
<1> QED BY <1>1, <1>2, <1>3, <1>4, <1>5 DEF Next

\* The type invariant, and that at most one buffer is scheduled.
THEOREM FeeBuffersInvariant == Spec => [](TypeOK /\ OneIsScheduled)
<1>1. IInv => TypeOK /\ OneIsScheduled
  BY DEF IInv
<1> QED BY <1>1, InitInv, NextInv, PTL DEF Spec

\* The fees initialize_epoch_snapshot copies during an epoch are those it began
\* with, whatever admin_set_config_fees did in between.
THEOREM SnapshotsAreTimely == Spec => TimelySnapshot
<1>1. IInv /\ [Next]_vars
      => [\A e \in 0 .. epoch : e = epoch /\ snapshots'[e] # snapshots[e]
             => snapshots'[e] = in_force[e]]_vars
  <2> SUFFICES ASSUME IInv, Next, NEW e \in 0 .. epoch, e = epoch, snapshots'[e] # snapshots[e]
               PROVE  snapshots'[e] = in_force[e]
    OBVIOUS
  <2>1. PICK f \in 0 .. MaxEpoch : InitializeEpochSnapshot(f)
    BY DEF Next, UpdateFeeConfig, ProcessEpoch, NextEpoch
  <2>2. f = e /\ snapshots'[e] = current_bps
    BY <2>1 DEF InitializeEpochSnapshot, IInv, TypeOK, current_bps
  <2> QED BY <2>2 DEF IInv, HistoryIsCurrent
<1> QED BY <1>1, InitInv, NextInv, PTL DEF Spec, TimelySnapshot

\* One call of update_fee_config moves the coming fees of the groups it names.
THEOREM UpdatesDoAccumulate == Spec => UpdatesAccumulate
<1> DEFINE A == \A G \in {BaseGroups, NcnGroups} : \A g, h \in G :
                  epoch' = epoch /\ next_bps'[g] # next_bps[g] /\ next_bps'[h] # next_bps[h]
                  => g = h
<1>1. IInv /\ [Next]_vars => [A]_vars
  <2> SUFFICES ASSUME IInv, Next, epoch' = epoch PROVE A
    OBVIOUS
  <2>1. ASSUME NEW changes \in Changes, NEW group \in BaseGroups, NEW wallet \in Wallets,
               NEW fee \in BlockEngineFees, UpdateFeeConfig(changes, group, wallet, fee)
        PROVE  A
    <3>1. next_bps' = Changed(next_bps, changes)
      BY <2>1, UpdateFacts
    <3>2. \A g \in Groups : next_bps'[g] # next_bps[g] => g \in DOMAIN changes
      BY <3>1 DEF Changed
    <3>3. /\ \A g, h \in DOMAIN changes \cap BaseGroups : g = h
          /\ \A g, h \in DOMAIN changes \cap NcnGroups : g = h
      BY <2>1 DEF Changes
    <3> QED BY <3>2, <3>3 DEF Groups
  <2>2. ASSUME NEW e \in 0 .. MaxEpoch, InitializeEpochSnapshot(e) PROVE A
    BY <2>2 DEF InitializeEpochSnapshot, next_bps
  <2>3. CASE ProcessEpoch
    BY <2>3 DEF ProcessEpoch, next_bps
  <2>4. ~NextEpoch
    BY FeesAssumption DEF NextEpoch, IInv, TypeOK
  <2> QED BY <2>1, <2>2, <2>3, <2>4 DEF Next
<1> QED BY <1>1, InitInv, NextInv, PTL DEF Spec, UpdatesAccumulate

-----------------------------------------------------------------------------
(* Refinement                                                              *)

\* The fees of the current and of the next epoch are valid.
LEMMA ValidNow == IInv => epoch \in Nat /\ current_bps \in ValidFees /\ next_bps \in ValidFees
<1> SUFFICES ASSUME IInv PROVE epoch \in Nat /\ current_bps \in ValidFees /\ next_bps \in ValidFees
  OBVIOUS
<1>1. epoch \in Nat /\ fee_config \in [Buffers -> Fees]
  BY FeesAssumption DEF IInv, TypeOK
<1>2. current_bps \in [Groups -> 0 .. MaxFeeBps] /\ next_bps \in [Groups -> 0 .. MaxFeeBps]
  BY <1>1, CurrentIsABuffer DEF current_bps, next_bps
<1> QED BY <1>1, <1>2 DEF ValidFees, IInv, WithinCap

\* The two fee buffers implement the abstract schedule.
THEOREM BuffersImplementSchedule == Spec => ImplementsSchedule
<1>1. Init => Schedule!Init
  <2> SUFFICES ASSUME Init PROVE Schedule!Init
    OBVIOUS
  <2>1. IInv
    BY InitInv
  <2>2. epoch = 0 /\ \A b \in Buffers : fee_config[b].activation_epoch <= epoch
    BY DEF Init, Buffers
  <2>3. next_bps = current_bps
    BY <2>1, <2>2, NothingLater DEF next_bps, current_bps, IInv, TypeOK
  <2> QED BY <2>1, <2>3, ValidNow DEF Schedule!Init
<1>2. IInv /\ IInv' /\ [Next]_vars => [Schedule!Next]_(Schedule!schedule)
  <2> SUFFICES ASSUME IInv, IInv', [Next]_vars
               PROVE  Schedule!Next \/ UNCHANGED <<epoch, current_bps, next_bps>>
    BY DEF Schedule!schedule
  <2>1. ASSUME NEW changes \in Changes, NEW group \in BaseGroups, NEW wallet \in Wallets,
               NEW fee \in BlockEngineFees, UpdateFeeConfig(changes, group, wallet, fee)
        PROVE  Schedule!Next
    <3>1. current_bps' = current_bps /\ epoch' = epoch
      BY <2>1, UpdateFacts DEF UpdateFeeConfig
    <3>2. (next_bps \in ValidFees)'
      BY ValidNow, PTL
    <3> QED BY <3>1, <3>2 DEF Schedule!Next, Schedule!Update
  <2>2. ASSUME NEW e \in 0 .. MaxEpoch, InitializeEpochSnapshot(e)
        PROVE  UNCHANGED <<epoch, current_bps, next_bps>>
    BY <2>2 DEF InitializeEpochSnapshot, current_bps, next_bps
  <2>3. CASE ProcessEpoch
    BY <2>3 DEF ProcessEpoch, current_bps, next_bps
  <2>4. CASE NextEpoch
    BY <2>4, BoundaryFacts DEF NextEpoch, Schedule!Next, Schedule!NextEpoch
  <2>5. CASE UNCHANGED vars
    BY <2>5 DEF vars, current_bps, next_bps
  <2> QED BY <2>1, <2>2, <2>3, <2>4, <2>5 DEF Next
<1> QED BY <1>1, <1>2, InitInv, NextInv, PTL DEF Spec, ImplementsSchedule, Schedule!Spec
=============================================================================
