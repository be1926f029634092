--------------------------- MODULE SnapshotBackup ---------------------------
(***************************************************************************)
(* The task that backs up the validator's incremental snapshots, and the   *)
(* ledger replay that starts from them.                                    *)
(*                                                                         *)
(* BackupSnapshotMonitor::run polls every 10 s: it copies the newest       *)
(* snapshot of the last and of this epoch, keeps a few of each and purges  *)
(* what is two epochs old.  The validator makes snapshots, late at times,  *)
(* and drops its own old ones.  At every rollover process_epoch waits for  *)
(* a snapshot near the end of the last epoch and replays the ledger to its *)
(* last slot.  A snapshot is its end slot; a file is whole or partial.     *)
(***************************************************************************)
EXTENDS Integers, FiniteSets, FiniteSetsExt

CONSTANTS
    SlotsPerEpoch,    \* DEFAULT_SLOTS_PER_EPOCH
    MaximumPerEpoch,  \* MAXIMUM_BACKUP_INCREMENTAL_SNAPSHOTS_PER_EPOCH
    OptimalRange,     \* OPTIMAL_INCREMENTAL_SNAPSHOT_SLOT_RANGE
    Retained,         \* how many snapshots the validator keeps
    LastEpoch,        \* bound on the epoch of the cluster
    None

EarliestEpoch == 2
Epochs == EarliestEpoch .. LastEpoch
Slots == EarliestEpoch * SlotsPerEpoch .. (LastEpoch + 1) * SlotsPerEpoch - 1
EpochOf(s) == s \div SlotsPerEpoch
LastSlot(e) == (e + 1) * SlotsPerEpoch - 1

VARIABLES
    fragile,   \* whether a copy may fail or be killed half way in this behaviour
    slot,      \* the cluster's slot
    snapshots, \* end slots in the validator's directory
    newest,    \* the last slot a snapshot was made at
    backup,    \* per slot: "none", "partial" or "whole" in the backup directory
    monitor,   \* pc and locals of run
    replay,    \* pc and target of process_epoch
    best       \* history: per epoch, the newest snapshot ever backed up whole

vars == <<fragile, slot, snapshots, newest, backup, monitor, replay, best>>

epoch == EpochOf(slot)

NewMonitor == [pc |-> "tick", target |-> None, last |-> None, this |-> None, copying |-> None]

Init ==
    /\ fragile \in BOOLEAN
    /\ slot = EarliestEpoch * SlotsPerEpoch
    /\ snapshots = {}
    /\ newest = slot - 1
    /\ backup = [s \in Slots |-> "none"]
    /\ monitor = NewMonitor
    /\ replay = [pc |-> "idle", epoch |-> EarliestEpoch, from |-> None, bank |-> None]
    /\ best = [e \in Epochs |-> None]

Present(e) == {s \in Slots : EpochOf(s) = e /\ backup[s] # "none"}

-----------------------------------------------------------------------------
(* BackupSnapshotMonitor                                                   *)

evict_all_epoch_snapshots(b, e) == [s \in Slots |-> IF EpochOf(s) = e THEN "none" ELSE b[s]]

\* The oldest of the epoch go until MaximumPerEpoch are left.
Kept_Oldest(e, files) == {s \in files : Cardinality({t \in files : t < s}) < MaximumPerEpoch}
Kept(e, files) == {s \in files : Cardinality({t \in files : t > s}) < MaximumPerEpoch}
evict_same_epoch_incremental(b, e) ==
    LET files == {s \in Slots : EpochOf(s) = e /\ b[s] # "none"}
    IN  [s \in Slots |-> IF s \in files \ Kept(e, files) THEN "none" ELSE b[s]]

\* A new target moves this epoch's path to the last epoch's and purges what is
\* two epochs older.
get_target_epoch == epoch
EvictedEpoch == epoch - 2
Tick ==
    /\ monitor.pc = "tick"
    /\ IF monitor.target = get_target_epoch
       THEN /\ monitor' = [monitor EXCEPT !.pc = "last"]
            /\ UNCHANGED backup
       ELSE /\ monitor' = [pc |-> "last", target |-> get_target_epoch, last |-> monitor.this,
                           this |-> None, copying |-> None]
            /\ backup' = evict_all_epoch_snapshots(backup, EvictedEpoch)
    /\ UNCHANGED <<fragile, slot, snapshots, newest, replay, best>>

\* An RPC error at the tick ends run; the task makes a new monitor.
RunFails ==
    /\ monitor.pc = "tick"
    /\ monitor # NewMonitor
    /\ monitor' = NewMonitor
    /\ UNCHANGED <<fragile, slot, snapshots, newest, backup, replay, best>>

\* The process is killed and started again.
Killed ==
    /\ monitor.pc # "tick"
    /\ monitor.copying = None \/ fragile
    /\ monitor' = NewMonitor
    /\ replay' = [pc |-> "idle", epoch |-> replay.epoch, from |-> None, bank |-> None]
    /\ UNCHANGED <<fragile, slot, snapshots, newest, backup, best>>

\* backup_latest_for_target_slot for the last epoch's target and then for
\* this epoch's, both as get_target_slots had them at the tick.
TargetEpoch_ThisOnly == monitor.target
TargetEpoch == IF monitor.pc = "last" THEN monitor.target - 1 ELSE monitor.target
NextPc == IF monitor.pc = "last" THEN "this" ELSE "tick"
AtBackup == monitor.pc \in {"last", "this"} /\ monitor.copying = None

find_closest_incremental ==
    {s \in snapshots : s <= LastSlot(TargetEpoch) /\ EpochOf(s) = TargetEpoch}
Closest == Max(find_closest_incremental)
Noted == IF monitor.pc = "last" THEN monitor.last ELSE monitor.this
HasNew == find_closest_incremental # {} /\ Noted # Closest

NothingNew ==
    /\ AtBackup
    /\ ~ HasNew
    /\ monitor' = [monitor EXCEPT !.pc = NextPc]
    /\ UNCHANGED <<fragile, slot, snapshots, newest, backup, replay, best>>

\* What follows a successful backup of s: the path is noted, older files go.
BackedUp(s, b) ==
    /\ monitor' = IF monitor.pc = "last"
                  THEN [monitor EXCEPT !.last = s, !.pc = NextPc, !.copying = None]
                  ELSE [monitor EXCEPT !.this = s, !.pc = NextPc, !.copying = None]
    /\ backup' = evict_same_epoch_incremental(b, TargetEpoch)

\* A file of that name in the backup directory is taken for the backup.
AlreadyExists ==
    /\ AtBackup
    /\ HasNew
    /\ backup[Closest] # "none"
    /\ BackedUp(Closest, backup)
    /\ UNCHANGED <<fragile, slot, snapshots, newest, replay, best>>

StartCopy ==
    /\ AtBackup
    /\ HasNew
    /\ backup[Closest] = "none"
    /\ backup' = [backup EXCEPT ![Closest] = "partial"]
    /\ monitor' = [monitor EXCEPT !.copying = Closest]
    /\ UNCHANGED <<fragile, slot, snapshots, newest, replay, best>>

\* The copy is complete and its size is that of the source.
EndCopy ==
    LET s == monitor.copying
    IN  /\ s # None
        /\ BackedUp(s, [backup EXCEPT ![s] = "whole"])
        /\ best' = [best EXCEPT ![EpochOf(s)] = IF @ = None THEN s ELSE Max({@, s})]
        /\ UNCHANGED <<fragile, slot, snapshots, newest, replay>>

\* The copy has the wrong size and is removed.
SizeMismatch ==
    /\ fragile
    /\ monitor.copying # None
    /\ backup' = [backup EXCEPT ![monitor.copying] = "none"]
    /\ monitor' = [monitor EXCEPT !.copying = None, !.pc = NextPc]
    /\ UNCHANGED <<fragile, slot, snapshots, newest, replay, best>>

\* The copy itself fails: only a copy of the wrong size is removed.
CopyError ==
    /\ fragile
    /\ monitor.copying # None
    /\ monitor' = [monitor EXCEPT !.copying = None, !.pc = NextPc]
    /\ UNCHANGED <<fragile, slot, snapshots, newest, backup, replay, best>>

-----------------------------------------------------------------------------
(* process_epoch: the wait for a snapshot and the replay                   *)

\* The main loop enters the epoch after a rollover.
Rollover ==
    /\ replay.pc = "idle"
    /\ epoch > replay.epoch
    /\ replay' = [pc |-> "wait", epoch |-> epoch, from |-> None, bank |-> None]
    /\ UNCHANGED <<fragile, slot, snapshots, newest, backup, monitor, best>>

ReplayTarget == LastSlot(replay.epoch - 1)
Optimal == {s \in Slots : ReplayTarget - OptimalRange < s /\ s <= ReplayTarget}

\* wait_for_optimal_incremental_snapshot looks at file names only.
SnapshotFound ==
    /\ replay.pc = "wait"
    /\ \E s \in Optimal : backup[s] # "none"
    /\ replay' = [replay EXCEPT !.pc = "load"]
    /\ UNCHANGED <<fragile, slot, snapshots, newest, backup, monitor, best>>

\* MAX_WAIT_FOR_INCREMENTAL_SNAPSHOT_TICKS have passed.
WaitEnds ==
    /\ replay.pc = "wait"
    /\ replay' = [replay EXCEPT !.pc = "load"]
    /\ UNCHANGED <<fragile, slot, snapshots, newest, backup, monitor, best>>

\* load_and_process_ledger starts from the highest incremental snapshot it
\* finds, up to the slot it halts at or overall, or from the full snapshot
\* alone.  Reading a partial file fails.
Candidates == {s \in Slots : backup[s] # "none"}
Starts == {IF c = {} THEN None ELSE Max(c) :
              c \in {Candidates, {s \in Candidates : s <= ReplayTarget}}}
LoadLedger(s) ==
    /\ replay.pc = "load"
    /\ replay' = [replay EXCEPT !.from = s,
                                !.pc = IF s # None /\ backup[s] = "partial" THEN "torn" ELSE "replay"]
    /\ UNCHANGED <<fragile, slot, snapshots, newest, backup, monitor, best>>

\* process_blockstore_from_root halts at the target, earlier if the blockstore
\* lacks slots, or at once when the snapshot is past it.
Halts == IF replay.from # None /\ replay.from > ReplayTarget
         THEN {replay.from}
         ELSE {ReplayTarget - 1, ReplayTarget}
IsDesiredSlot(b) == b = ReplayTarget
ReplayLedger(b) ==
    /\ replay.pc = "replay"
    /\ replay' = [replay EXCEPT !.bank = b, !.pc = IF IsDesiredSlot(b) THEN "done" ELSE "failed"]
    /\ UNCHANGED <<fragile, slot, snapshots, newest, backup, monitor, best>>

\* A panic is caught and, like an error, ends the processing of the epoch.
EndProcessing ==
    /\ replay.pc \in {"done", "failed", "torn"}
    /\ replay' = [pc |-> "idle", epoch |-> replay.epoch, from |-> None, bank |-> None]
    /\ UNCHANGED <<fragile, slot, snapshots, newest, backup, monitor, best>>

-----------------------------------------------------------------------------
(* The cluster and the validator                                           *)

\* The monitor polls every 10 s and an epoch takes days: it does not miss one.
NextSlot ==
    /\ slot < LastSlot(LastEpoch)
    /\ slot = LastSlot(epoch) => monitor.target = get_target_epoch
    /\ slot' = slot + 1
    /\ UNCHANGED <<fragile, snapshots, newest, backup, monitor, replay, best>>

\* A snapshot of a slot that has passed becomes available.
MakeSnapshot(s) ==
    /\ newest < s /\ s <= slot
    /\ newest' = s
    /\ LET all == snapshots \cup {s}
       IN  snapshots' = {t \in all : Cardinality({u \in all : u > t}) < Retained}
    /\ UNCHANGED <<fragile, slot, backup, monitor, replay, best>>

Monitoring == Tick \/ NothingNew \/ AlreadyExists \/ StartCopy \/ EndCopy
Processing == \/ Rollover \/ SnapshotFound \/ WaitEnds \/ EndProcessing
              \/ \E s \in Starts : LoadLedger(s)
              \/ \E b \in Halts : ReplayLedger(b)

Next ==
    \/ Tick \/ RunFails \/ Killed \/ NothingNew \/ AlreadyExists \/ StartCopy \/ EndCopy
    \/ SizeMismatch \/ CopyError
    \/ Rollover \/ SnapshotFound \/ WaitEnds \/ EndProcessing
    \/ \E s \in Starts : LoadLedger(s)
    \/ \E b \in Halts : ReplayLedger(b)
    \/ NextSlot
    \/ \E s \in Slots : MakeSnapshot(s)

Spec == Init /\ [][Next]_vars

-----------------------------------------------------------------------------
(* Properties                                                              *)

\* Every variable has the type its declaration describes.
TypeOK ==
    /\ slot \in Slots
    /\ snapshots \subseteq Slots /\ Cardinality(snapshots) <= Retained
    /\ newest \in Slots \cup {EarliestEpoch * SlotsPerEpoch - 1}
    /\ backup \in [Slots -> {"none", "partial", "whole"}]
    /\ monitor \in [pc : {"tick", "last", "this"}, target : Epochs \cup {None},
                    last : Slots \cup {None}, this : Slots \cup {None},
                    copying : Slots \cup {None}]
    /\ replay.pc \in {"idle", "wait", "load", "replay", "done", "failed", "torn"}
    /\ best \in [Epochs -> Slots \cup {None}]

\* The newest snapshot backed up for the last or for this epoch stays, whatever
\* is evicted, and what the monitor has noted as backed up is a whole file, as
\* long as copies do not break.
NewestIsKept ==
    /\ TypeOK
    /\ ~ fragile => /\ \A e \in {epoch - 1, epoch} \cap Epochs :
                          best[e] # None => backup[best[e]] = "whole"
                    /\ \A s \in {monitor.last, monitor.this} \ {None} :
                          backup[s] \in {"whole", "none"}

\* A snapshot that stays the closest to the end of its epoch is backed up
\* before the epoch after it is over, even if it was made after the rollover.
LateSnapshotsAreBackedUp ==
    \A s \in Slots :
        (~ fragile /\ s \in snapshots /\ epoch <= EpochOf(s) + 1)
            ~> \/ backup[s] = "whole"
               \/ s \notin snapshots
               \/ \E t \in snapshots : t > s /\ EpochOf(t) = EpochOf(s)
               \/ epoch > EpochOf(s) + 1
=============================================================================
