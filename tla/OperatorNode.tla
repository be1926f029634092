---------------------------- MODULE OperatorNode ----------------------------
(***************************************************************************)
(* The tasks of an operator's node: the main loop with the task that       *)
(* submits its trees (OperatorClient), and the snapshot monitor with the   *)
(* replay it feeds (SnapshotBackup).  Of a replay the main loop sees only  *)
(* whether it fails (ProcessFails), and the monitor sees nothing of the    *)
(* main loop, so the two need not be interleaved: a behaviour is one of    *)
(* either part, while the variables of the other keep their first values.  *)
(***************************************************************************)
EXTENDS OperatorClient

CONSTANTS
    SlotsPerEpoch, MaximumPerEpoch, OptimalRange, Retained, LastBackupEpoch, None
                    \* the constants of SnapshotBackup

ASSUME BackupAssumption ==
    /\ SlotsPerEpoch \in Nat \ {0}
    /\ MaximumPerEpoch \in Nat \ {0} /\ Retained \in Nat \ {0}
    /\ LastBackupEpoch \in Nat /\ LastBackupEpoch >= 2
    /\ None \notin Int

VARIABLES
    part,           \* "votes" or "backup"
    fragile, slot, snapshots, newest, backup, monitor, replay, best

backup_vars == <<fragile, slot, snapshots, newest, backup, monitor, replay, best>>
all_vars == <<part, vars, backup_vars>>

B == INSTANCE SnapshotBackup WITH LastEpoch <- LastBackupEpoch

\* Of the part that is left out, one first state is enough.
NodeInit ==
    /\ part \in {"votes", "backup"}
    /\ Init /\ B!Init
    /\ part = "votes" => ~ fragile
    /\ part = "backup" => scope = CHOOSE s \in Scopes : TRUE

VotesStep(A) == part = "votes" /\ A /\ UNCHANGED <<part, backup_vars>>
BackupStep(A) == part = "backup" /\ A /\ UNCHANGED <<part, vars>>

NodeNext == VotesStep(Next) \/ BackupStep(B!Next)

NodeSpec == NodeInit /\ [][NodeNext]_all_vars

\* The loops run on; a call of an epoch's turn that can succeed again and again
\* does not fail every time; a turn of the monitor comes to its end now and
\* then without a failed call or a restart.
NodeFairSpec ==
    /\ NodeSpec
    /\ WF_all_vars(VotesStep(Start)) /\ WF_all_vars(VotesStep(TaskRuns))
    /\ \A e \in BoxEpochs :
          /\ SF_all_vars(VotesStep(process_epoch = e /\ SubmitToNcn))
          /\ SF_all_vars(VotesStep(process_epoch = e /\ CastVote))
    /\ WF_all_vars(BackupStep(B!Monitoring))
    /\ SF_all_vars(BackupStep(B!StartCopy)) /\ SF_all_vars(BackupStep(B!EndCopy))
    /\ SF_all_vars(BackupStep(B!NothingNew)) /\ SF_all_vars(BackupStep(B!AlreadyExists))

-----------------------------------------------------------------------------
(* Properties                                                              *)

\* The newest snapshot that was backed up for the last or for this epoch stays
\* in the backup directory, whole, whatever is evicted.
NewestIsKept == B!NewestIsKept

\* A snapshot of the end of an epoch is backed up although it is made late.
LateSnapshotsAreBackedUp == B!LateSnapshotsAreBackedUp
=============================================================================
