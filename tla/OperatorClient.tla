--------------------------- MODULE OperatorClient ---------------------------
(***************************************************************************)
(* One operator's `run` command: the main loop that computes the meta      *)
(* merkle tree of the epoch that has just ended and writes it to disk, and *)
(* the task spawned beside it that votes for the trees it finds on disk    *)
(* and uploads the validators' roots once the NCN has reached consensus.   *)
(*                                                                         *)
(* The two share only the files.  Everything is named after the epoch a    *)
(* tree is made FOR; its ballot box belongs to the epoch after it.  A tree *)
(* is abstracted to its root and to the tip distribution accounts it has a *)
(* node for.  The process may be killed and started again at any moment.   *)
(***************************************************************************)
EXTENDS Integers, FiniteSets

CONSTANTS
    Roots,            \* roots a processing of an epoch may come to
    Tdas,             \* tip distribution accounts of an epoch that name this NCN
    NodesOf,          \* per root: the accounts its tree has a node for
    FirstEpoch,       \* epoch of the cluster when the operator starts
    LastEpoch,        \* bound on the epoch of the cluster
    Scopes,           \* bounds of a behaviour: last epoch, ballot boxes created, roots
    num_monitored_epochs,
    set_merkle_roots,
    submit_as_memo,
    start_next_epoch,
    MaxCrashes,       \* bound on how often the process is killed
    NoRoot, NoFile, Torn

ASSUME ClientAssumption ==
    /\ NodesOf \in [Roots -> SUBSET Tdas]
    /\ num_monitored_epochs \in Nat \ {0}
    /\ FirstEpoch \in Nat /\ FirstEpoch >= num_monitored_epochs
    /\ LastEpoch \in Nat /\ LastEpoch >= FirstEpoch
    /\ Scopes \subseteq [last : FirstEpoch .. LastEpoch,
                         boxes : SUBSET (FirstEpoch - 1 .. LastEpoch - 1), roots : SUBSET Roots]
    /\ set_merkle_roots \in BOOLEAN /\ submit_as_memo \in BOOLEAN /\ start_next_epoch \in BOOLEAN
    /\ MaxCrashes \in Nat
    /\ {NoRoot, NoFile, Torn} \cap Roots = {} /\ NoFile # Torn

\* The epochs a tree can be made for.
Epochs == FirstEpoch - 1 .. LastEpoch - 1
BoxEpochs == UNION {s.boxes : s \in Scopes}

VARIABLES
    scope,      \* the bounds of this behaviour
    epoch,      \* the epoch of the cluster
    box,        \* per epoch: its ballot box, as far as this operator sees it
    uploaded,   \* per epoch: accounts whose root has been set on chain
    coll,       \* per epoch: generated_merkle_tree_<epoch>.json
    tree,       \* per epoch: meta_merkle_tree_<epoch>.json
    main,       \* main loop: pc, the epoch it knows, the epoch and root it processes
    task,       \* submitting task: pc, the epoch it started from, its index, what it read
    made,       \* history: per epoch, the roots some processing came to
    attempted,  \* history: epochs processed since the process started
    slow,       \* history: a turn of the main loop outlived the following epoch
    crashes

chain == <<scope, epoch, box, uploaded>>
files == <<coll, tree>>
history == <<made, attempted, slow, crashes>>
vars == <<chain, files, main, task, history>>

NoTask(pc) == [pc |-> pc, epoch |-> 0, i |-> 0, root |-> NoRoot,
               seen |-> [voting |-> "absent", vote |-> NoRoot, winner |-> NoRoot], left |-> {}]
NoTarget == -1
Stopped == [pc |-> "off", current_epoch |-> 0, target |-> NoTarget, root |-> NoRoot]

Init ==
    /\ scope \in Scopes
    /\ epoch = FirstEpoch
    /\ box = [e \in Epochs |-> NoTask("").seen]
    /\ uploaded = [e \in Epochs |-> {}]
    /\ coll = [e \in Epochs |-> NoFile]
    /\ tree = [e \in Epochs |-> NoFile]
    /\ main = Stopped
    /\ task = NoTask("off")
    /\ made = [e \in Epochs |-> {}]
    /\ attempted = {}
    /\ slow = FALSE
    /\ crashes = 0

-----------------------------------------------------------------------------
(* The main loop                                                           *)

\* The epoch is read once, the tasks are spawned.
Start ==
    /\ main.pc = "off"
    /\ main' = [Stopped EXCEPT !.pc = IF start_next_epoch THEN "wait" ELSE "read",
                               !.current_epoch = epoch]
    /\ task' = NoTask("idle")
    /\ UNCHANGED <<chain, files, history>>

\* get_previous_epoch_last_slot asks for the epoch again; it may no longer be
\* the one the loop knows.  A failed call is asked again at once.
previous_epoch == epoch - 1
GetPreviousEpoch ==
    /\ main.pc = "read"
    /\ main' = [main EXCEPT !.pc = "process", !.target = previous_epoch]
    /\ attempted' = attempted \cup {previous_epoch}
    /\ UNCHANGED <<chain, files, task, made, slow, crashes>>

\* An error of process_epoch, wherever it occurs, is logged and the loop waits
\* for the next epoch; nothing is tried again.
ProcessFails ==
    /\ main.pc \in {"process", "coll", "tree"}
    /\ main' = [main EXCEPT !.pc = "wait"]
    /\ UNCHANGED <<chain, files, task, history>>

\* The fees are read, the ledger is replayed, the trees are generated, and
\* fs::write truncates the first file.
GenerateTrees(r) ==
    /\ main.pc = "process"
    /\ main' = [main EXCEPT !.pc = "coll", !.root = r]
    /\ coll' = [coll EXCEPT ![main.target] = Torn]
    /\ made' = [made EXCEPT ![main.target] = @ \cup {r}]
    /\ UNCHANGED <<chain, tree, task, attempted, slow, crashes>>

\* The collection for claiming is on disk before the meta tree is begun.
WriteCollection ==
    /\ main.pc = "coll"
    /\ main' = [main EXCEPT !.pc = "tree"]
    /\ coll' = [coll EXCEPT ![main.target] = main.root]
    /\ tree' = [tree EXCEPT ![main.target] = Torn]
    /\ UNCHANGED <<chain, task, history>>

WriteTree ==
    /\ main.pc = "tree"
    /\ main' = [main EXCEPT !.pc = "wait"]
    /\ tree' = [tree EXCEPT ![main.target] = main.root]
    /\ UNCHANGED <<chain, coll, task, history>>

\* wait_for_next_epoch: the epoch it finds becomes the one the loop knows.
is_next_epoch_Late == epoch > main.current_epoch + 1
is_next_epoch == epoch > main.current_epoch
WaitForNextEpoch ==
    /\ main.pc = "wait"
    /\ is_next_epoch
    /\ main' = [main EXCEPT !.pc = "read", !.current_epoch = epoch]
    /\ UNCHANGED <<chain, files, task, history>>

-----------------------------------------------------------------------------
(* The submitting task                                                     *)

NextIndex == [NoTask("pick") EXCEPT !.epoch = task.epoch, !.i = task.i + 1]
process_epoch == task.epoch - task.i

\* Every 600 s, if the epoch can be read.
SubmitRecentEpochs ==
    /\ task.pc = "idle"
    /\ task' = [NoTask("pick") EXCEPT !.epoch = epoch]
    /\ UNCHANGED <<chain, files, main, history>>

SubmitDone ==
    /\ task.pc = "pick"
    /\ task.i = num_monitored_epochs
    /\ task' = NoTask("idle")
    /\ UNCHANGED <<chain, files, main, history>>

\* No file, a file that does not parse, or no ballot box: the next epoch.
HasFile(e) == e \in Epochs /\ tree[e] # NoFile
NothingToSubmit ==
    /\ task.pc = "pick"
    /\ task.i < num_monitored_epochs
    /\ HasFile(process_epoch) => \/ tree[process_epoch] = Torn
                                \/ box[process_epoch].voting = "absent"
    /\ task' = NextIndex
    /\ UNCHANGED <<chain, files, main, history>>

\* A call that fails before the vote ends this epoch's turn too.
SubmitFails ==
    /\ task.pc = "pick"
    /\ task.i < num_monitored_epochs
    /\ HasFile(process_epoch)
    /\ task' = NextIndex
    /\ UNCHANGED <<chain, files, main, history>>

\* The file and then the ballot box are read; both may change before use.
parses_Torn(f) == f # NoFile
parses(f) == f \in Roots
SubmitToNcn ==
    /\ task.pc = "pick"
    /\ task.i < num_monitored_epochs
    /\ HasFile(process_epoch)
    /\ parses(tree[process_epoch])
    /\ box[process_epoch].voting # "absent"
    /\ task' = [task EXCEPT !.pc = "vote", !.root = tree[process_epoch],
                            !.seen = box[process_epoch]]
    /\ UNCHANGED <<chain, files, main, history>>

should_cast_vote_Once == task.seen.vote = NoRoot
should_cast_vote == task.seen.vote = NoRoot \/ task.seen.vote # task.root
is_voting_valid == task.seen.voting = "open"
WantsVote == should_cast_vote /\ is_voting_valid

AfterVote == [task EXCEPT !.pc = "upload"]

\* The program takes the vote if the box is still open, and a change of vote
\* only before consensus.
tip_router_target(e) == e
Accepts(b) == b.voting = "open" /\ (b.vote = NoRoot \/ b.winner = NoRoot)
CastVote ==
    /\ task.pc = "vote"
    /\ WantsVote /\ ~ submit_as_memo
    /\ Accepts(box[tip_router_target(process_epoch)])
    /\ box' = [box EXCEPT ![tip_router_target(process_epoch)].vote = task.root]
    /\ task' = AfterVote
    /\ UNCHANGED <<scope, epoch, uploaded, files, main, history>>

\* Not wanted, refused, or lost: only logged.  With submit_as_memo the root is
\* sent in a memo, which the ballot box never sees.
NoVote ==
    /\ task.pc = "vote"
    /\ task' = AfterVote
    /\ UNCHANGED <<chain, files, main, history>>

\* The ballot box is the one read before the vote.
UploadWanted == task.seen.winner # NoRoot /\ set_merkle_roots
SkipUpload ==
    /\ task.pc = "upload"
    /\ ~ UploadWanted
    /\ task' = NextIndex
    /\ UNCHANGED <<chain, files, main, history>>

ToUpload(e) == Tdas \ uploaded[e]

\* get_tip_distribution_accounts_to_upload, then get_node for each account: an
\* account the tree has no node for panics, and the task is gone.
GetNodes ==
    /\ task.pc = "upload"
    /\ UploadWanted
    /\ task' = IF ToUpload(process_epoch) \subseteq NodesOf[task.root]
               THEN [task EXCEPT !.pc = "batch", !.left = ToUpload(process_epoch)]
               ELSE NoTask("dead")
    /\ UNCHANGED <<chain, files, main, history>>

\* One set_merkle_root transaction and its retries.  The program takes it if
\* the proof leads to the winning root and the account has no root yet.
LandsUpload(e) == task.root = box[e].winner
SetMerkleRoot(t) ==
    /\ task.pc = "batch"
    /\ t \in task.left
    /\ LandsUpload(process_epoch)
    /\ uploaded' = [uploaded EXCEPT ![process_epoch] = @ \cup {t}]
    /\ task' = [task EXCEPT !.left = @ \ {t}]
    /\ UNCHANGED <<scope, epoch, box, files, main, history>>
SetMerkleRootFails(t) ==
    /\ task.pc = "batch"
    /\ t \in task.left
    /\ task' = [task EXCEPT !.left = @ \ {t}]
    /\ UNCHANGED <<chain, files, main, history>>

\* The batch is through, or fetch_latest_blockhash failed in the middle of it.
BatchEnds ==
    /\ task.pc = "batch"
    /\ task' = NextIndex
    /\ UNCHANGED <<chain, files, main, history>>

-----------------------------------------------------------------------------
(* The cluster, the other operators and the keeper                         *)

\* The wait polls every 10 s and an epoch takes days, so it never misses one.
NewEpoch ==
    /\ epoch < scope.last
    /\ main.pc = "wait" => ~ is_next_epoch
    /\ epoch' = epoch + 1
    /\ slow' = \/ slow
               \/ /\ main.pc \notin {"off", "wait"} /\ main.target # NoTarget
                  /\ epoch + 1 >= main.target + 3
    /\ UNCHANGED <<scope, box, uploaded, files, main, task, made, attempted, crashes>>

BoxOpens(e) ==
    /\ e \in scope.boxes
    /\ box[e].voting = "absent"
    /\ epoch > e
    /\ box' = [box EXCEPT ![e].voting = "open"]
    /\ UNCHANGED <<scope, epoch, uploaded, files, main, task, history>>

\* Consensus, with or without this operator's vote.
BoxSettles(e, r) ==
    /\ box[e].voting = "open"
    /\ box[e].winner = NoRoot
    /\ box' = [box EXCEPT ![e].winner = r]
    /\ UNCHANGED <<scope, epoch, uploaded, files, main, task, history>>

\* valid_slots_after_consensus have passed, or the epoch is too old to vote.
BoxEnds(e) ==
    /\ box[e].voting = "open"
    /\ box[e].winner # NoRoot
    /\ box' = [box EXCEPT ![e].voting = "over"]
    /\ UNCHANGED <<scope, epoch, uploaded, files, main, task, history>>

\* Another operator sets the root of an account.
OtherUploads(e, t) ==
    /\ box[e].winner # NoRoot
    /\ t \in NodesOf[box[e].winner]
    /\ uploaded' = [uploaded EXCEPT ![e] = @ \cup {t}]
    /\ UNCHANGED <<scope, epoch, box, files, main, task, history>>

Crash ==
    /\ main.pc # "off"
    /\ crashes < MaxCrashes
    /\ crashes' = crashes + 1
    /\ main' = Stopped
    /\ task' = NoTask("off")
    /\ attempted' = {}
    /\ UNCHANGED <<chain, files, made, slow>>

Next ==
    \/ Start \/ GetPreviousEpoch \/ ProcessFails
    \/ \E r \in scope.roots : GenerateTrees(r)
    \/ WriteCollection \/ WriteTree \/ WaitForNextEpoch
    \/ SubmitRecentEpochs \/ SubmitDone \/ NothingToSubmit \/ SubmitFails
    \/ SubmitToNcn \/ CastVote \/ NoVote \/ SkipUpload \/ GetNodes
    \/ \E t \in Tdas : SetMerkleRoot(t) \/ SetMerkleRootFails(t)
    \/ BatchEnds
    \/ NewEpoch
    \/ \E e \in Epochs : \/ BoxOpens(e) \/ BoxEnds(e)
                         \/ \E r \in scope.roots : BoxSettles(e, r)
                         \/ \E t \in Tdas : OtherUploads(e, t)
    \/ Crash

Spec == Init /\ [][Next]_vars

\* What the submitting task does by itself.
TaskRuns == SubmitRecentEpochs \/ SubmitDone \/ NothingToSubmit \/ SubmitFails
            \/ CastVote \/ NoVote \/ SkipUpload \/ GetNodes \/ BatchEnds

-----------------------------------------------------------------------------
(* Properties                                                              *)

Files == Roots \cup {NoFile, Torn}
Boxes == [voting : {"absent", "open", "over"}, vote : Roots \cup {NoRoot},
          winner : Roots \cup {NoRoot}]

\* Every variable has the type its declaration describes.
TypeOK ==
    /\ epoch \in FirstEpoch .. LastEpoch
    /\ box \in [Epochs -> Boxes]
    /\ uploaded \in [Epochs -> SUBSET Tdas]
    /\ coll \in [Epochs -> Files] /\ tree \in [Epochs -> Files]
    /\ main.pc \in {"off", "read", "process", "coll", "tree", "wait"}
    /\ main.root \in Roots \cup {NoRoot}
    /\ main.target \in Epochs \cup {NoTarget}
    /\ task.pc \in {"off", "idle", "pick", "vote", "upload", "batch", "dead"}
    /\ task.i \in 0 .. num_monitored_epochs
    /\ task.root \in Roots \cup {NoRoot}
    /\ task.left \subseteq Tdas

\* The vote in an epoch's ballot box is a root this operator computed for that
\* very epoch, even when the task reads the file while the main loop rewrites
\* it, or after the process was killed in the middle of a write; and a tree
\* that can be voted for has the collection its claims are made from beside it
\* (torn, if a later turn was cut short while it wrote that file again).
VotesAreComputed ==
    /\ TypeOK
    /\ \A e \in Epochs : /\ box[e].vote # NoRoot => box[e].vote \in made[e]
                         /\ tree[e] # NoFile => coll[e] # NoFile

\* As long as no turn of the main loop outlives the epoch after the one it
\* started in, the epochs it has processed have no gap.
NoEpochIsSkipped ==
    ~ slow => \A e, f \in attempted : e .. f \subseteq attempted

Monitored(e) == epoch - e < num_monitored_epochs

\* A tree that stays on disk while its ballot box is open and monitored ends up
\* as the operator's vote, unless consensus comes first, however often calls
\* fail and the process is restarted.  With submit_as_memo there is no vote.
VoteFollowsTree ==
    \A e \in BoxEpochs, r \in Roots :
        (tree[e] = r /\ box[e].voting = "open" /\ ~ submit_as_memo)
            ~> \/ box[e].vote = r \/ tree[e] # r
               \/ box[e].winner # NoRoot \/ ~ Monitored(e) \/ task.pc = "dead"
=============================================================================
