------------------------- MODULE OperatorNodeProofs -------------------------
(***************************************************************************)
(* Proofs about an operator's node, for any number of epochs, roots and    *)
(* restarts: what it votes for is what it computed, its main loop leaves   *)
(* no epoch out, and its snapshot monitor keeps the newest snapshot.       *)
(***************************************************************************)
EXTENDS OperatorNode, FiniteSetTheorems, WellFoundedInduction, TLAPS

USE DEF NoTarget

-----------------------------------------------------------------------------
(* The main loop and the submitting task: the inductive invariant          *)

MainStates ==
    [pc : {"off", "read", "process", "coll", "tree", "wait"}, current_epoch : Nat,
     target : Epochs \cup {NoTarget}, root : Roots \cup {NoRoot}]
TaskStates ==
    [pc : {"off", "idle", "pick", "vote", "upload", "batch", "dead"}, epoch : Nat,
     i : 0 .. num_monitored_epochs, root : Roots \cup {NoRoot}, seen : Boxes, left : SUBSET Tdas]

ClientTyped ==
    /\ TypeOK
    /\ scope \in Scopes
    /\ main \in MainStates
    /\ task \in TaskStates
    /\ made \in [Epochs -> SUBSET Roots]
    /\ attempted \subseteq Epochs
    /\ slow \in BOOLEAN

\* What a whole file holds was computed for its epoch, also while the main loop
\* is between the two files.
FilesInv ==
    /\ main.pc \in {"process", "coll", "tree"} => main.target # NoTarget
    /\ main.pc \in {"coll", "tree"} =>
          main.root \in made[main.target] /\ coll[main.target] # NoFile
    /\ \A e \in Epochs : /\ tree[e] \in Roots => tree[e] \in made[e]
                         /\ tree[e] # NoFile => coll[e] # NoFile

\* What the task carries from the file to the ballot box was computed too.
VoteInv ==
    /\ task.pc \in {"vote", "upload", "batch"} =>
          process_epoch \in Epochs /\ task.i < num_monitored_epochs
    /\ task.pc = "vote" => task.root \in made[process_epoch]
    /\ \A e \in Epochs : box[e].vote # NoRoot => box[e].vote \in made[e]

\* The last epoch the loop turned to is never more than two behind the cluster
\* unless a turn was slow, and all epochs up to it were turned to.
WalkInv ==
    /\ main.pc = "off" => main.target = NoTarget
    /\ main.current_epoch <= epoch
    /\ main.target = NoTarget => attempted = {}
    /\ main.target # NoTarget =>
          /\ main.target \in attempted /\ main.target < epoch
          /\ \A e \in attempted : e <= main.target
          /\ main.pc # "read" => main.current_epoch <= main.target + 1
          /\ ~ slow => /\ epoch <= main.target + 2
                       /\ \A e \in attempted : e .. main.target \subseteq attempted

ClientInv == ClientTyped /\ FilesInv /\ VoteInv /\ WalkInv

-----------------------------------------------------------------------------
(* The steps of the main loop                                              *)

LEMMA EpochFacts ==
    /\ FirstEpoch \in Nat /\ LastEpoch \in Nat /\ num_monitored_epochs \in Nat
    /\ Epochs \subseteq Nat /\ NoTarget \notin Epochs
    /\ \A e : e \in Epochs <=> e \in Int /\ FirstEpoch - 1 <= e /\ e <= LastEpoch - 1
    /\ NoRoot \notin Roots /\ NoFile \notin Roots /\ Torn \notin Roots
    /\ Torn # NoFile
BY ClientAssumption DEF Epochs

LEMMA StoppedTyped == Stopped \in MainStates
BY DEF Stopped, MainStates

LEMMA NoTaskTyped ==
    ASSUME NEW pc \in {"off", "idle", "pick", "dead"}
    PROVE  NoTask(pc) \in TaskStates /\ NoTask(pc).pc = pc /\ NoTask(pc).i = 0
BY EpochFacts DEF NoTask, TaskStates, Boxes

LEMMA ClientInit == Init => ClientInv
<1> SUFFICES ASSUME Init PROVE ClientInv
  OBVIOUS
<1>1. /\ scope \in Scopes /\ epoch = FirstEpoch
      /\ uploaded = [e \in Epochs |-> {}]
      /\ coll = [e \in Epochs |-> NoFile] /\ tree = [e \in Epochs |-> NoFile]
      /\ main = Stopped /\ task = NoTask("off")
      /\ made = [e \in Epochs |-> {}] /\ attempted = {} /\ slow = FALSE
  BY Zenon DEF Init
<1>2. /\ main \in MainStates /\ main.pc = "off"
      /\ main.target = NoTarget /\ main.current_epoch = 0
      /\ task \in TaskStates /\ task.pc = "off"
  BY <1>1, StoppedTyped, NoTaskTyped DEF Stopped
<1>3. box \in [Epochs -> Boxes] /\ \A e \in Epochs : box[e].vote = NoRoot
  <2>1. NoTask("").seen \in Boxes /\ NoTask("").seen.vote = NoRoot
    BY DEF NoTask, Boxes
  <2>2. box = [e \in Epochs |-> NoTask("").seen]
    BY Zenon DEF Init
  <2> QED  BY <2>1, <2>2
<1>4. TypeOK
  <2>1. /\ uploaded \in [Epochs -> SUBSET Tdas]
        /\ coll \in [Epochs -> Files] /\ tree \in [Epochs -> Files]
        /\ epoch \in FirstEpoch .. LastEpoch
    BY <1>1, ClientAssumption DEF Files
  <2> QED  BY <1>2, <1>3, <2>1 DEF TypeOK, MainStates, TaskStates
<1>5. ClientTyped
  BY <1>1, <1>2, <1>4 DEF ClientTyped
<1>6. FilesInv
  BY <1>1, <1>2, EpochFacts DEF FilesInv
<1>7. VoteInv
  BY <1>2, <1>3 DEF VoteInv
<1>8. WalkInv
  BY <1>1, <1>2, EpochFacts DEF WalkInv
<1> QED  BY <1>5, <1>6, <1>7, <1>8 DEF ClientInv

\* Steps of the task and of the world: the main loop, its files and its history
\* stay as they are.
LEMMA OthersKeepLoop ==
    ASSUME ClientInv, UNCHANGED <<epoch, scope, files, main, made, attempted, slow>>
    PROVE  FilesInv' /\ WalkInv'
BY DEF ClientInv, FilesInv, WalkInv, files

\* Steps of the main loop: the task, the chain and so the votes stay.
LEMMA LoopKeepsTask ==
    ASSUME ClientInv, main' \in MainStates, made' \in [Epochs -> SUBSET Roots],
           attempted' \subseteq Epochs, coll' \in [Epochs -> Files], tree' \in [Epochs -> Files],
           \A e \in Epochs : made[e] \subseteq made'[e],
           UNCHANGED <<chain, task, slow>>
    PROVE  ClientTyped' /\ VoteInv'
<1>1. ClientTyped'
  BY DEF ClientInv, ClientTyped, TypeOK, MainStates, chain
<1>2. VoteInv'
  BY DEF ClientInv, VoteInv, chain, process_epoch
<1> QED  BY <1>1, <1>2

LEMMA GetPreviousEpochInv ==
    ASSUME ClientInv, GetPreviousEpoch
    PROVE  ClientInv'
<1> DEFINE t == epoch - 1
<1>1. /\ main.pc = "read" /\ main' = [main EXCEPT !.pc = "process", !.target = t]
      /\ attempted' = attempted \cup {t}
      /\ UNCHANGED <<chain, files, task, made, slow>>
  BY DEF GetPreviousEpoch, previous_epoch
<1>2. epoch \in Nat /\ t \in Epochs /\ t \in Nat
  BY EpochFacts DEF ClientInv, ClientTyped, TypeOK
<1>3. /\ main \in MainStates /\ main' \in MainStates /\ main'.pc = "process" /\ main'.target = t
      /\ main'.current_epoch = main.current_epoch
  BY <1>1, <1>2 DEF ClientInv, ClientTyped, MainStates
<1>4. ClientTyped' /\ VoteInv'
  BY <1>1, <1>2, <1>3, LoopKeepsTask DEF ClientInv, ClientTyped, TypeOK, files
<1>5. FilesInv'
  BY <1>1, <1>2, <1>3, EpochFacts DEF ClientInv, FilesInv, files
<1>6. WalkInv'
  <2>1. attempted \subseteq Nat /\ main.target \in Int /\ main.current_epoch \in Nat
    BY <1>3, EpochFacts DEF ClientInv, ClientTyped, MainStates
  <2>2. /\ t # NoTarget /\ UNCHANGED <<epoch, slow>> /\ t < epoch
        /\ main.current_epoch <= t + 1 /\ epoch <= t + 2
    BY <1>1, <1>2 DEF chain, ClientInv, WalkInv
  <2>3. \A e \in attempted' : e <= t
    BY <1>1, <1>2, <2>1 DEF ClientInv, WalkInv
  <2>4. ASSUME ~ slow, NEW e \in attempted'
        PROVE  e .. t \subseteq attempted'
    <3>1. CASE e = t
      BY <1>1, <1>2, <3>1
    <3>2. CASE e \in attempted
      <4>1. /\ main.target # NoTarget /\ t <= main.target + 1
            /\ e .. main.target \subseteq attempted
        BY <1>2, <2>1, <2>4, <3>2 DEF ClientInv, WalkInv
      <4> QED  BY <1>1, <1>2, <2>1, <3>2, <4>1
    <3> QED  BY <1>1, <3>1, <3>2
  <2> QED  BY <1>1, <1>3, <2>2, <2>3, <2>4 DEF ClientInv, WalkInv
<1> QED  BY <1>4, <1>5, <1>6 DEF ClientInv

\* A turn ends, well or with an error.
LEMMA TurnEndsInv ==
    ASSUME ClientInv, ProcessFails \/ WriteTree
    PROVE  ClientInv'
<1>1. /\ main.pc \in {"process", "coll", "tree"} /\ main' = [main EXCEPT !.pc = "wait"]
      /\ UNCHANGED <<chain, coll, task, made, attempted, slow>>
  BY DEF ProcessFails, WriteTree, files, history
<1>2. /\ main \in MainStates /\ main' \in MainStates /\ main'.pc = "wait"
      /\ main'.target = main.target /\ main'.current_epoch = main.current_epoch
      /\ main.target \in Epochs
  BY <1>1 DEF ClientInv, ClientTyped, MainStates, FilesInv
<1>3. /\ tree' \in [Epochs -> Files]
      /\ \A e \in Epochs : /\ tree'[e] \in Roots => tree'[e] \in made[e]
                           /\ tree'[e] # NoFile => coll[e] # NoFile
  <2>1. CASE ProcessFails
    BY <2>1 DEF ProcessFails, files, ClientInv, ClientTyped, TypeOK, FilesInv
  <2>2. CASE WriteTree
    <3>1. /\ tree' = [tree EXCEPT ![main.target] = main.root]
          /\ main.root \in made[main.target] /\ coll[main.target] # NoFile
      BY <2>2 DEF WriteTree, ClientInv, FilesInv
    <3>2. main.root \in Files
      BY <1>2, <3>1 DEF ClientInv, ClientTyped, Files
    <3> QED  BY <1>2, <3>1, <3>2 DEF ClientInv, ClientTyped, TypeOK, FilesInv
  <2> QED  BY <2>1, <2>2
<1>4. ClientTyped' /\ VoteInv'
  BY <1>1, <1>2, <1>3, LoopKeepsTask DEF ClientInv, ClientTyped, TypeOK
<1>5. FilesInv'
  BY <1>1, <1>2, <1>3 DEF FilesInv
<1>6. WalkInv'
  BY <1>1, <1>2 DEF ClientInv, WalkInv, chain
<1> QED  BY <1>4, <1>5, <1>6 DEF ClientInv

LEMMA GenerateTreesInv ==
    ASSUME ClientInv, NEW r \in scope.roots, GenerateTrees(r)
    PROVE  ClientInv'
<1>1. /\ main.pc = "process" /\ main' = [main EXCEPT !.pc = "coll", !.root = r]
      /\ coll' = [coll EXCEPT ![main.target] = Torn]
      /\ made' = [made EXCEPT ![main.target] = @ \cup {r}]
      /\ UNCHANGED <<chain, tree, task, attempted, slow>>
  BY DEF GenerateTrees
<1>2. r \in Roots
  BY ClientAssumption DEF ClientInv, ClientTyped
<1>3. /\ main \in MainStates /\ main' \in MainStates /\ main'.pc = "coll" /\ main'.root = r
      /\ main'.target = main.target /\ main'.current_epoch = main.current_epoch
      /\ main.target \in Epochs
  BY <1>1, <1>2 DEF ClientInv, ClientTyped, MainStates, FilesInv
<1>4. /\ made' \in [Epochs -> SUBSET Roots] /\ r \in made'[main.target]
      /\ \A e \in Epochs : made[e] \subseteq made'[e]
  BY <1>1, <1>2, <1>3 DEF ClientInv, ClientTyped
<1>5. /\ coll' \in [Epochs -> Files] /\ coll'[main.target] # NoFile
      /\ \A e \in Epochs : coll[e] # NoFile => coll'[e] # NoFile
  BY <1>1, <1>3, EpochFacts DEF ClientInv, ClientTyped, TypeOK, Files
<1>6. ClientTyped' /\ VoteInv'
  BY <1>1, <1>3, <1>4, <1>5, LoopKeepsTask DEF ClientInv, ClientTyped, TypeOK
<1>7. FilesInv'
  BY <1>1, <1>3, <1>4, <1>5 DEF ClientInv, FilesInv
<1>8. WalkInv'
  BY <1>1, <1>3 DEF ClientInv, WalkInv, chain
<1> QED  BY <1>6, <1>7, <1>8 DEF ClientInv

LEMMA WriteCollectionInv ==
    ASSUME ClientInv, WriteCollection
    PROVE  ClientInv'
<1>1. /\ main.pc = "coll" /\ main' = [main EXCEPT !.pc = "tree"]
      /\ coll' = [coll EXCEPT ![main.target] = main.root]
      /\ tree' = [tree EXCEPT ![main.target] = Torn]
      /\ UNCHANGED <<chain, task, made, attempted, slow>>
  BY DEF WriteCollection, history
<1>2. /\ main \in MainStates /\ main' \in MainStates /\ main'.pc = "tree"
      /\ main'.root = main.root /\ main'.target = main.target
      /\ main'.current_epoch = main.current_epoch /\ main.target \in Epochs
  BY <1>1 DEF ClientInv, ClientTyped, MainStates, FilesInv
<1>3. main.root \in made[main.target] /\ main.root \in Roots
  BY <1>1, <1>2 DEF ClientInv, ClientTyped, FilesInv
<1>4. /\ coll' \in [Epochs -> Files] /\ coll'[main.target] # NoFile
      /\ \A e \in Epochs : coll[e] # NoFile => coll'[e] # NoFile
  BY <1>1, <1>2, <1>3, EpochFacts DEF ClientInv, ClientTyped, TypeOK, Files
<1>5. /\ tree' \in [Epochs -> Files]
      /\ \A e \in Epochs : e # main.target => tree'[e] = tree[e]
      /\ tree'[main.target] \notin Roots
  BY <1>1, <1>2, EpochFacts DEF ClientInv, ClientTyped, TypeOK, Files
<1>6. ClientTyped' /\ VoteInv'
  BY <1>1, <1>2, <1>4, <1>5, LoopKeepsTask DEF ClientInv, ClientTyped, TypeOK
<1>7. FilesInv'
  BY <1>1, <1>2, <1>3, <1>4, <1>5 DEF ClientInv, FilesInv
<1>8. WalkInv'
  BY <1>1, <1>2 DEF ClientInv, WalkInv, chain
<1> QED  BY <1>6, <1>7, <1>8 DEF ClientInv

LEMMA WaitForNextEpochInv ==
    ASSUME ClientInv, WaitForNextEpoch
    PROVE  ClientInv'
<1>1. /\ main' = [main EXCEPT !.pc = "read", !.current_epoch = epoch]
      /\ UNCHANGED <<chain, files, task, made, attempted, slow>>
  BY DEF WaitForNextEpoch, history
<1>2. epoch \in Nat
  BY EpochFacts DEF ClientInv, ClientTyped, TypeOK
<1>3. /\ main' \in MainStates /\ main'.pc = "read" /\ main'.target = main.target
      /\ main'.current_epoch = epoch
  BY <1>1, <1>2 DEF ClientInv, ClientTyped, MainStates
<1>4. ClientTyped' /\ VoteInv'
  BY <1>1, <1>3, LoopKeepsTask DEF ClientInv, ClientTyped, TypeOK, files
<1>5. FilesInv'
  BY <1>1, <1>3 DEF ClientInv, FilesInv, files
<1>6. WalkInv'
  BY <1>1, <1>2, <1>3 DEF ClientInv, WalkInv, chain
<1> QED  BY <1>4, <1>5, <1>6 DEF ClientInv

\* A restart forgets what was attempted, and the task begins anew.
LEMMA RestartInv ==
    ASSUME ClientInv, Start \/ Crash
    PROVE  ClientInv'
<1>1. /\ UNCHANGED <<scope, epoch, box, uploaded, coll, tree, made, slow>>
      /\ attempted' = {}
      /\ main' \in MainStates /\ main'.pc \in {"off", "read", "wait"}
      /\ main'.target = NoTarget /\ main'.current_epoch \in {0, epoch}
      /\ task' \in TaskStates /\ task'.pc \in {"off", "idle"}
  <2>1. CASE Crash
    <3>1. main' = Stopped /\ task' = NoTask("off") /\ attempted' = {}
          /\ UNCHANGED <<chain, files, made, slow>>
      BY <2>1 DEF Crash
    <3> QED  BY <3>1, StoppedTyped, NoTaskTyped DEF Stopped, chain, files
  <2>2. CASE Start
    <3>1. PICK pc \in {"wait", "read"} :
                 main' = [Stopped EXCEPT !.pc = pc, !.current_epoch = epoch]
      BY <2>2 DEF Start
    <3>2. /\ main.pc = "off" /\ task' = NoTask("idle") /\ UNCHANGED <<chain, files, history>>
      BY <2>2 DEF Start
    <3>3. attempted = {}
      BY <3>2 DEF ClientInv, WalkInv
    <3>4. epoch \in Nat
      BY EpochFacts DEF ClientInv, ClientTyped, TypeOK
    <3>5. /\ main' \in MainStates /\ main'.pc = pc
          /\ main'.target = NoTarget /\ main'.current_epoch = epoch
      BY <3>1, <3>4 DEF Stopped, MainStates
    <3> QED  BY <3>2, <3>3, <3>5, NoTaskTyped DEF chain, files, history
  <2> QED  BY <2>1, <2>2
<1>2. ClientTyped'
  <2>1. TypeOK'
    BY <1>1 DEF ClientInv, ClientTyped, TypeOK, MainStates, TaskStates
  <2> QED  BY <1>1, <2>1 DEF ClientInv, ClientTyped
<1>3. FilesInv' /\ VoteInv'
  BY <1>1 DEF ClientInv, FilesInv, VoteInv
<1>4. WalkInv'
  BY <1>1, EpochFacts DEF ClientInv, ClientTyped, TypeOK, WalkInv
<1> QED  BY <1>2, <1>3, <1>4 DEF ClientInv

\* A new epoch of the cluster is what makes a turn slow.
LEMMA NewEpochInv ==
    ASSUME ClientInv, NewEpoch
    PROVE  ClientInv'
<1>1. /\ epoch < scope.last /\ epoch' = epoch + 1
      /\ main.pc = "wait" => ~ (epoch > main.current_epoch)
      /\ slow' = (slow \/ (main.pc \notin {"off", "wait"} /\ main.target # NoTarget
                           /\ epoch + 1 >= main.target + 3))
      /\ UNCHANGED <<scope, box, uploaded, coll, tree, main, task, made, attempted>>
  BY DEF NewEpoch, is_next_epoch, files
<1>2. /\ epoch \in Nat /\ epoch' \in FirstEpoch .. LastEpoch
      /\ main.target \in Int /\ main.current_epoch \in Nat
  BY <1>1, EpochFacts, ClientAssumption DEF ClientInv, ClientTyped, TypeOK, MainStates
<1>3. ClientTyped'
  BY <1>1, <1>2 DEF ClientInv, ClientTyped, TypeOK
<1>4. FilesInv' /\ VoteInv'
  BY <1>1 DEF ClientInv, FilesInv, VoteInv, process_epoch
<1>5. WalkInv'
  <2>1. ASSUME main.target # NoTarget, ~ slow'  PROVE epoch' <= main.target + 2
    <3>1. CASE main.pc \in {"off", "wait"}
      BY <1>1, <1>2, <2>1, <3>1 DEF ClientInv, WalkInv
    <3>2. CASE main.pc \notin {"off", "wait"}
      <4>1. ~ (epoch + 1 >= main.target + 3)
        BY <1>1, <2>1, <3>2, Zenon
      <4> QED  BY <1>1, <1>2, <4>1
    <3> QED  BY <3>1, <3>2
  <2>2. ~ slow' => ~ slow
    BY <1>1
  <2>3. main.target < epoch => main.target < epoch'
    BY <1>1, <1>2
  <2>4. main.current_epoch <= epoch'
    BY <1>1, <1>2 DEF ClientInv, WalkInv
  <2> QED  BY <1>1, <2>1, <2>2, <2>3, <2>4 DEF ClientInv, WalkInv
<1> QED  BY <1>3, <1>4, <1>5 DEF ClientInv

-----------------------------------------------------------------------------
(* The steps of the submitting task and of the world                       *)

\* Between two epochs of its walk the task carries nothing.
LEMMA BetweenEpochs ==
    ASSUME ClientInv, UNCHANGED <<chain, files, main, history>>,
           task' \in TaskStates, task'.pc \in {"off", "idle", "pick", "dead"}
    PROVE  ClientInv'
<1>1. UNCHANGED <<epoch, scope, box, uploaded, coll, tree, main, made, attempted, slow>>
  BY DEF chain, files, history
<1>2. FilesInv' /\ WalkInv'
  BY <1>1, OthersKeepLoop DEF files
<1>3. ClientTyped'
  BY <1>1 DEF ClientInv, ClientTyped, TypeOK, TaskStates
<1>4. VoteInv'
  BY <1>1 DEF ClientInv, VoteInv
<1> QED  BY <1>2, <1>3, <1>4 DEF ClientInv

LEMMA NextIndexTyped ==
    ASSUME ClientInv, task.i < num_monitored_epochs
    PROVE  NextIndex \in TaskStates /\ NextIndex.pc = "pick"
<1> DEFINE t == [NoTask("pick") EXCEPT !.epoch = task.epoch]
           j == task.i + 1
           none == [voting |-> "absent", vote |-> NoRoot, winner |-> NoRoot]
<1>0. t = [pc |-> "pick", epoch |-> task.epoch, i |-> 0, root |-> NoRoot,
           seen |-> none, left |-> {}]
  BY DEF NoTask
<1>1. NextIndex = [pc |-> "pick", epoch |-> task.epoch, i |-> j, root |-> NoRoot,
                   seen |-> none, left |-> {}]
  <2>1. NextIndex = [t EXCEPT !.i = j]
    BY DEF NextIndex
  <2> HIDE DEF t, j
  <2> QED  BY <1>0, <2>1
<1>2. task.epoch \in Nat /\ task.i + 1 \in 0 .. num_monitored_epochs
  BY EpochFacts DEF ClientInv, ClientTyped, TaskStates
<1> QED  BY <1>1, <1>2 DEF TaskStates, Boxes

LEMMA WalkStepsInv ==
    ASSUME ClientInv,
           \/ SubmitRecentEpochs \/ SubmitDone \/ NothingToSubmit \/ SubmitFails
           \/ SkipUpload \/ BatchEnds
    PROVE  ClientInv'
<1>1. CASE SubmitRecentEpochs
  <2>1. task' = [pc |-> "pick", epoch |-> epoch, i |-> 0, root |-> NoRoot,
                 seen |-> [voting |-> "absent", vote |-> NoRoot, winner |-> NoRoot], left |-> {}]
    BY <1>1 DEF SubmitRecentEpochs, NoTask
  <2>2. epoch \in Nat
    BY EpochFacts DEF ClientInv, ClientTyped, TypeOK
  <2>3. task' \in TaskStates /\ task'.pc = "pick"
    BY <2>1, <2>2, EpochFacts DEF TaskStates, Boxes
  <2> QED  BY <1>1, <2>3, BetweenEpochs DEF SubmitRecentEpochs
<1>2. CASE SubmitDone
  BY <1>2, NoTaskTyped, BetweenEpochs DEF SubmitDone
<1>3. CASE NothingToSubmit
  BY <1>3, NextIndexTyped, BetweenEpochs DEF NothingToSubmit
<1>4. CASE SubmitFails
  BY <1>4, NextIndexTyped, BetweenEpochs DEF SubmitFails
<1>5. CASE SkipUpload
  <2>1. task.i < num_monitored_epochs
    BY <1>5 DEF SkipUpload, ClientInv, VoteInv
  <2> QED  BY <1>5, <2>1, NextIndexTyped, BetweenEpochs DEF SkipUpload
<1>6. CASE BatchEnds
  <2>1. task.i < num_monitored_epochs
    BY <1>6 DEF BatchEnds, ClientInv, VoteInv
  <2> QED  BY <1>6, <2>1, NextIndexTyped, BetweenEpochs DEF BatchEnds
<1> QED  BY <1>1, <1>2, <1>3, <1>4, <1>5, <1>6

\* Inside an epoch's turn: the box may get the task's root as its vote, if that
\* root was computed; accounts may be uploaded.
LEMMA WithinEpoch ==
    ASSUME ClientInv, UNCHANGED <<epoch, scope, files, main, made, attempted, slow>>,
           task' \in TaskStates, box' \in [Epochs -> Boxes], uploaded' \in [Epochs -> SUBSET Tdas],
           task'.pc \in {"vote", "upload", "batch"} =>
              process_epoch' \in Epochs /\ task'.i < num_monitored_epochs,
           task'.pc = "vote" => task'.root \in made[process_epoch'],
           \A e \in Epochs : box'[e].vote # NoRoot => box'[e].vote \in made[e]
    PROVE  ClientInv'
<1>1. FilesInv' /\ WalkInv'
  BY OthersKeepLoop
<1>2. ClientTyped'
  BY DEF ClientInv, ClientTyped, TypeOK, TaskStates, files
<1>3. VoteInv'
  BY DEF VoteInv
<1> QED  BY <1>1, <1>2, <1>3 DEF ClientInv

LEMMA VotesKept ==
    ASSUME ClientInv
    PROVE  /\ box \in [Epochs -> Boxes] /\ uploaded \in [Epochs -> SUBSET Tdas]
           /\ \A e \in Epochs : box[e].vote # NoRoot => box[e].vote \in made[e]
           /\ task \in TaskStates
           /\ task.pc \in {"vote", "upload", "batch"} =>
                 process_epoch \in Epochs /\ task.i < num_monitored_epochs
           /\ task.pc = "vote" => task.root \in made[process_epoch]
           /\ task.i \in Int /\ task.epoch \in Int
BY EpochFacts DEF ClientInv, ClientTyped, TypeOK, VoteInv, TaskStates

LEMMA SubmitToNcnInv ==
    ASSUME ClientInv, SubmitToNcn
    PROVE  ClientInv'
<1> DEFINE e == process_epoch
<1>1. /\ task.i < num_monitored_epochs /\ e \in Epochs /\ tree[e] \in Roots
      /\ task' = [task EXCEPT !.pc = "vote", !.root = tree[e], !.seen = box[e]]
      /\ UNCHANGED <<chain, files, main, history>>
  BY DEF SubmitToNcn, HasFile, parses
<1>2. tree[e] \in made[e]
  BY <1>1 DEF ClientInv, FilesInv
<1>3. task' = [pc |-> "vote", epoch |-> task.epoch, i |-> task.i, root |-> tree[e],
               seen |-> box[e], left |-> task.left]
  BY <1>1, VotesKept DEF TaskStates
<1>4. task' \in TaskStates
  BY <1>1, <1>3, VotesKept DEF TaskStates
<1>5. process_epoch' = e
  BY <1>3 DEF process_epoch
<1> QED
  BY <1>1, <1>2, <1>3, <1>4, <1>5, VotesKept, WithinEpoch DEF chain, history

LEMMA VoteStepsInv ==
    ASSUME ClientInv, CastVote \/ NoVote
    PROVE  ClientInv'
<1> DEFINE p == process_epoch
<1>1. /\ task.pc = "vote" /\ task' = [task EXCEPT !.pc = "upload"]
      /\ UNCHANGED <<scope, epoch, uploaded, files, main, history>>
  BY DEF CastVote, NoVote, AfterVote, chain
<1>2. /\ task' \in TaskStates /\ task'.pc = "upload" /\ task'.i = task.i
      /\ task'.epoch = task.epoch
  BY <1>1, VotesKept DEF TaskStates
<1>3. process_epoch' = p /\ p \in Epochs /\ task.root \in made[p]
  BY <1>1, <1>2, VotesKept DEF process_epoch
<1>4. /\ box' \in [Epochs -> Boxes]
      /\ \A e \in Epochs : box'[e].vote # NoRoot => box'[e].vote \in made[e]
  <2>1. CASE CastVote
    <3>1. box' = [box EXCEPT ![p].vote = task.root]
      BY <2>1 DEF CastVote, tip_router_target
    <3>2. task.root \in Roots \cup {NoRoot}
      BY VotesKept DEF TaskStates
    <3> HIDE DEF p
    <3>3. box'[p] = [voting |-> box[p].voting, vote |-> task.root, winner |-> box[p].winner]
      BY <1>3, <3>1, VotesKept DEF Boxes
    <3>4. \A e \in Epochs : e # p => box'[e] = box[e]
      BY <1>3, <3>1, VotesKept
    <3>5. box' = [e \in Epochs |-> box'[e]]
      BY <3>1, VotesKept
    <3>6. box'[p] \in Boxes
      BY <1>3, <3>2, <3>3, VotesKept DEF Boxes
    <3>7. box' \in [Epochs -> Boxes]
      BY <3>4, <3>5, <3>6, VotesKept
    <3> QED  BY <1>3, <3>3, <3>4, <3>7, VotesKept
  <2>2. CASE NoVote
    BY <2>2, VotesKept DEF NoVote, chain
  <2> QED  BY <2>1, <2>2
<1> HIDE DEF p
<1> QED  BY <1>1, <1>2, <1>3, <1>4, VotesKept, WithinEpoch DEF history

LEMMA UploadStepsInv ==
    ASSUME ClientInv,
           GetNodes \/ \E t \in Tdas : SetMerkleRoot(t) \/ SetMerkleRootFails(t)
    PROVE  ClientInv'
<1> DEFINE p == process_epoch
<1>1. CASE GetNodes
  <2>1. UNCHANGED <<chain, files, main, history>> /\ task.pc = "upload"
    BY <1>1 DEF GetNodes
  <2>2. CASE task' = NoTask("dead")
    BY <2>1, <2>2, NoTaskTyped, BetweenEpochs
  <2>3. CASE task' = [task EXCEPT !.pc = "batch", !.left = ToUpload(p)]
    <3>1. /\ task' \in TaskStates /\ task'.pc = "batch" /\ task'.i = task.i
          /\ task'.epoch = task.epoch
      BY <2>3, VotesKept DEF TaskStates, ToUpload
    <3>2. process_epoch' = p
      BY <3>1 DEF process_epoch
    <3> QED  BY <2>1, <3>1, <3>2, VotesKept, WithinEpoch DEF chain, history
  <2> QED  BY <1>1, <2>2, <2>3 DEF GetNodes
<1>2. ASSUME NEW t \in Tdas, SetMerkleRoot(t) \/ SetMerkleRootFails(t)
      PROVE  ClientInv'
  <2>1. /\ task.pc = "batch" /\ task' = [task EXCEPT !.left = @ \ {t}]
        /\ UNCHANGED <<scope, epoch, box, files, main, history>>
    BY <1>2 DEF SetMerkleRoot, SetMerkleRootFails, chain
  <2>2. /\ task' \in TaskStates /\ task'.pc = "batch" /\ task'.i = task.i
        /\ task'.epoch = task.epoch
    BY <2>1, VotesKept DEF TaskStates
  <2>3. process_epoch' = p /\ p \in Epochs
    BY <2>1, <2>2, VotesKept DEF process_epoch
  <2>4. uploaded' \in [Epochs -> SUBSET Tdas]
    <3>1. CASE SetMerkleRoot(t)
      BY <3>1, <2>3, VotesKept DEF SetMerkleRoot
    <3>2. CASE SetMerkleRootFails(t)
      BY <3>2, VotesKept DEF SetMerkleRootFails, chain
    <3> QED  BY <1>2, <3>1, <3>2
  <2> QED  BY <2>1, <2>2, <2>3, <2>4, VotesKept, WithinEpoch DEF history
<1> QED  BY <1>1, <1>2

LEMMA WorldInv ==
    ASSUME ClientInv, NEW e \in Epochs,
           \/ BoxOpens(e) \/ BoxEnds(e)
           \/ \E r \in scope.roots : BoxSettles(e, r)
           \/ \E t \in Tdas : OtherUploads(e, t)
    PROVE  ClientInv'
<1>1. UNCHANGED <<scope, epoch, files, main, task, history>>
  BY DEF BoxOpens, BoxEnds, BoxSettles, OtherUploads
<1>2. scope.roots \subseteq Roots
  BY ClientAssumption DEF ClientInv, ClientTyped
<1> DEFINE SameVotes == /\ box' \in [Epochs -> Boxes]
                        /\ \A f \in Epochs : box'[f].vote = box[f].vote
<1>3. SameVotes
  <2>1. CASE BoxOpens(e)
    <3>1. box' = [box EXCEPT ![e].voting = "open"]
      BY <2>1 DEF BoxOpens
    <3> QED  BY <3>1, VotesKept DEF Boxes
  <2>2. CASE BoxEnds(e)
    <3>1. box' = [box EXCEPT ![e].voting = "over"]
      BY <2>2 DEF BoxEnds
    <3> QED  BY <3>1, VotesKept DEF Boxes
  <2>3. ASSUME NEW r \in scope.roots, BoxSettles(e, r)
        PROVE  SameVotes
    <3>1. box' = [box EXCEPT ![e].winner = r] /\ r \in Roots
      BY <2>3, <1>2 DEF BoxSettles
    <3> QED  BY <3>1, VotesKept DEF Boxes
  <2>4. ASSUME NEW t \in Tdas, OtherUploads(e, t)
        PROVE  SameVotes
    BY <2>4, VotesKept DEF OtherUploads
  <2> QED  BY <2>1, <2>2, <2>3, <2>4
<1>4. uploaded' \in [Epochs -> SUBSET Tdas]
  BY VotesKept DEF BoxOpens, BoxEnds, BoxSettles, OtherUploads
<1>5. process_epoch' = process_epoch
  BY <1>1 DEF process_epoch
<1> QED  BY <1>1, <1>3, <1>4, <1>5, VotesKept, WithinEpoch DEF history

-----------------------------------------------------------------------------
(* The node                                                                *)

LEMMA ClientStep == ClientInv /\ [Next]_vars => ClientInv'
<1> SUFFICES ASSUME ClientInv, [Next]_vars
             PROVE  ClientInv'
  OBVIOUS
<1>1. CASE UNCHANGED vars
  <2>1. UNCHANGED <<epoch, scope, box, uploaded, coll, tree, main, task, made, attempted, slow>>
    BY <1>1 DEF vars, chain, files, history
  <2>2. process_epoch' = process_epoch
    BY <2>1 DEF process_epoch
  <2> QED  BY <2>1, <2>2, VotesKept, WithinEpoch DEF files
<1>2. ASSUME NEW r \in scope.roots, GenerateTrees(r)
      PROVE  ClientInv'
  BY <1>2, GenerateTreesInv
<1> QED
  BY <1>1, <1>2, GetPreviousEpochInv, TurnEndsInv, WriteCollectionInv, WaitForNextEpochInv,
     RestartInv, NewEpochInv, WalkStepsInv, SubmitToNcnInv, VoteStepsInv, UploadStepsInv,
     WorldInv DEF Next

LEMMA NodeKeepsClientInv == NodeSpec => []ClientInv
<1>1. NodeInit => ClientInv
  BY ClientInit DEF NodeInit
<1>2. ClientInv /\ [NodeNext]_all_vars => ClientInv'
  <2>1. [NodeNext]_all_vars => [Next]_vars
    BY DEF NodeNext, VotesStep, BackupStep, all_vars
  <2> QED  BY <2>1, ClientStep
<1> QED  BY <1>1, <1>2, PTL DEF NodeSpec

\* VotesAreComputed: every vote in a ballot box is a root this operator
\* computed for that epoch, and every tree on disk has its collection, however
\* the main loop's writes interleave with the submitting task's reads and
\* wherever the process is killed (process_epoch, submit_to_ncn).
THEOREM VotesAreAlwaysComputed == NodeSpec => []VotesAreComputed
<1>1. ClientInv => VotesAreComputed
  BY DEF ClientInv, ClientTyped, FilesInv, VoteInv, VotesAreComputed
<1> QED  BY <1>1, NodeKeepsClientInv, PTL

\* NoEpochIsSkipped: the epochs the main loop has turned to since it started
\* have no gap, as long as no turn outlived the following epoch
\* (wait_for_next_epoch, get_previous_epoch_last_slot).
THEOREM LoopSkipsNoEpoch == NodeSpec => []NoEpochIsSkipped
<1>1. ClientInv => NoEpochIsSkipped
  <2> SUFFICES ASSUME ClientInv, ~ slow, NEW e \in attempted, NEW f \in attempted
               PROVE  e .. f \subseteq attempted
    BY DEF NoEpochIsSkipped
  <2>1. main.target # NoTarget
    BY DEF ClientInv, WalkInv
  <2>2. f <= main.target /\ e .. main.target \subseteq attempted
    BY <2>1 DEF ClientInv, WalkInv
  <2>3. e \in Int /\ f \in Int /\ main.target \in Int
    BY EpochFacts DEF ClientInv, ClientTyped, MainStates
  <2> QED  BY <2>2, <2>3
<1> QED  BY <1>1, NodeKeepsClientInv, PTL

-----------------------------------------------------------------------------
(* The snapshot monitor: slots and epochs                                  *)

LEMMA DivBounds ==
    ASSUME NEW x \in Nat, NEW y \in Nat \ {0}
    PROVE  x \div y \in Nat /\ y * (x \div y) <= x /\ x < y * (x \div y) + y
<1>1. x \div y \in Int /\ y * (x \div y) <= x /\ x < y * (x \div y) + y
  BY SMT
<1>2. x \div y >= 0
  BY SMT
<1> QED  BY <1>1, <1>2

LEMMA DivUnique ==
    ASSUME NEW x \in Nat, NEW y \in Nat \ {0}, NEW q \in Nat, y * q <= x, x < y * q + y
    PROVE  x \div y = q
<1> DEFINE d == x \div y
<1>1. d \in Nat /\ y * d <= x /\ x < y * d + y
  BY DivBounds
<1> HIDE DEF d
<1>2. ASSUME d < q  PROVE FALSE
  <2>1. y * (d + 1) <= y * q
    BY <1>1, <1>2
  <2>2. y * (d + 1) = y * d + y
    BY <1>1
  <2> QED  BY <1>1, <2>1, <2>2
<1>3. ASSUME q < d  PROVE FALSE
  <2>1. y * (q + 1) <= y * d
    BY <1>1, <1>3
  <2>2. y * (q + 1) = y * q + y
    OBVIOUS
  <2> QED  BY <1>1, <2>1, <2>2
<1>4. d = q
  BY <1>1, <1>2, <1>3
<1> QED  BY <1>4 DEF d

LEMMA SlotFacts ==
    /\ B!Slots \subseteq Nat
    /\ None \notin B!Slots /\ None \notin B!Epochs
    /\ \A s \in B!Slots : B!EpochOf(s) \in B!Epochs /\ B!EpochOf(s) \in Int
<1>1. SlotsPerEpoch \in Nat /\ SlotsPerEpoch # 0 /\ LastBackupEpoch \in Nat /\ LastBackupEpoch >= 2
      /\ None \notin Int
  BY BackupAssumption
<1>2. 2 * SlotsPerEpoch \in Nat /\ (LastBackupEpoch + 1) * SlotsPerEpoch \in Nat
  BY <1>1
<1>3. \A s : s \in B!Slots <=> /\ s \in Int /\ 2 * SlotsPerEpoch <= s
                               /\ s <= (LastBackupEpoch + 1) * SlotsPerEpoch - 1
  BY <1>2 DEF B!Slots, B!EarliestEpoch
<1>4. B!Slots \subseteq Nat /\ None \notin B!Slots
  BY <1>1, <1>2, <1>3
<1>5. ASSUME NEW s \in B!Slots
      PROVE  B!EpochOf(s) \in Int /\ 2 <= B!EpochOf(s) /\ B!EpochOf(s) <= LastBackupEpoch
  <2> DEFINE d == s \div SlotsPerEpoch
  <2>1. s \in Nat
    BY <1>4
  <2>2. d \in Nat /\ SlotsPerEpoch * d <= s /\ s < SlotsPerEpoch * d + SlotsPerEpoch
    BY <1>1, <2>1, DivBounds
  <2>3. B!EpochOf(s) = d
    BY DEF B!EpochOf
  <2> HIDE DEF d
  <2>4. ASSUME d < 2  PROVE FALSE
    <3>1. SlotsPerEpoch * (d + 1) <= SlotsPerEpoch * 2
      BY <1>1, <2>2, <2>4
    <3>2. SlotsPerEpoch * (d + 1) = SlotsPerEpoch * d + SlotsPerEpoch
      BY <1>1, <2>2
    <3>3. SlotsPerEpoch * 2 = 2 * SlotsPerEpoch
      BY <1>1
    <3> QED  BY <1>1, <1>2, <1>3, <2>1, <2>2, <3>1, <3>2, <3>3
  <2>5. ASSUME LastBackupEpoch < d  PROVE FALSE
    <3>1. SlotsPerEpoch * (LastBackupEpoch + 1) <= SlotsPerEpoch * d
      BY <1>1, <2>2, <2>5
    <3>2. SlotsPerEpoch * (LastBackupEpoch + 1) = (LastBackupEpoch + 1) * SlotsPerEpoch
      BY <1>1
    <3> QED  BY <1>1, <1>2, <1>3, <2>1, <2>2, <3>1, <3>2
  <2> QED  BY <1>1, <2>2, <2>3, <2>4, <2>5
<1>6. B!Epochs = 2 .. LastBackupEpoch
  BY DEF B!Epochs, B!EarliestEpoch
<1> QED  BY <1>1, <1>4, <1>5, <1>6

\* The epoch changes where get_target_slots says it does.
LEMMA NextSlotEpoch ==
    ASSUME slot \in B!Slots, slot < B!LastSlot(LastBackupEpoch)
    PROVE  /\ slot + 1 \in B!Slots
           /\ slot = B!LastSlot(B!epoch) => B!EpochOf(slot + 1) = B!epoch + 1
           /\ slot # B!LastSlot(B!epoch) => B!EpochOf(slot + 1) = B!epoch
<1> DEFINE d == slot \div SlotsPerEpoch
           n == SlotsPerEpoch
<1>1. n \in Nat \ {0} /\ LastBackupEpoch \in Nat /\ slot \in Nat
  BY SlotFacts, BackupAssumption
<1>2. d \in Nat /\ n * d <= slot /\ slot < n * d + n
  BY <1>1, DivBounds
<1>3. B!epoch = d /\ B!EpochOf(slot + 1) = (slot + 1) \div n
  BY DEF B!epoch, B!EpochOf
<1>4. B!LastSlot(B!epoch) = (d + 1) * n - 1
  BY <1>3 DEF B!LastSlot
<1>5. slot + 1 \in B!Slots
  <2>1. 2 * n \in Nat /\ (LastBackupEpoch + 1) * n \in Nat
    BY <1>1
  <2> QED  BY <1>1, <2>1 DEF B!Slots, B!LastSlot, B!EarliestEpoch
<1> HIDE DEF d, n
<1>6. (d + 1) * n = n * d + n /\ n * (d + 1) = n * d + n /\ n * d \in Nat
  BY <1>1, <1>2
<1>7. ASSUME slot = (d + 1) * n - 1  PROVE (slot + 1) \div n = d + 1
  <2>1. n * (d + 1) <= slot + 1 /\ slot + 1 < n * (d + 1) + n
    BY <1>1, <1>2, <1>6, <1>7
  <2>2. slot + 1 \in Nat /\ d + 1 \in Nat
    BY <1>1, <1>2
  <2> QED  BY <1>1, <2>1, <2>2, DivUnique
<1>8. ASSUME slot # (d + 1) * n - 1  PROVE (slot + 1) \div n = d
  <2>1. n * d <= slot + 1 /\ slot + 1 < n * d + n
    BY <1>1, <1>2, <1>6, <1>8
  <2> QED  BY <1>1, <1>2, <2>1, DivUnique
<1> QED  BY <1>3, <1>4, <1>5, <1>7, <1>8

LEMMA LeastNat ==
    ASSUME NEW S, S \subseteq Nat, S # {}
    PROVE  \E x \in S : \A y \in S : x <= y
<1> DEFINE Less == {ss \in Nat \X Nat : ss[1] < ss[2]}
<1>1. IsWellFoundedOn(Less, Nat)
  BY NatLessThanWellFounded, Zenon DEF OpToRel
<1>2. PICK x \in S : \A y \in S : ~ (<<y, x>> \in Less)
  <2> HIDE DEF Less
  <2> QED  BY <1>1, WFMin, Zenon
<1>3. ASSUME NEW y \in S  PROVE x <= y
  <2>1. x \in Nat /\ y \in Nat
    OBVIOUS
  <2>2. ~ (y < x)
    BY <1>2, <2>1
  <2> QED  BY <2>1, <2>2
<1> QED  BY <1>3

\* The slots are bounded: Max finds the greatest of a set of them.
LEMMA GreatestSlot ==
    ASSUME NEW S, S \subseteq B!Slots, S # {}
    PROVE  B!Max(S) \in S /\ \A y \in S : B!Max(S) >= y
<1> DEFINE top == (LastBackupEpoch + 1) * SlotsPerEpoch
           T == {n \in Nat : top - n \in S}
<1>1. top \in Nat /\ S \subseteq Nat /\ \A s \in S : s <= top
  <2>1. top \in Nat /\ 2 * SlotsPerEpoch \in Nat
    BY BackupAssumption
  <2> QED  BY <2>1, SlotFacts DEF B!Slots
<1> HIDE DEF top
<1>2. T # {}
  <2>1. PICK s \in S : TRUE
    OBVIOUS
  <2>2. top - s \in Nat /\ top - (top - s) = s
    BY <1>1
  <2> QED  BY <2>2
<1>3. PICK n \in T : \A m \in T : n <= m
  <2>1. T \subseteq Nat
    OBVIOUS
  <2> HIDE DEF T
  <2> QED  BY <1>2, <2>1, LeastNat
<1>4. ASSUME NEW y \in S  PROVE top - n >= y
  <2>1. top - y \in T
    BY <1>1
  <2>2. n \in Nat /\ y \in Nat /\ n <= top - y
    BY <1>1, <1>3, <2>1
  <2> QED  BY <1>1, <2>2
<1>5. \E x \in S : \A y \in S : x >= y
  BY <1>3, <1>4
<1> QED  BY <1>5 DEF B!Max

-----------------------------------------------------------------------------
(* The snapshot monitor: the inductive invariant                           *)

Status == {"none", "partial", "whole"}
MonitorStates ==
    [pc : {"tick", "last", "this"}, target : B!Epochs \cup {None}, last : B!Slots \cup {None},
     this : B!Slots \cup {None}, copying : B!Slots \cup {None}]

BackupTyped ==
    /\ B!TypeOK
    /\ fragile \in BOOLEAN
    /\ replay = [pc |-> replay.pc, epoch |-> replay.epoch, from |-> replay.from,
                 bank |-> replay.bank]

\* The monitor is at most one epoch behind, and what it has noted belongs to
\* its target and to the epoch before.
MonitorInv ==
    /\ monitor.target = None => monitor.pc = "tick" /\ monitor.this = None /\ monitor.last = None
    /\ monitor.target # None => monitor.target \in {B!epoch - 1, B!epoch}
    /\ monitor.this # None => B!EpochOf(monitor.this) = monitor.target
    /\ monitor.last # None => B!EpochOf(monitor.last) = monitor.target - 1

\* A copy is made of a snapshot that is not noted yet, and, unless copies
\* break, it is the only partial file.
CopyInv ==
    /\ monitor.copying # None =>
          /\ monitor.pc \in {"last", "this"}
          /\ B!EpochOf(monitor.copying) = B!TargetEpoch
          /\ monitor.copying # B!Noted
    /\ ~ fragile => \A s \in B!Slots : backup[s] = "partial" => s = monitor.copying

\* No whole file is newer than the newest of its epoch, which is kept until
\* its epoch is two behind.
BestInv ==
    /\ \A s \in B!Slots : backup[s] = "whole" =>
          best[B!EpochOf(s)] # None /\ s <= best[B!EpochOf(s)]
    /\ \A e \in B!Epochs : best[e] # None => B!EpochOf(best[e]) = e
    /\ ~ fragile => \A e \in B!Epochs :
          e >= B!epoch - 1 /\ best[e] # None => backup[best[e]] = "whole"

BackupInv == BackupTyped /\ MonitorInv /\ CopyInv /\ BestInv

LEMMA SameCardinality ==
    ASSUME NEW S
    PROVE  B!Cardinality(S) = Cardinality(S)
BY DEF B!Cardinality, Cardinality, B!IsFiniteSet, IsFiniteSet

LEMMA BackupTypes ==
    ASSUME BackupInv
    PROVE  /\ slot \in B!Slots /\ B!epoch \in Int /\ B!epoch \in B!Epochs
           /\ snapshots \subseteq B!Slots
           /\ backup \in [B!Slots -> Status]
           /\ monitor \in MonitorStates
           /\ best \in [B!Epochs -> B!Slots \cup {None}]
           /\ fragile \in BOOLEAN
<1>1. B!TypeOK /\ fragile \in BOOLEAN
  BY DEF BackupInv, BackupTyped
<1>2. B!epoch = B!EpochOf(slot)
  BY DEF B!epoch
<1> QED  BY <1>1, <1>2, SlotFacts DEF B!TypeOK, Status, MonitorStates

LEMMA BackupInit == B!Init => BackupInv
<1> SUFFICES ASSUME B!Init PROVE BackupInv
  OBVIOUS
<1>1. /\ fragile \in BOOLEAN /\ slot = 2 * SlotsPerEpoch
      /\ snapshots = {} /\ newest = slot - 1
      /\ backup = [s \in B!Slots |-> "none"]
      /\ monitor = [pc |-> "tick", target |-> None, last |-> None, this |-> None, copying |-> None]
      /\ replay = [pc |-> "idle", epoch |-> 2, from |-> None, bank |-> None]
      /\ best = [e \in B!Epochs |-> None]
  BY DEF B!Init, B!NewMonitor, B!EarliestEpoch
<1>2. slot \in B!Slots
  <2>1. 2 * SlotsPerEpoch \in Int /\ (LastBackupEpoch + 1) * SlotsPerEpoch \in Int
        /\ (LastBackupEpoch + 1) * SlotsPerEpoch = LastBackupEpoch * SlotsPerEpoch + SlotsPerEpoch
    BY BackupAssumption
  <2>2. 2 * SlotsPerEpoch <= LastBackupEpoch * SlotsPerEpoch
    BY BackupAssumption
  <2>3. SlotsPerEpoch \in Nat /\ SlotsPerEpoch > 0 /\ LastBackupEpoch * SlotsPerEpoch \in Nat
    BY BackupAssumption
  <2> QED  BY <1>1, <2>1, <2>2, <2>3 DEF B!Slots, B!EarliestEpoch
<1>3. B!TypeOK
  <2>1. B!Cardinality(snapshots) <= Retained
    BY <1>1, FS_EmptySet, SameCardinality, BackupAssumption
  <2>2. newest \in B!Slots \cup {2 * SlotsPerEpoch - 1}
    BY <1>1
  <2>3. replay.pc = "idle"
    BY <1>1
  <2>4. monitor \in [pc : {"tick", "last", "this"}, target : B!Epochs \cup {None},
                    last : B!Slots \cup {None}, this : B!Slots \cup {None},
                    copying : B!Slots \cup {None}]
    BY <1>1
  <2> QED  BY <1>1, <1>2, <2>1, <2>2, <2>3, <2>4 DEF B!TypeOK, B!EarliestEpoch
<1>4. BackupTyped
  BY <1>1, <1>3 DEF BackupTyped
<1>5. MonitorInv /\ CopyInv
  BY <1>1 DEF MonitorInv, CopyInv
<1>6. BestInv
  BY <1>1, SlotFacts DEF BestInv
<1> QED  BY <1>4, <1>5, <1>6 DEF BackupInv

-----------------------------------------------------------------------------
(* The replay, the cluster and the validator                               *)

LEMMA ReplayInv ==
    ASSUME BackupInv, B!Processing
    PROVE  BackupInv'
<1>1. UNCHANGED <<fragile, slot, snapshots, newest, backup, monitor, best>>
  BY DEF B!Processing, B!Rollover, B!SnapshotFound, B!WaitEnds, B!EndProcessing, B!LoadLedger,
         B!ReplayLedger
<1> DEFINE Shaped ==
      /\ replay' = [pc |-> replay'.pc, epoch |-> replay'.epoch, from |-> replay'.from,
                    bank |-> replay'.bank]
      /\ replay'.pc \in {"idle", "wait", "load", "replay", "done", "failed", "torn"}
<1>2. Shaped
  <2>1. replay = [pc |-> replay.pc, epoch |-> replay.epoch, from |-> replay.from,
                  bank |-> replay.bank]
    BY DEF BackupInv, BackupTyped
  <2>2. CASE B!Rollover \/ B!EndProcessing
    BY <2>2 DEF B!Rollover, B!EndProcessing
  <2>3. CASE B!SnapshotFound \/ B!WaitEnds
    <3>1. replay' = [replay EXCEPT !.pc = "load"]
      BY <2>3 DEF B!SnapshotFound, B!WaitEnds
    <3> QED  BY <2>1, <3>1
  <2>4. ASSUME NEW s \in B!Starts, B!LoadLedger(s)
        PROVE  Shaped
    <3> DEFINE p == IF s # None /\ backup[s] = "partial" THEN "torn" ELSE "replay"
    <3>1. replay' = [replay EXCEPT !.from = s, !.pc = p]
      BY <2>4 DEF B!LoadLedger
    <3>2. p \in {"torn", "replay"}
      OBVIOUS
    <3> HIDE DEF p
    <3> QED  BY <2>1, <3>1, <3>2
  <2>5. ASSUME NEW b \in B!Halts, B!ReplayLedger(b)
        PROVE  Shaped
    <3> DEFINE p == IF B!IsDesiredSlot(b) THEN "done" ELSE "failed"
    <3>1. replay' = [replay EXCEPT !.bank = b, !.pc = p]
      BY <2>5 DEF B!ReplayLedger
    <3>2. p \in {"done", "failed"}
      OBVIOUS
    <3> HIDE DEF p
    <3> QED  BY <2>1, <3>1, <3>2
  <2> QED  BY <2>2, <2>3, <2>4, <2>5 DEF B!Processing
<1>3. BackupTyped'
  BY <1>1, <1>2 DEF BackupInv, BackupTyped, B!TypeOK
<1>4. MonitorInv' /\ CopyInv' /\ BestInv'
  BY <1>1 DEF BackupInv, MonitorInv, CopyInv, BestInv, B!epoch, B!TargetEpoch, B!Noted
<1> QED  BY <1>3, <1>4 DEF BackupInv

LEMMA NextSlotInv ==
    ASSUME BackupInv, B!NextSlot
    PROVE  BackupInv'
<1>1. /\ slot < B!LastSlot(LastBackupEpoch) /\ slot' = slot + 1
      /\ slot = B!LastSlot(B!epoch) => monitor.target = B!epoch
      /\ UNCHANGED <<fragile, snapshots, newest, backup, monitor, replay, best>>
  BY DEF B!NextSlot, B!get_target_epoch
<1>2. /\ slot' \in B!Slots /\ B!epoch' \in Int
      /\ \/ B!epoch' = B!epoch
         \/ B!epoch' = B!epoch + 1 /\ monitor.target = B!epoch
  <2>1. slot \in B!Slots /\ B!epoch \in Int
    BY BackupTypes
  <2>2. B!epoch' = B!EpochOf(slot + 1)
    BY <1>1 DEF B!epoch, B!EpochOf
  <2> QED  BY <1>1, <2>1, <2>2, NextSlotEpoch
<1>3. BackupTyped'
  BY <1>1, <1>2 DEF BackupInv, BackupTyped, B!TypeOK
<1>4. MonitorInv'
  <2>1. B!epoch \in Int
    BY BackupTypes
  <2> QED  BY <1>1, <1>2, <2>1 DEF BackupInv, MonitorInv, B!EpochOf
<1>5. CopyInv'
  BY <1>1 DEF BackupInv, CopyInv, B!EpochOf, B!TargetEpoch, B!Noted
<1>6. BestInv'
  <2>1. B!epoch \in Int /\ \A e \in B!Epochs : e \in Int
    BY BackupTypes DEF B!Epochs, B!EarliestEpoch
  <2>2. \A e \in B!Epochs : e >= B!epoch' - 1 => e >= B!epoch - 1
    BY <1>2, <2>1
  <2> QED  BY <1>1, <2>2 DEF BackupInv, BestInv, B!EpochOf
<1> QED  BY <1>3, <1>4, <1>5, <1>6 DEF BackupInv

\* Of one snapshot more than it keeps the validator drops the oldest.
LEMMA MakeSnapshotInv ==
    ASSUME BackupInv, NEW s \in B!Slots, B!MakeSnapshot(s)
    PROVE  BackupInv'
<1> DEFINE all == snapshots \cup {s}
<1>1. /\ newest' = s
      /\ snapshots' = {t \in all : B!Cardinality({u \in all : u > t}) < Retained}
      /\ UNCHANGED <<fragile, slot, backup, monitor, replay, best>>
  BY DEF B!MakeSnapshot
<1>2. /\ all \subseteq B!Slots /\ Cardinality(snapshots) <= Retained /\ Retained \in Nat
  BY SameCardinality, BackupAssumption DEF BackupInv, BackupTyped, B!TypeOK
<1>3. IsFiniteSet(B!Slots)
  <2>1. 2 * SlotsPerEpoch \in Int /\ (LastBackupEpoch + 1) * SlotsPerEpoch - 1 \in Int
    BY BackupAssumption
  <2>2. \A a, b \in Int : IsFiniteSet(a .. b)
    BY FS_Interval
  <2> QED  BY <2>1, <2>2 DEF B!Slots, B!EarliestEpoch
<1>4. /\ IsFiniteSet(snapshots) /\ IsFiniteSet(all)
      /\ Cardinality(snapshots) \in Nat /\ Cardinality(all) \in Nat
      /\ Cardinality(all) <= Retained + 1
  <2>1. IsFiniteSet(snapshots) /\ IsFiniteSet(all)
    BY <1>2, <1>3, FS_Subset
  <2>2. Cardinality(snapshots) \in Nat /\ Cardinality(all) \in Nat
    BY <2>1, FS_CardinalityType
  <2>3. Cardinality(all) <= Cardinality(snapshots) + 1
    BY <2>1, <2>2, FS_AddElement
  <2> QED  BY <1>2, <2>1, <2>2, <2>3
<1>5. snapshots' \subseteq all
  BY <1>1
<1>6. Cardinality(snapshots') <= Retained
  <2>1. CASE Cardinality(all) <= Retained
    <3>1. Cardinality(snapshots') <= Cardinality(all) /\ Cardinality(snapshots') \in Nat
      BY <1>4, <1>5, FS_Subset, FS_CardinalityType
    <3> QED  BY <1>2, <1>4, <2>1, <3>1
  <2>2. CASE Cardinality(all) = Retained + 1
    <3>1. PICK m \in all : \A y \in all : m <= y
      <4>1. all \subseteq Nat /\ all # {}
        BY <1>2, SlotFacts
      <4> HIDE DEF all
      <4> QED  BY <4>1, LeastNat
    <3>2. {u \in all : u > m} = all \ {m}
      <4>1. all \subseteq Nat
        BY <1>2, SlotFacts
      <4> HIDE DEF all
      <4>2. m \in Nat /\ \A u \in all : u \in Nat /\ m <= u
        BY <3>1, <4>1
      <4>3. \A u \in all : u > m <=> u # m
        BY <4>2
      <4> QED  BY <4>3
    <3>3. IsFiniteSet(all \ {m}) /\ Cardinality(all \ {m}) = Retained
      <4>1. m \in all /\ IsFiniteSet(all)
        BY <1>4, <3>1
      <4> HIDE DEF all
      <4>2. /\ IsFiniteSet(all \ {m})
            /\ Cardinality(all \ {m}) = Cardinality(all) - 1
        BY <4>1, FS_RemoveElement
      <4> QED  BY <1>2, <2>2, <4>2
    <3>4. ~ (B!Cardinality({u \in all : u > m}) < Retained)
      BY <1>2, <3>2, <3>3, SameCardinality
    <3>5. snapshots' \subseteq all \ {m}
      BY <1>1, <3>4
    <3>6. Cardinality(snapshots') <= Cardinality(all \ {m})
      BY <3>3, <3>5, FS_Subset
    <3> QED  BY <3>3, <3>6
  <2> QED  BY <1>2, <1>4, <2>1, <2>2
<1>7. BackupTyped'
  <2>1. B!Cardinality(snapshots') <= Retained
    BY <1>6, SameCardinality
  <2>2. snapshots' \subseteq B!Slots
    BY <1>2, <1>5
  <2> QED  BY <1>1, <2>1, <2>2 DEF BackupInv, BackupTyped, B!TypeOK, B!Cardinality, B!IsFiniteSet
<1>8. MonitorInv' /\ CopyInv' /\ BestInv'
  BY <1>1 DEF BackupInv, MonitorInv, CopyInv, BestInv, B!epoch, B!TargetEpoch, B!Noted
<1> QED  BY <1>7, <1>8 DEF BackupInv

-----------------------------------------------------------------------------
(* The turns of the monitor                                                *)

LEMMA TickInv ==
    ASSUME BackupInv, B!Tick
    PROVE  BackupInv'
<1>0. /\ monitor.pc = "tick"
      /\ UNCHANGED <<fragile, slot, snapshots, newest, replay, best>>
  BY DEF B!Tick
<1>1. B!epoch' = B!epoch
  BY <1>0 DEF B!epoch
<1>2. monitor \in MonitorStates /\ B!epoch \in B!Epochs /\ B!epoch \in Int
      /\ backup \in [B!Slots -> Status] /\ monitor.copying = None
  BY <1>0, BackupTypes DEF BackupInv, CopyInv
<1>3. CASE monitor.target = B!epoch
  <2>1. monitor' = [monitor EXCEPT !.pc = "last"] /\ UNCHANGED backup
    BY <1>3 DEF B!Tick, B!get_target_epoch
  <2>2. /\ monitor' \in MonitorStates /\ monitor'.target = monitor.target
        /\ monitor'.last = monitor.last /\ monitor'.this = monitor.this
        /\ monitor'.copying = None
    BY <1>2, <2>1 DEF MonitorStates
  <2>3. monitor'.target # None
    BY <1>2, <1>3, <2>2, SlotFacts
  <2>4. BackupTyped'
    BY <1>0, <2>1, <2>2 DEF BackupInv, BackupTyped, B!TypeOK, MonitorStates
  <2>5. MonitorInv'
    BY <1>1, <1>3, <2>2, <2>3 DEF BackupInv, MonitorInv
  <2>6. CopyInv' /\ BestInv'
    BY <1>0, <1>1, <1>2, <2>1, <2>2 DEF BackupInv, CopyInv, BestInv
  <2> QED  BY <2>4, <2>5, <2>6 DEF BackupInv
<1>4. CASE monitor.target # B!epoch
  <2>1. /\ monitor' = [pc |-> "last", target |-> B!epoch, last |-> monitor.this,
                       this |-> None, copying |-> None]
        /\ backup' = [s \in B!Slots |-> IF B!EpochOf(s) = B!epoch - 2 THEN "none" ELSE backup[s]]
    BY <1>4 DEF B!Tick, B!get_target_epoch, B!evict_all_epoch_snapshots, B!EvictedEpoch
  <2>2. monitor' \in MonitorStates /\ backup' \in [B!Slots -> Status]
    BY <1>2, <2>1 DEF MonitorStates, Status
  <2>3. BackupTyped'
    BY <1>0, <2>2 DEF BackupInv, BackupTyped, B!TypeOK, MonitorStates, Status
  <2>4. MonitorInv'
    <3>1. monitor.this # None => B!EpochOf(monitor.this) = B!epoch - 1
      BY <1>4 DEF BackupInv, MonitorInv
    <3>2. B!epoch # None
      BY <1>2, SlotFacts
    <3> QED  BY <1>1, <2>1, <3>1, <3>2 DEF MonitorInv
  <2>5. \A s \in B!Slots : /\ backup'[s] \in {backup[s], "none"}
                           /\ B!EpochOf(s) # B!epoch - 2 => backup'[s] = backup[s]
    BY <2>1
  <2>6. CopyInv'
    BY <1>0, <1>2, <2>1, <2>5 DEF BackupInv, CopyInv
  <2>7. BestInv'
    <3>1. ASSUME NEW e \in B!Epochs, e >= B!epoch - 1, best[e] # None
          PROVE  backup'[best[e]] = backup[best[e]]
      <4>1. best[e] \in B!Slots /\ B!EpochOf(best[e]) = e /\ e \in Int
        <5>1. B!EpochOf(best[e]) = e
          BY <3>1 DEF BackupInv, BestInv
        <5>2. best[e] \in B!Slots
          BY <3>1, BackupTypes
        <5> QED  BY <5>1, <5>2, SlotFacts
      <4>2. e # B!epoch - 2
        BY <1>2, <3>1, <4>1
      <4> QED  BY <2>5, <4>1, <4>2
    <3> QED  BY <1>0, <1>1, <2>5, <3>1 DEF BackupInv, BestInv
  <2> QED  BY <2>3, <2>4, <2>6, <2>7 DEF BackupInv
<1> QED  BY <1>3, <1>4

\* run ends or the process is killed: a new monitor, between two copies unless
\* copies may break.
LEMMA NewMonitorInv ==
    ASSUME BackupInv, B!RunFails \/ B!Killed
    PROVE  BackupInv'
<1>1. /\ monitor.copying = None \/ fragile
      /\ monitor' = [pc |-> "tick", target |-> None, last |-> None, this |-> None,
                     copying |-> None]
      /\ UNCHANGED <<fragile, slot, snapshots, newest, backup, best>>
  BY DEF B!RunFails, B!Killed, B!NewMonitor, BackupInv, CopyInv
<1>2. monitor' \in MonitorStates
  BY <1>1 DEF MonitorStates
<1>3. /\ replay' = [pc |-> replay'.pc, epoch |-> replay'.epoch, from |-> replay'.from,
                    bank |-> replay'.bank]
      /\ replay'.pc \in {"idle", "wait", "load", "replay", "done", "failed", "torn"}
  BY DEF B!RunFails, B!Killed, BackupInv, BackupTyped, B!TypeOK
<1>4. BackupTyped'
  BY <1>1, <1>2, <1>3 DEF BackupInv, BackupTyped, B!TypeOK, MonitorStates
<1>5. MonitorInv' /\ CopyInv'
  BY <1>1 DEF BackupInv, MonitorInv, CopyInv
<1>6. BestInv'
  BY <1>1 DEF BackupInv, BestInv, B!epoch
<1> QED  BY <1>4, <1>5, <1>6 DEF BackupInv

\* An attempt that ends without a backup: there was nothing new, or the copy broke.
LEMMA NoBackupInv ==
    ASSUME BackupInv, B!NothingNew \/ B!SizeMismatch \/ B!CopyError
    PROVE  BackupInv'
<1>1. monitor.pc \in {"last", "this"} /\ (monitor.copying = None \/ fragile)
  BY DEF B!NothingNew, B!AtBackup, B!SizeMismatch, B!CopyError, BackupInv, CopyInv
<1>2. /\ monitor \in MonitorStates /\ backup \in [B!Slots -> Status] /\ fragile \in BOOLEAN
      /\ monitor.target # None
  BY <1>1, BackupTypes DEF BackupInv, MonitorInv
<1>3. UNCHANGED <<fragile, slot, snapshots, newest, replay, best>>
  BY DEF B!NothingNew, B!SizeMismatch, B!CopyError
<1>4. /\ monitor' \in MonitorStates /\ monitor'.target = monitor.target
      /\ monitor'.last = monitor.last /\ monitor'.this = monitor.this
      /\ monitor'.copying = None
  <2>1. B!NextPc \in {"this", "tick"}
    BY DEF B!NextPc
  <2>2. CASE B!NothingNew
    <3>1. monitor' = [monitor EXCEPT !.pc = B!NextPc] /\ monitor.copying = None
      BY <2>2 DEF B!NothingNew, B!AtBackup
    <3> QED  BY <1>2, <2>1, <3>1 DEF MonitorStates
  <2>3. CASE B!SizeMismatch \/ B!CopyError
    <3>1. monitor' = [monitor EXCEPT !.copying = None, !.pc = B!NextPc]
      BY <2>3 DEF B!SizeMismatch, B!CopyError
    <3> QED  BY <1>2, <2>1, <3>1 DEF MonitorStates
  <2> QED  BY <2>2, <2>3
<1>5. /\ backup' \in [B!Slots -> Status]
      /\ \A s \in B!Slots : backup'[s] = "whole" => backup[s] = "whole"
      /\ ~ fragile => backup' = backup
  <2>1. CASE B!NothingNew \/ B!CopyError
    BY <1>2, <2>1 DEF B!NothingNew, B!CopyError
  <2>2. CASE B!SizeMismatch
    <3>1. fragile /\ backup' = [backup EXCEPT ![monitor.copying] = "none"]
      BY <2>2 DEF B!SizeMismatch
    <3> QED  BY <1>2, <3>1 DEF Status
  <2> QED  BY <2>1, <2>2
<1>6. BackupTyped'
  BY <1>3, <1>4, <1>5 DEF BackupInv, BackupTyped, B!TypeOK, MonitorStates, Status
<1>7. MonitorInv'
  BY <1>2, <1>3, <1>4 DEF BackupInv, MonitorInv, B!epoch
<1>8. CopyInv'
  BY <1>1, <1>3, <1>4, <1>5 DEF BackupInv, CopyInv
<1>9. BestInv'
  BY <1>3, <1>5 DEF BackupInv, BestInv, B!epoch
<1> QED  BY <1>6, <1>7, <1>8, <1>9 DEF BackupInv

\* What find_closest_incremental returns belongs to the target's epoch.
LEMMA ClosestFacts ==
    ASSUME BackupInv, B!HasNew
    PROVE  /\ B!Closest \in B!Slots /\ B!EpochOf(B!Closest) = B!TargetEpoch
           /\ B!Closest # B!Noted
<1> DEFINE F == B!find_closest_incremental
<1>1. F \subseteq B!Slots /\ F # {} /\ \A s \in F : B!EpochOf(s) = B!TargetEpoch
  BY BackupTypes DEF B!find_closest_incremental, B!HasNew
<1>2. B!Closest = B!Max(F) /\ B!Closest # B!Noted
  BY DEF B!Closest, B!HasNew
<1> HIDE DEF F
<1>3. B!Max(F) \in F
  BY <1>1, GreatestSlot
<1> QED  BY <1>1, <1>2, <1>3

LEMMA StartCopyInv ==
    ASSUME BackupInv, B!StartCopy
    PROVE  BackupInv'
<1> DEFINE c == B!Closest
<1>1. /\ monitor.pc \in {"last", "this"} /\ monitor.copying = None
      /\ backup[c] = "none" /\ backup' = [backup EXCEPT ![c] = "partial"]
      /\ monitor' = [monitor EXCEPT !.copying = c]
      /\ UNCHANGED <<fragile, slot, snapshots, newest, replay, best>>
  BY DEF B!StartCopy, B!AtBackup
<1>2. c \in B!Slots /\ B!EpochOf(c) = B!TargetEpoch /\ c # B!Noted
  BY ClosestFacts DEF B!StartCopy
<1> HIDE DEF c
<1>3. /\ monitor \in MonitorStates /\ backup \in [B!Slots -> Status] /\ fragile \in BOOLEAN
      /\ best \in [B!Epochs -> B!Slots \cup {None}]
  BY BackupTypes
<1>4. /\ monitor' \in MonitorStates /\ monitor'.target = monitor.target
      /\ monitor'.last = monitor.last /\ monitor'.this = monitor.this
      /\ monitor'.copying = c /\ monitor'.pc = monitor.pc
  BY <1>1, <1>2, <1>3 DEF MonitorStates
<1>5. /\ backup' \in [B!Slots -> Status] /\ backup'[c] = "partial"
      /\ \A s \in B!Slots : s # c => backup'[s] = backup[s]
  BY <1>1, <1>2, <1>3 DEF Status
<1>6. BackupTyped'
  BY <1>1, <1>4, <1>5 DEF BackupInv, BackupTyped, B!TypeOK, MonitorStates, Status
<1>7. MonitorInv'
  BY <1>1, <1>4 DEF BackupInv, MonitorInv, B!epoch
<1>8. CopyInv'
  <2>1. B!TargetEpoch' = B!TargetEpoch /\ B!Noted' = B!Noted
    BY <1>4 DEF B!TargetEpoch, B!Noted
  <2>2. ~ fragile => \A s \in B!Slots : backup[s] # "partial"
    BY <1>1, SlotFacts DEF BackupInv, CopyInv
  <2>3. ~ fragile' => \A s \in B!Slots : backup'[s] = "partial" => s = c
    BY <1>1, <1>5, <2>2
  <2> QED  BY <1>1, <1>2, <1>4, <2>1, <2>3 DEF CopyInv
<1>9. BestInv'
  <2>1. \A s \in B!Slots : backup'[s] = "whole" => backup[s] = "whole"
    BY <1>5
  <2>2. \A s \in B!Slots : backup[s] = "whole" => backup'[s] = "whole"
    BY <1>1, <1>5
  <2>3. ASSUME NEW e \in B!Epochs, best[e] # None, backup[best[e]] = "whole"
        PROVE  backup'[best[e]] = "whole"
    BY <1>3, <2>2, <2>3
  <2> QED  BY <1>1, <2>1, <2>3 DEF BackupInv, BestInv, B!epoch
<1> QED  BY <1>6, <1>7, <1>8, <1>9 DEF BackupInv

\* The eviction in an epoch drops files of that epoch, and not its newest.
LEMMA EvictionDrops ==
    ASSUME NEW b \in [B!Slots -> Status], NEW e
    PROVE  LET k == B!evict_same_epoch_incremental(b, e)
           IN  /\ k \in [B!Slots -> Status]
               /\ \A s \in B!Slots : k[s] \in {b[s], "none"}
               /\ \A s \in B!Slots : B!EpochOf(s) # e => k[s] = b[s]
<1> DEFINE f == {s \in B!Slots : B!EpochOf(s) = e /\ b[s] # "none"}
           k == [s \in B!Slots |-> IF s \in f \ B!Kept(e, f) THEN "none" ELSE b[s]]
<1>1. B!evict_same_epoch_incremental(b, e) = k
  BY DEF B!evict_same_epoch_incremental
<1>2. k \in [B!Slots -> Status] /\ \A s \in B!Slots : k[s] \in {b[s], "none"}
  BY DEF Status
<1>3. \A s \in B!Slots : B!EpochOf(s) # e => k[s] = b[s]
  OBVIOUS
<1> QED  BY <1>1, <1>2, <1>3

LEMMA EvictionSpares ==
    ASSUME NEW b \in [B!Slots -> Status], NEW e,
           NEW m \in B!Slots, \A t \in B!Slots : B!EpochOf(t) = e /\ b[t] # "none" => t <= m
    PROVE  B!evict_same_epoch_incremental(b, e)[m] = b[m]
<1> DEFINE f == {s \in B!Slots : B!EpochOf(s) = e /\ b[s] # "none"}
           k == [s \in B!Slots |-> IF s \in f \ B!Kept(e, f) THEN "none" ELSE b[s]]
<1>1. B!evict_same_epoch_incremental(b, e) = k
  BY DEF B!evict_same_epoch_incremental
<1>2. m \in f => m \in B!Kept(e, f)
  <2>1. {t \in f : t > m} = {}
    <3>1. \A t \in f : t <= m /\ t \in Nat
      BY SlotFacts
    <3>2. m \in Nat
      BY SlotFacts
    <3> HIDE DEF f
    <3> QED  BY <3>1, <3>2
  <2> HIDE DEF f
  <2>2. B!Cardinality({t \in f : t > m}) = 0
    BY <2>1, FS_EmptySet, SameCardinality
  <2> QED  BY <2>2, BackupAssumption DEF B!Kept
<1> QED  BY <1>1, <1>2

\* What follows a backup of s, b being the directory before the eviction.
LEMMA BackedUpInv ==
    ASSUME BackupInv, NEW s \in B!Slots, NEW b \in [B!Slots -> Status], B!BackedUp(s, b),
           monitor.pc \in {"last", "this"}, B!EpochOf(s) = B!TargetEpoch,
           best' \in [B!Epochs -> B!Slots \cup {None}],
           \A t \in B!Slots : b[t] = "whole" =>
              best'[B!EpochOf(t)] # None /\ t <= best'[B!EpochOf(t)],
           \A e \in B!Epochs : best'[e] # None => B!EpochOf(best'[e]) = e,
           ~ fragile => /\ \A t \in B!Slots : b[t] # "partial"
                        /\ \A e \in B!Epochs :
                              e >= B!epoch - 1 /\ best'[e] # None => b[best'[e]] = "whole",
           UNCHANGED <<fragile, slot, snapshots, newest, replay>>
    PROVE  BackupInv'
<1> DEFINE e == B!TargetEpoch
           k == B!evict_same_epoch_incremental(b, e)
<1>1. /\ monitor \in MonitorStates /\ fragile \in BOOLEAN /\ B!epoch \in Int
      /\ monitor.target # None
  BY BackupTypes DEF BackupInv, MonitorInv
<1>2. e \in B!Epochs /\ backup' = k
  BY SlotFacts DEF B!BackedUp
<1>3. /\ monitor' \in MonitorStates /\ monitor'.target = monitor.target
      /\ monitor'.copying = None
      /\ IF monitor.pc = "last"
         THEN monitor'.last = s /\ monitor'.this = monitor.this
         ELSE monitor'.this = s /\ monitor'.last = monitor.last
  <2> DEFINE p == B!NextPc
  <2>1. p \in {"this", "tick"}
    BY DEF B!NextPc
  <2>2. CASE monitor.pc = "last"
    <3>1. monitor' = [monitor EXCEPT !.last = s, !.pc = p, !.copying = None]
      BY <2>2 DEF B!BackedUp
    <3> HIDE DEF p
    <3> QED  BY <1>1, <2>1, <2>2, <3>1 DEF MonitorStates
  <2>3. CASE monitor.pc # "last"
    <3>1. monitor' = [monitor EXCEPT !.this = s, !.pc = p, !.copying = None]
      BY <2>3 DEF B!BackedUp
    <3> HIDE DEF p
    <3> QED  BY <1>1, <2>1, <2>3, <3>1 DEF MonitorStates
  <2> QED  BY <2>2, <2>3
<1>4. /\ k \in [B!Slots -> Status]
      /\ \A t \in B!Slots : k[t] \in {b[t], "none"}
      /\ \A t \in B!Slots : B!EpochOf(t) # e => k[t] = b[t]
  BY EvictionDrops
<1>5. BackupTyped'
  BY <1>2, <1>3, <1>4 DEF BackupInv, BackupTyped, B!TypeOK, MonitorStates, Status
<1>6. MonitorInv'
  <2>1. e = IF monitor.pc = "last" THEN monitor.target - 1 ELSE monitor.target
    BY DEF B!TargetEpoch
  <2> HIDE DEF e
  <2> QED  BY <1>1, <1>3, <2>1 DEF e, BackupInv, MonitorInv, B!epoch
<1> HIDE DEF k
<1>7. CopyInv'
  BY <1>2, <1>3, <1>4 DEF CopyInv
<1>8. BestInv'
  <2>1. \A t \in B!Slots : k[t] = "whole" => b[t] = "whole"
    BY <1>4
  <2>2. ASSUME ~ fragile, NEW g \in B!Epochs, g >= B!epoch - 1, best'[g] # None
        PROVE  k[best'[g]] = "whole"
    <3> DEFINE m == best'[g]
    <3>1. m \in B!Slots /\ B!EpochOf(m) = g /\ b[m] = "whole"
      BY <2>2
    <3>2. CASE g # e
      BY <1>4, <3>1, <3>2
    <3>3. CASE g = e
      <4>1. \A t \in B!Slots : B!EpochOf(t) = e /\ b[t] # "none" => t <= m
        BY <2>2, <3>3 DEF Status
      <4> HIDE DEF m, e
      <4>2. B!evict_same_epoch_incremental(b, e)[m] = b[m]
        BY <3>1, <4>1, EvictionSpares
      <4> QED  BY <3>1, <4>2 DEF k, m
    <3> QED  BY <3>2, <3>3
  <2> QED  BY <1>2, <2>1, <2>2 DEF BestInv, B!epoch
<1> QED  BY <1>5, <1>6, <1>7, <1>8 DEF BackupInv

LEMMA AlreadyExistsInv ==
    ASSUME BackupInv, B!AlreadyExists
    PROVE  BackupInv'
<1>1. /\ monitor.pc \in {"last", "this"} /\ monitor.copying = None
      /\ B!BackedUp(B!Closest, backup)
      /\ UNCHANGED <<fragile, slot, snapshots, newest, replay, best>>
  BY DEF B!AlreadyExists, B!AtBackup
<1>2. B!Closest \in B!Slots /\ B!EpochOf(B!Closest) = B!TargetEpoch
  BY ClosestFacts DEF B!AlreadyExists
<1>3. ~ fragile => \A t \in B!Slots : backup[t] # "partial"
  BY <1>1, SlotFacts DEF BackupInv, CopyInv
<1>4. BestInv /\ backup \in [B!Slots -> Status] /\ best \in [B!Epochs -> B!Slots \cup {None}]
  BY BackupTypes DEF BackupInv
<1> QED  BY <1>1, <1>2, <1>3, <1>4, BackedUpInv DEF BestInv

LEMMA EndCopyInv ==
    ASSUME BackupInv, B!EndCopy
    PROVE  BackupInv'
<1> DEFINE s == monitor.copying
           b == [backup EXCEPT ![s] = "whole"]
           e == B!EpochOf(s)
           n == IF best[e] = None THEN s ELSE B!Max({best[e], s})
<1>1. /\ s # None /\ B!BackedUp(s, b)
      /\ best' = [best EXCEPT ![e] = n]
      /\ UNCHANGED <<fragile, slot, snapshots, newest, replay>>
  BY DEF B!EndCopy
<1>2. monitor.pc \in {"last", "this"} /\ B!EpochOf(s) = B!TargetEpoch
  BY <1>1 DEF BackupInv, CopyInv
<1>3. /\ s \in B!Slots /\ backup \in [B!Slots -> Status] /\ fragile \in BOOLEAN
      /\ best \in [B!Epochs -> B!Slots \cup {None}]
  BY <1>1, BackupTypes DEF MonitorStates
<1>4. e \in B!Epochs /\ B!Slots \subseteq Nat
  BY <1>3, SlotFacts
<1>5. /\ b \in [B!Slots -> Status] /\ b[s] = "whole"
      /\ \A t \in B!Slots : t # s => b[t] = backup[t]
  BY <1>3 DEF Status
<1>6. /\ n \in B!Slots /\ s <= n /\ B!EpochOf(n) = e
      /\ n \in {s, best[e]} /\ (best[e] # None => best[e] <= n)
  <2>1. CASE best[e] = None
    <3>1. n = s /\ s \in Nat
      BY <1>3, <1>4, <2>1
    <3> HIDE DEF n
    <3> QED  BY <1>3, <2>1, <3>1
  <2>2. CASE best[e] # None
    <3>1. best[e] \in B!Slots /\ B!EpochOf(best[e]) = e
      BY <1>3, <1>4, <2>2 DEF BackupInv, BestInv
    <3>2. n \in {best[e], s} /\ \A y \in {best[e], s} : n >= y
      <4>1. {best[e], s} \subseteq B!Slots /\ {best[e], s} # {}
        BY <1>3, <3>1
      <4>2. n = B!Max({best[e], s})
        BY <2>2
      <4> QED  BY <4>1, <4>2, GreatestSlot
    <3> HIDE DEF n, e
    <3> QED  BY <1>3, <1>4, <3>1, <3>2 DEF e
  <2> QED  BY <2>1, <2>2
<1>7. ~ fragile => \A t \in B!Slots : b[t] # "partial"
  BY <1>3, <1>5 DEF BackupInv, CopyInv
<1> HIDE DEF b, n, e
<1>8. /\ best' \in [B!Epochs -> B!Slots \cup {None}] /\ best'[e] = n
      /\ \A g \in B!Epochs : g # e => best'[g] = best[g]
  BY <1>1, <1>3, <1>4, <1>6
<1>9. ASSUME NEW t \in B!Slots, b[t] = "whole"
      PROVE  best'[B!EpochOf(t)] # None /\ t <= best'[B!EpochOf(t)]
  <2>1. CASE t = s
    BY <1>6, <1>8, <2>1, SlotFacts DEF e
  <2>2. CASE t # s
    <3>1. best[B!EpochOf(t)] # None /\ t <= best[B!EpochOf(t)]
      BY <1>5, <1>9, <2>2 DEF BackupInv, BestInv
    <3>2. CASE B!EpochOf(t) = e
      <4>1. best[e] \in Nat /\ n \in Nat /\ t \in Nat
        BY <1>3, <1>4, <1>6, <3>1, <3>2
      <4> QED  BY <1>6, <1>8, <3>1, <3>2, <4>1, SlotFacts
    <3>3. CASE B!EpochOf(t) # e
      BY <1>8, <3>1, <3>3, SlotFacts
    <3> QED  BY <3>2, <3>3
  <2> QED  BY <2>1, <2>2
<1>10. \A g \in B!Epochs : best'[g] # None => B!EpochOf(best'[g]) = g
  BY <1>6, <1>8 DEF BackupInv, BestInv
<1>11. ASSUME ~ fragile, NEW g \in B!Epochs, g >= B!epoch - 1, best'[g] # None
       PROVE  b[best'[g]] = "whole"
  <2>1. best[g] # None => best[g] \in B!Slots /\ backup[best[g]] = "whole"
    BY <1>3, <1>11 DEF BackupInv, BestInv
  <2>2. best[g] # None => b[best[g]] = "whole"
    BY <1>5, <2>1
  <2>3. best'[g] = s \/ best'[g] = best[g]
    BY <1>6, <1>8
  <2> QED  BY <1>5, <1>11, <2>2, <2>3
<1> HIDE DEF s
<1> QED  BY <1>1, <1>2, <1>3, <1>5, <1>7, <1>8, <1>9, <1>10, <1>11, BackedUpInv

-----------------------------------------------------------------------------
(* The node's snapshots                                                    *)

LEMMA BackupStepInv == BackupInv /\ [B!Next]_backup_vars => BackupInv'
<1> SUFFICES ASSUME BackupInv, [B!Next]_backup_vars
             PROVE  BackupInv'
  OBVIOUS
<1>1. CASE UNCHANGED backup_vars
  <2>1. UNCHANGED <<fragile, slot, snapshots, newest, backup, monitor, replay, best>>
    BY <1>1 DEF backup_vars
  <2>2. BackupTyped'
    BY <2>1 DEF BackupInv, BackupTyped, B!TypeOK
  <2>3. MonitorInv' /\ CopyInv' /\ BestInv'
    BY <2>1 DEF BackupInv, MonitorInv, CopyInv, BestInv, B!epoch, B!TargetEpoch, B!Noted
  <2> QED  BY <2>2, <2>3 DEF BackupInv
<1>2. CASE B!Next
  BY <1>2, ReplayInv, NextSlotInv, MakeSnapshotInv, TickInv, NewMonitorInv, NoBackupInv,
     StartCopyInv, AlreadyExistsInv, EndCopyInv DEF B!Next, B!Processing
<1> QED  BY <1>1, <1>2

\* NewestIsKept: for every length of an epoch and every number of snapshots the
\* monitor keeps, the newest snapshot backed up for the last or for this epoch
\* is still in the backup directory, whole, and what the monitor has noted is
\* no broken copy, as long as copies do not break (evict_same_epoch_incremental,
\* evict_all_epoch_snapshots).
THEOREM NewestSnapshotIsKept == NodeSpec => []NewestIsKept
<1>1. NodeInit => BackupInv
  BY BackupInit DEF NodeInit
<1>2. BackupInv /\ [NodeNext]_all_vars => BackupInv'
  <2>1. [NodeNext]_all_vars => [B!Next]_backup_vars
    BY DEF NodeNext, VotesStep, BackupStep, all_vars
  <2> QED  BY <2>1, BackupStepInv
<1>3. BackupInv => NewestIsKept
  <2> SUFFICES ASSUME BackupInv
               PROVE  B!NewestIsKept
    BY DEF NewestIsKept
  <2>1. B!TypeOK
    BY DEF BackupInv, BackupTyped
  <2>2. ASSUME ~ fragile, NEW e \in {B!epoch - 1, B!epoch} \cap B!Epochs, best[e] # None
        PROVE  backup[best[e]] = "whole"
    <3>1. B!epoch \in Int
      BY BackupTypes
    <3>2. e >= B!epoch - 1
      BY <3>1
    <3> QED  BY <2>2, <3>2 DEF BackupInv, BestInv
  <2>3. ASSUME ~ fragile, NEW s \in {monitor.last, monitor.this} \ {None}
        PROVE  backup[s] \in {"whole", "none"}
    <3>1. monitor \in MonitorStates /\ backup \in [B!Slots -> Status]
      BY BackupTypes
    <3>2. s \in B!Slots /\ backup[s] \in Status
      BY <3>1 DEF MonitorStates
    <3>3. s # monitor.copying
      <4>1. SUFFICES ASSUME s = monitor.copying  PROVE FALSE
        OBVIOUS
      <4>2. monitor.pc \in {"last", "this"} /\ B!EpochOf(s) = B!TargetEpoch /\ s # B!Noted
        BY <4>1 DEF BackupInv, CopyInv
      <4>3. monitor.target # None /\ monitor.target \in Int
        BY <3>1, <4>2, SlotFacts, BackupTypes DEF BackupInv, MonitorInv
      <4> QED  BY <2>3, <4>2, <4>3 DEF BackupInv, MonitorInv, B!TargetEpoch, B!Noted
    <3> QED  BY <2>3, <3>2, <3>3 DEF BackupInv, CopyInv, Status
  <2> QED  BY <2>1, <2>2, <2>3 DEF B!NewestIsKept
<1> QED  BY <1>1, <1>2, <1>3, PTL DEF NodeSpec
=============================================================================
