----------------------------- MODULE TipClaims -----------------------------
(***************************************************************************)
(* The operator client's claiming task: every half hour it reads the claim *)
(* trees of the last epoch, looks up which nodes can and need be claimed,  *)
(* and sends a batch of claims until its blockhash expires.  The chain     *)
(* (tip distribution program, RPC nodes, blockhashes) and the other        *)
(* operators, who claim the same nodes, are the environment.               *)
(*                                                                         *)
(* A node is a record: its tda and the amount, the claimant, and for a     *)
(* delegation the staker, of which the client derived claim_status_pubkey  *)
(* (a protocol or validator node has its claimant there).  The staker of a *)
(* delegation may be the claimant of another node of its tree: a validator *)
(* that stakes to itself with its identity.                                *)
(***************************************************************************)
EXTENDS Integers, FiniteSets

CONSTANTS
    Nodes,        \* the tree nodes of the last epoch
    Ours,         \* tdas whose upload authority is the tip router's config
    Limit,        \* take(300)
    MaxClaimants  \* bound: how many of the claimants exist

VARIABLES
    roots,        \* chain: tdas whose merkle root is uploaded
    claimants,    \* chain: claimants that exist
    claimed,      \* chain: claim status accounts
    due,          \* chain: the trees are still those of the last epoch
    flight,       \* transactions sent and not landed: node, "new" or "old"
    landed,       \* nodes whose newest transaction has a status
    hash_valid,   \* the newest blockhash is valid
    filed,        \* generated_merkle_tree_{epoch}.json is there
    pc,           \* where the task is; "dead" once it panicked
    elapsed,      \* max_loop_duration has passed
    final,        \* in the pass after the loop
    result,       \* what the last run reported
    tdas_seen,    \* tdas read: the ones with a root
    claimants_seen,
    txs,          \* claim_transactions
    to_send,      \* those the present round has still to send
    check_signatures,
    already_processed,
    no_hash       \* is_blockhash_not_found

chain == <<roots, claimants, claimed, due>>
net == <<flight, landed, hash_valid>>
reads == <<tdas_seen, claimants_seen>>
round == <<to_send, check_signatures, already_processed, no_hash>>
vars == <<chain, net, filed, pc, elapsed, final, result, reads, txs, round>>

Tdas == {n.tda : n \in Nodes}
Claimants == {n.claimant : n \in Nodes}

-----------------------------------------------------------------------------
(* The chain                                                               *)

\* The address of the claim status a claim of a node creates.
ClaimStatus(n) == <<n.claimant, n.tda>>

\* What the tip distribution program asks of a claim.
Executes(n) ==
    /\ n.tda \in roots \cap Ours
    /\ n.claimant \in claimants
    /\ ClaimStatus(n) \notin claimed

UploadRoot ==
    /\ \E t \in Tdas \ roots : roots' = roots \cup {t}
    /\ UNCHANGED <<claimants, claimed, due, net, filed, pc, elapsed, final, result, reads, txs, round>>

\* A stake account is closed.
ClaimantCloses ==
    /\ \E c \in claimants : claimants' = claimants \ {c}
    /\ UNCHANGED <<roots, claimed, due, net, filed, pc, elapsed, final, result, reads, txs, round>>

OtherOperatorClaims ==
    /\ \E n \in Nodes : Executes(n) /\ claimed' = claimed \cup {ClaimStatus(n)}
    /\ UNCHANGED <<roots, claimants, due, net, filed, pc, elapsed, final, result, reads, txs, round>>

\* A transaction gets into a block, where it may fail.
Land(n) ==
    \E age \in {"new", "old"} :
        /\ <<n, age>> \in flight
        /\ flight' = flight \ {<<n, age>>}
        /\ landed' = IF age = "new" THEN landed \cup {n} ELSE landed
        /\ claimed' = IF Executes(n) THEN claimed \cup {ClaimStatus(n)} ELSE claimed
        /\ UNCHANGED <<roots, claimants, due, hash_valid, filed, pc, elapsed, final, result, reads,
                       txs, round>>

\* A blockhash expires and with it what was signed with it.
Expire ==
    /\ hash_valid
    /\ hash_valid' = FALSE
    /\ flight' = {}
    /\ UNCHANGED <<chain, landed, filed, pc, elapsed, final, result, reads, txs, round>>

EpochMoves ==
    /\ due
    /\ due' = FALSE
    /\ UNCHANGED <<roots, claimants, claimed, net, filed, pc, elapsed, final, result, reads, txs, round>>

\* The main loop of the client writes the trees.
TreesWritten ==
    /\ ~ filed
    /\ filed' = TRUE
    /\ UNCHANGED <<chain, net, pc, elapsed, final, result, reads, txs, round>>

Environment ==
    \/ UploadRoot \/ ClaimantCloses \/ OtherOperatorClaims \/ \E n \in Nodes : Land(n)
    \/ Expire \/ EpochMoves \/ TreesWritten

-----------------------------------------------------------------------------
(* The task                                                                *)

\* The end of a run: claim_mev_tips_with_emit reports it and the task sleeps.
Sleep(r) ==
    /\ result' = r
    /\ pc' = "sleep" /\ elapsed' = FALSE /\ final' = FALSE
    /\ tdas_seen' = {} /\ claimants_seen' = {} /\ txs' = {}
    /\ to_send' = {} /\ check_signatures' = {} /\ already_processed' = {} /\ no_hash' = FALSE
    /\ UNCHANGED <<chain, net, filed>>

\* The head of the while loop.
LoopHead ==
    /\ pc' = "tdas" /\ final' = elapsed /\ txs' = {}
    /\ to_send' = {} /\ check_signatures' = {} /\ already_processed' = {} /\ no_hash' = FALSE
    /\ UNCHANGED <<chain, net, filed, elapsed, result, reads>>

\* Half an hour later: a later epoch's trees are not these nodes.
Wake ==
    /\ pc = "sleep" /\ due /\ filed
    /\ pc' = "tdas" /\ result' = "none"
    /\ UNCHANGED <<chain, net, filed, elapsed, final, reads, txs, round>>

Elapse ==
    /\ pc \notin {"sleep", "dead"} /\ ~ elapsed
    /\ elapsed' = TRUE
    /\ UNCHANGED <<chain, net, filed, pc, final, result, reads, txs, round>>

\* get_claim_transactions_for_valid_unclaimed: three reads, one after the other.
ReadTdas ==
    /\ pc = "tdas"
    /\ tdas_seen' = roots
    /\ pc' = "claimants"
    /\ UNCHANGED <<chain, net, filed, elapsed, final, result, claimants_seen, txs, round>>

ReadClaimants ==
    /\ pc = "claimants"
    /\ claimants_seen' = claimants
    /\ pc' = "statuses"
    /\ UNCHANGED <<chain, net, filed, elapsed, final, result, tdas_seen, txs, round>>

\* The claim status a node of a tree names.
claim_status_pubkey(n) == <<n.staker, n.tda>>

\* build_mev_claim_transactions.  That a tree with a max_total_claim of 0 is
\* skipped needs no conjunct of its own: its nodes have amount 0.
Claimable_TdaOnly(n, statuses) ==
    /\ n.tda \in tdas_seen \cap Ours
    /\ n.claimant \in claimants_seen
    /\ \A m \in Nodes : m.tda = n.tda => claim_status_pubkey(m) \notin statuses
    /\ n.amount # 0
Claimable(n, statuses) ==
    /\ n.tda \in tdas_seen \cap Ours
    /\ n.claimant \in claimants_seen
    /\ claim_status_pubkey(n) \notin statuses
    /\ n.amount # 0

Take_Unshuffled(S) == {CHOOSE T \in SUBSET S : Cardinality(T) = IF Cardinality(S) < Limit
                                                                THEN Cardinality(S) ELSE Limit}
Take(S) == {T \in SUBSET S : Cardinality(T) = IF Cardinality(S) < Limit THEN Cardinality(S)
                                                                        ELSE Limit}

\* The statuses are read last.  With nothing to claim the run is done; a
\* shuffled batch goes on.
ReadStatuses(batch) ==
    LET all == {n \in Nodes : Claimable(n, claimed)}
    IN  /\ pc = "statuses" /\ ~ final
        /\ all # {}
        /\ batch \in Take(all)
        /\ txs' = batch
        /\ pc' = "balance"
        /\ tdas_seen' = {} /\ claimants_seen' = {}
        /\ UNCHANGED <<chain, net, filed, elapsed, final, result, round>>

Finished ==
    /\ pc = "statuses" /\ ~ \E n \in Nodes : Claimable(n, claimed)
    /\ Sleep("ok")

\* The unwrap of a tda with tips that was not returned, or not readable.
TdaPanics ==
    /\ pc = "statuses" /\ \E n \in Nodes : n.amount # 0
    /\ pc' = "dead"
    /\ UNCHANGED <<chain, net, filed, elapsed, final, result, reads, txs, round>>

\* After the loop what is left is simulated and reported as not finished or
\* as an uncaught error.
NotFinished ==
    /\ pc = "statuses" /\ final /\ \E n \in Nodes : Claimable(n, claimed)
    /\ Sleep("not finished")

\* is_sufficient_balance: too little is an error; a failed call panics.
CheckBalance ==
    /\ pc = "balance"
    /\ pc' = "blockhash"
    /\ UNCHANGED <<chain, net, filed, elapsed, final, result, reads, txs, round>>
InsufficientBalance == pc = "balance" /\ Sleep("error")
BalancePanics ==
    /\ pc = "balance"
    /\ pc' = "dead"
    /\ UNCHANGED <<chain, net, filed, elapsed, final, result, reads, txs, round>>

get_latest_blockhash ==
    /\ pc = "blockhash"
    /\ hash_valid' = TRUE
    /\ flight' = {<<f[1], "old">> : f \in flight}
    /\ landed' = {}
    /\ pc' = "valid"
    /\ UNCHANGED <<chain, filed, elapsed, final, result, reads, txs, round>>

\* A failed read or blockhash call ends the run.
RpcError == pc \in {"tdas", "claimants", "statuses", "blockhash"} /\ Sleep("error")

\* send_until_blockhash_expires: one round over what has not landed.
is_blockhash_valid ==
    /\ pc = "valid" /\ hash_valid
    /\ pc' = "send"
    /\ to_send' = txs /\ check_signatures' = {} /\ already_processed' = {} /\ no_hash' = FALSE
    /\ UNCHANGED <<chain, net, filed, elapsed, final, result, reads, txs>>

\* The blockhash expired, or a call failed, whose error is dropped.
SendReturns == (pc = "valid" \/ (pc = "send" /\ to_send = {})) /\ LoopHead

\* The preflight accepts a transaction that would execute.
SendOk(n) ==
    /\ pc = "send" /\ n \in to_send /\ Executes(n)
    /\ hash_valid
    /\ flight' = IF n \in landed THEN flight ELSE flight \cup {<<n, "new">>}
    /\ check_signatures' = check_signatures \cup {n}
    /\ to_send' = to_send \ {n}
    /\ UNCHANGED <<chain, landed, hash_valid, filed, pc, elapsed, final, result, reads, txs,
                   already_processed, no_hash>>

SendAlreadyProcessed(n) ==
    /\ pc = "send" /\ n \in to_send \cap landed
    /\ already_processed' = already_processed \cup {n}
    /\ to_send' = to_send \ {n}
    /\ UNCHANGED <<chain, net, filed, pc, elapsed, final, result, reads, txs, check_signatures, no_hash>>

\* A failed preflight or call is logged.
SendFails(n) ==
    /\ pc = "send" /\ n \in to_send
    /\ to_send' = to_send \ {n}
    /\ UNCHANGED <<chain, net, filed, pc, elapsed, final, result, reads, txs, check_signatures,
                   already_processed, no_hash>>

\* The RPC node does not know the blockhash: the round breaks off.
BlockhashNotFound ==
    /\ pc = "send" /\ to_send # {}
    /\ no_hash' = TRUE /\ to_send' = {}
    /\ UNCHANGED <<chain, net, filed, pc, elapsed, final, result, reads, txs, check_signatures,
                   already_processed>>

\* What has a status, a failure too, is not sent again; a status may be missed.
get_batched_signatures_statuses ==
    /\ pc = "send" /\ to_send = {}
    /\ \E known \in SUBSET (check_signatures \cap landed) :
          LET left == txs \ (known \cup already_processed)
          IN  IF left = {} \/ no_hash THEN LoopHead
              ELSE /\ txs' = left /\ pc' = "valid"
                   /\ check_signatures' = {} /\ already_processed' = {}
                   /\ UNCHANGED <<chain, net, filed, elapsed, final, result, reads, to_send, no_hash>>

Task ==
    \/ Wake \/ Elapse \/ ReadTdas \/ ReadClaimants
    \/ \E batch \in SUBSET Nodes : ReadStatuses(batch)
    \/ Finished \/ TdaPanics \/ NotFinished \/ CheckBalance \/ InsufficientBalance \/ BalancePanics
    \/ get_latest_blockhash \/ RpcError \/ is_blockhash_valid \/ SendReturns
    \/ \E n \in Nodes : SendOk(n) \/ SendAlreadyProcessed(n) \/ SendFails(n)
    \/ BlockhashNotFound \/ get_batched_signatures_statuses

Init ==
    /\ roots \in SUBSET Tdas
    /\ claimants \in {S \in SUBSET Claimants : Cardinality(S) <= MaxClaimants}
    /\ claimed = {} /\ due = TRUE /\ flight = {} /\ landed = {} /\ hash_valid = FALSE
    /\ filed = FALSE /\ result = "none" /\ pc = "sleep" /\ elapsed = FALSE /\ final = FALSE
    /\ tdas_seen = {} /\ claimants_seen = {} /\ txs = {}
    /\ to_send = {} /\ check_signatures = {} /\ already_processed = {} /\ no_hash = FALSE

Next == Environment \/ Task

Spec == Init /\ [][Next]_vars

\* What an outage of the RPC node does, or an empty purse.
Fault ==
    \/ RpcError \/ InsufficientBalance \/ BlockhashNotFound
    \/ pc = "valid" /\ hash_valid /\ SendReturns
    \/ \E n \in Nodes : Executes(n) /\ hash_valid /\ SendFails(n)

\* A batch with a claim that would execute.
CanBeMade(batch) == \E n \in batch : Executes(n)

-----------------------------------------------------------------------------
(* Properties                                                              *)

\* The task keeps its lists in step with where it is.
TypeOK ==
    /\ pc \in {"sleep", "tdas", "claimants", "statuses", "balance", "blockhash", "valid",
               "send", "dead"}
    /\ txs \subseteq Nodes /\ Cardinality(txs) <= Limit
    /\ check_signatures \cup already_processed \cup to_send \subseteq txs
    /\ flight \subseteq Nodes \X {"new", "old"}
    /\ txs # {} => pc \in {"balance", "blockhash", "valid", "send", "dead"}

\* A claim of another node of the tree made the status that this node names:
\* the client takes the node for claimed from then on, whether it is or not.
TakenForClaimed(n) ==
    \E m \in Nodes \ {n} :
        ClaimStatus(m) = claim_status_pubkey(n) /\ ClaimStatus(m) \in claimed

\* A run that reports that nothing is left has left no node unclaimed whose
\* root and claimant it saw, although it saw them at different times and other
\* operators claim meanwhile: except a delegation whose staker has claimed as
\* the claimant of another node, which the code forgets.
FinishedIsComplete ==
    [][/\ TypeOK'
       /\ pc = "statuses" /\ pc' = "sleep" /\ result' = "ok" =>
             \A n \in Nodes :
                n.tda \in tdas_seen \cap Ours /\ n.claimant \in claimants_seen /\ n.amount # 0 =>
                   ClaimStatus(n) \in claimed \/ TakenForClaimed(n)]_vars

\* No node stays claimable for ever while its epoch is due and the task is
\* alive, however many claims the batches are crowded with, unless it is taken
\* for claimed by its staker's own claim.
ClaimsAreMade ==
    \A n \in Nodes : n.amount # 0 =>
        ~ <>[](Executes(n) /\ ~ TakenForClaimed(n) /\ due /\ pc # "dead")
=============================================================================
