----------------------------- MODULE EpochTips -----------------------------
(***************************************************************************)
(* The tips of an epoch: the operators make the trees (TipTrees), and when *)
(* their roots are on chain an operator's client claims what the nodes of  *)
(* the trees hold (TipClaims).  Claiming begins with finished trees on     *)
(* disk and sees of them only the constant Nodes, so the two need not be   *)
(* interleaved: a behaviour is one of either stage, while the variables of *)
(* the other keep their first values.                                      *)
(***************************************************************************)
EXTENDS TipTrees

CONSTANTS Nodes, Ours, Limit, MaxClaimants    \* the constants of TipClaims

VARIABLES
    stage,          \* "trees" or "claims"
    roots, claimants, claimed, due, flight, landed, hash_valid, filed, pc, elapsed, final,
    result, tdas_seen, claimants_seen, txs, to_send, check_signatures, already_processed, no_hash

claim_vars == <<roots, claimants, claimed, due, flight, landed, hash_valid, filed, pc, elapsed,
                final, result, tdas_seen, claimants_seen, txs, to_send, check_signatures,
                already_processed, no_hash>>
all_vars == <<stage, vars, claim_vars>>

C == INSTANCE TipClaims

\* Of the stage that is left out, one first state is enough.
TipsInit ==
    /\ stage \in {"trees", "claims"}
    /\ Init /\ C!Init
    /\ stage = "trees" => roots = {} /\ claimants = {}
    /\ stage = "claims" => /\ bank = CHOOSE b \in Banks : TRUE
                           /\ fee_bps = CHOOSE f \in FeeBps : TRUE
                           /\ epoch = CHOOSE e \in Epochs : TRUE

TreesStep(A) == stage = "trees" /\ A /\ UNCHANGED <<stage, claim_vars>>
ClaimsStep(A) == stage = "claims" /\ A /\ UNCHANGED <<stage, vars>>

TipsNext == TreesStep(Next) \/ ClaimsStep(C!Next)

\* An outage ends; a shuffle does not for ever take only claims that cannot be
\* made; the network takes what is sent again and again; every blockhash
\* expires.
TipsFairSpec ==
    /\ TipsInit /\ [][TipsNext]_all_vars
    /\ <>[][~ ClaimsStep(C!Fault)]_all_vars
    /\ WF_all_vars(ClaimsStep(C!TreesWritten \/ C!Wake)) /\ WF_all_vars(ClaimsStep(C!Expire))
    /\ WF_all_vars(ClaimsStep(C!ReadTdas)) /\ WF_all_vars(ClaimsStep(C!ReadClaimants))
    /\ WF_all_vars(ClaimsStep(C!Finished)) /\ WF_all_vars(ClaimsStep(C!NotFinished))
    /\ WF_all_vars(ClaimsStep(C!CheckBalance)) /\ WF_all_vars(ClaimsStep(C!get_latest_blockhash))
    /\ WF_all_vars(ClaimsStep(C!SendReturns))
    /\ WF_all_vars(ClaimsStep(C!get_batched_signatures_statuses))
    /\ WF_all_vars(ClaimsStep(\E n \in Nodes : C!SendFails(n)))
    /\ SF_all_vars(ClaimsStep(\E batch \in SUBSET Nodes :
                                 C!CanBeMade(batch) /\ C!ReadStatuses(batch)))
    /\ SF_all_vars(ClaimsStep(C!CanBeMade(txs) /\ C!is_blockhash_valid))
    /\ SF_all_vars(ClaimsStep(\E n \in Nodes : C!SendOk(n)))
    /\ SF_all_vars(ClaimsStep(\E n \in Nodes : C!Land(n)))

-----------------------------------------------------------------------------
(* Properties                                                              *)

\* A run of the claiming task that reports that nothing is left has left no
\* node unclaimed of those it could see, except delegations it took for claimed
\* because their staker claimed as the claimant of another node of the tree.
FinishedIsComplete == C!FinishedIsComplete

\* No node stays claimable for ever while its epoch is due and the task is
\* alive, although a batch holds only some nodes and others crowd it; with the
\* same exception.
ClaimsAreMade == stage = "trees" \/ C!ClaimsAreMade
=============================================================================
