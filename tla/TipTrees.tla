------------------------------ MODULE TipTrees ------------------------------
(***************************************************************************)
(* From the bank at the end of an epoch to the meta merkle tree: the stake *)
(* metas, a claim tree for each tip distribution account (tda), and the    *)
(* tree over those trees whose root the operators vote for.  Several       *)
(* operators replay the same bank and work on it each for itself; their    *)
(* hash maps are iterated in an order of their own.                        *)
(*                                                                         *)
(* A bank is abstracted to what the trees depend on.  Per vote account:    *)
(* its tda (absent, funded but not initialised, or with lamports and the   *)
(* validator's commission) and its stake accounts.  Vote accounts are      *)
(* numbered and stand for their node and their tda too; stake accounts,    *)
(* stakers and the reward receiver are numbers apart from those.           *)
(***************************************************************************)
EXTENDS MerkleTree, FiniteSetsExt, TLC

CONSTANTS
    Operators,
    Votes,         \* vote accounts with stake in the epoch
    Banks,         \* banks to start from
    FeeBps,        \* protocol fees to try
    Epochs,        \* epochs to try
    MaxBps,        \* MAX_BPS
    Rent,          \* the rent exempt balance of a tda
    FixEpoch,      \* the target epoch after which claimants are stake accounts
    Receiver,      \* BaseRewardReceiver of the target epoch
    NodeOf(_),     \* the node of a vote account
    Items,         \* items of the lists trees are tried with
    MaxLen,        \* bound on such a list
    MaxForged      \* bound on one whose hashes are recombined

VARIABLES
    bank,          \* what the replay left
    fee_bps,       \* adjusted_total_fees_bps of the epoch
    epoch,         \* the epoch of the bank
    phase,         \* per operator: "bank", "metas", "trees", "meta" or "failed"
    metas,         \* per operator: StakeMetaCollection
    trees,         \* per operator: GeneratedMerkleTreeCollection
    meta           \* per operator: the MetaMerkleTree, a list of at most one

vars == <<bank, fee_bps, epoch, phase, metas, trees, meta>>

-----------------------------------------------------------------------------
(* generate_stake_meta_collection                                          *)

\* Excess tips go to the tip receiver's tda once cranked, less the share of
\* the block builder.
tip_receiver_fee(b) == b.excess - (b.excess * b.bb_commission_pct) \div 100

\* The tda of a vote account as the stake metas see it: {} when there is none.
MaybeTda(b, v) ==
    {[lamports |-> t.lamports + (IF v = b.tip_receiver THEN tip_receiver_fee(b) ELSE 0),
      bps      |-> t.bps] : t \in {t \in {b.tda[v]} : t.state = "initialized"}}

tip_distribution_account_from_tda_wrapper(t) ==
    [total_tips |-> t.lamports - Rent, validator_fee_bps |-> t.bps]

\* group_delegations_by_voter_pubkey: the stake accounts that are active.
group_delegations(b, v) == {d \in b.stakes : d.voter = v /\ d.active}

\* A group comes out of a hash map in any order; delegations.sort() orders it.
sort_delegations_Skipped(s) == s
sort_delegations(s) == SortSeq(s, LAMBDA c, d : c.stake < d.stake)

\* checked_sub: a tda below its rent is CheckedMathError.
BelowRent(b) ==
    \E v \in Votes : group_delegations(b, v) # {} /\ \E t \in MaybeTda(b, v) : t.lamports < Rent

StakeMetas(b, order) ==
    LET of(v) == [vote        |-> v,
                  node        |-> NodeOf(v),
                  tda         |-> {tip_distribution_account_from_tda_wrapper(t) :
                                       t \in MaybeTda(b, v)},
                  delegations |-> sort_delegations(order[v]),
                  total       |-> MapThenSumSet(LAMBDA d : d.lamports, ToSet(order[v]))]
        voters == {v \in Votes : group_delegations(b, v) # {}}
    IN  [i \in 1 .. Cardinality(voters) |-> of(SetToSortSeq(voters, <)[i])]

-----------------------------------------------------------------------------
(* TreeNode::vec_from_stake_meta                                           *)

\* The fees of a tda; when they exceed its tips the protocol is preferred.
SplitTips_NoClamp(tips, bps, protocol_bps) ==
    LET protocol == (tips * protocol_bps) \div MaxBps
        validator == (tips * bps) \div MaxBps
    IN  [protocol |-> protocol, validator |-> validator,
         rest |-> IF protocol + validator > tips THEN 0 ELSE tips - protocol - validator]
SplitTips(tips, bps, protocol_bps) ==
    LET protocol == (tips * protocol_bps) \div MaxBps
        validator == (tips * bps) \div MaxBps
    IN  [protocol  |-> protocol,
         validator |-> IF protocol + validator > tips THEN tips - protocol ELSE validator,
         rest      |-> IF protocol + validator > tips THEN 0 ELSE tips - protocol - validator]

\* checked_sub: a protocol fee above the tips is CheckedMathError.
SplitFails(tips, protocol_bps) == (tips * protocol_bps) \div MaxBps > tips

\* Until the fix a delegation was claimed by its staker.
Claimant(d, target) == IF target > FixEpoch THEN d.stake ELSE d.staker

vec_from_stake_meta(m, protocol_bps, ep) ==
    LET t == CHOOSE t \in m.tda : TRUE
        split == SplitTips(t.total_tips, t.validator_fee_bps, protocol_bps)
    IN  << <<Receiver, split.protocol>>, <<m.node, split.validator>> >> \o
        [i \in 1 .. Len(m.delegations) |->
            <<Claimant(m.delegations[i], ep + 1),
              (m.delegations[i].lamports * split.rest) \div m.total>>]

\* new_from_stake_meta_collection: a tree for each stake meta with a tda.
GeneratedTree(m, protocol_bps, ep) ==
    LET nodes == vec_from_stake_meta(m, protocol_bps, ep)
        tree == new(nodes)
    IN  [tda             |-> m.vote,
         merkle_root     |-> get_root(tree),
         tree_nodes      |-> nodes,
         proofs          |-> [i \in 1 .. Len(nodes) |-> get_proof(tree, i - 1)],
         max_total_claim |-> (CHOOSE t \in m.tda : TRUE).total_tips,
         max_num_nodes   |-> Len(nodes)]

-----------------------------------------------------------------------------
(* MetaMerkleTree                                                          *)

\* TreeNode::from and TreeNode::hash of the meta tree.
MetaLeaf(g) == <<g.tda, g.merkle_root, g.max_total_claim, g.max_num_nodes>>

\* sort_by_key(hash): hashes are ordered by some fixed order, here by the tda,
\* which no two trees share.
sort_by_hash(gs) == SortSeq(gs, LAMBDA g, h : g.tda < h.tda)

MetaTree(gs) ==
    LET nodes == [i \in 1 .. Len(gs) |-> MetaLeaf(sort_by_hash(gs)[i])]
        tree == new(nodes)
    IN  [merkle_root |-> get_root(tree), tree_nodes |-> nodes,
         proofs |-> [i \in 1 .. Len(nodes) |-> get_proof(tree, i - 1)]]

\* validate and verify_proof: no tda twice, every node proved.
validate(m) ==
    /\ \A i, j \in 1 .. Len(m.tree_nodes) :
          i # j => m.tree_nodes[i][1] # m.tree_nodes[j][1]
    /\ AllProved(m.tree_nodes)

-----------------------------------------------------------------------------
(* What the trees are expected of, over all short lists of items           *)

Lists(n) == UNION {[1 .. m -> Items] : m \in 1 .. n}

\* An item of their kind, and the pair of hashes under an inner node.
Others == Items \cup {<<9>>} \cup {<<0, {hash_leaf(x), hash_leaf(y)}>> : x, y \in Items}

\* No proof put together from hashes of the tree proves what is not a leaf.
NothingElseIsProved(items) ==
    LET tree == new(items)
    IN  \A x \in Others \ ToSet(items) : \A d \in 0 .. Cardinality(Levels(Len(items))) :
            \A p \in [1 .. d -> ToSet(tree.nodes)] : ~ Proves(p, get_root(tree), x)

\* Every leaf has a proof that verifies, odd levels included, nothing else has
\* one, and lists with the same root have the same items.
TreesAreSound ==
    /\ \A s \in Lists(MaxLen) : AllProved(s)
    /\ \A s \in Lists(MaxForged) :
          /\ NothingElseIsProved(s)
          /\ \A t \in Lists(MaxForged) :
                get_root(new(s)) = get_root(new(t)) => ToSet(s) = ToSet(t)

-----------------------------------------------------------------------------
Init ==
    /\ bank \in Banks /\ fee_bps \in FeeBps /\ epoch \in Epochs
    /\ phase = [o \in Operators |-> "bank"]
    /\ metas = [o \in Operators |-> <<>>]
    /\ trees = [o \in Operators |-> <<>>]
    /\ meta = [o \in Operators |-> <<>>]

generate_stake_meta(o) ==
    /\ phase[o] = "bank"
    /\ \/ /\ ~ bank.config \/ BelowRent(bank)
          /\ phase' = [phase EXCEPT ![o] = "failed"]
          /\ UNCHANGED metas
       \/ /\ bank.config /\ ~ BelowRent(bank)
          /\ \E order \in [Votes -> UNION {SetToSeqs(group_delegations(bank, v)) : v \in Votes}] :
                /\ \A v \in Votes : ToSet(order[v]) = group_delegations(bank, v)
                /\ metas' = [metas EXCEPT ![o] = StakeMetas(bank, order)]
          /\ phase' = [phase EXCEPT ![o] = "metas"]
    /\ UNCHANGED <<bank, fee_bps, epoch, trees, meta>>

new_from_stake_meta_collection(o) ==
    LET withTda == SelectSeq(metas[o], LAMBDA m : m.tda # {})
        fails == \E i \in 1 .. Len(withTda) : \E t \in withTda[i].tda :
                    SplitFails(t.total_tips, fee_bps)
    IN  /\ phase[o] = "metas"
        /\ phase' = [phase EXCEPT ![o] = IF fails THEN "failed" ELSE "trees"]
        /\ trees' = [trees EXCEPT ![o] =
              IF fails THEN <<>>
              ELSE [i \in 1 .. Len(withTda) |-> GeneratedTree(withTda[i], fee_bps, epoch)]]
        /\ UNCHANGED <<bank, fee_bps, epoch, metas, meta>>

\* get_root of no nodes is MerkleRootError.
new_from_generated_merkle_tree_collection(o) ==
    LET good == trees[o] # <<>> /\ validate(MetaTree(trees[o]))
    IN  /\ phase[o] = "trees"
        /\ phase' = [phase EXCEPT ![o] = IF good THEN "meta" ELSE "failed"]
        /\ meta' = [meta EXCEPT ![o] = IF good THEN <<MetaTree(trees[o])>> ELSE <<>>]
        /\ UNCHANGED <<bank, fee_bps, epoch, metas, trees>>

Next ==
    \E o \in Operators :
        \/ generate_stake_meta(o)
        \/ new_from_stake_meta_collection(o)
        \/ new_from_generated_merkle_tree_collection(o)

Spec == Init /\ [][Next]_vars

-----------------------------------------------------------------------------
(* Properties                                                              *)

\* The files are well formed and each is there when its phase says so.
TypeOK ==
    /\ phase \in [Operators -> {"bank", "metas", "trees", "meta", "failed"}]
    /\ \A o \in Operators :
          /\ phase[o] = "meta" <=> meta[o] # <<>>
          /\ \A i \in 1 .. Len(metas[o]) :
                metas[o][i].total > 0 /\ Cardinality(metas[o][i].tda) <= 1
          /\ \A i \in 1 .. Len(trees[o]) : \A j \in 1 .. Len(trees[o][i].tree_nodes) :
                trees[o][i].tree_nodes[j][2] \in Nat

\* All operators that finish arrive at the same root, in whatever order their
\* hash maps gave them the stake accounts.
RootsAgree ==
    /\ TypeOK
    /\ \A o, p \in Operators : phase[o] = "meta" /\ phase[p] = "meta" => meta[o] = meta[p]

Claims(g) == FoldLeft(LAMBDA a, n : a + n[2], 0, g.tree_nodes)
MaxClaims(gs) == FoldLeft(LAMBDA a, g : a + g.max_total_claim, 0, gs)
Tips(v) == IF bank.tda[v].state = "initialized" THEN bank.tda[v].lamports - Rent ELSE 0

\* The claims of a tree never exceed the maximum that is uploaded with its
\* root, and rounding keeps back less than a lamport for each node; and the
\* trees together promise no more than the accounts hold above their rent and
\* the excess tips that are still to be cranked to one of them.
ClaimsAreFunded ==
    \A o \in Operators :
        /\ \A i \in 1 .. Len(trees[o]) :
              LET g == trees[o][i]
              IN  g.max_total_claim - Claims(g) \in 0 .. g.max_num_nodes - 1
        /\ MaxClaims(trees[o]) <=
              MapThenSumSet(Tips, Votes) + bank.excess - (bank.excess * bank.bb_commission_pct) \div 100

\* Once a root is agreed every claim can be made: its proof verifies against
\* the root of its tree, that tree's against the root of the meta tree, and no
\* other node has its claim status, which belongs to a claimant and a tda (so
\* since the fix, even where one staker owns several stake accounts).  The
\* trees behind it are sound: see TreesAreSound.
ClaimsAreProvable ==
    /\ TreesAreSound
    /\ \A o \in Operators : phase[o] = "meta" =>
          \A i \in 1 .. Len(trees[o]) :
              LET g == trees[o][i]
                  nodes == g.tree_nodes
              IN  /\ \A j \in 1 .. Len(nodes) : Proves(g.proofs[j], g.merkle_root, nodes[j])
                  /\ \E k \in 1 .. Len(meta[o][1].tree_nodes) :
                        /\ meta[o][1].tree_nodes[k] = MetaLeaf(g)
                        /\ Proves(meta[o][1].proofs[k], meta[o][1].merkle_root, MetaLeaf(g))
                  /\ epoch + 1 > FixEpoch =>
                        \A j, k \in 1 .. Len(nodes) : j # k => nodes[j][1] # nodes[k][1]
=============================================================================
