----------------------------- MODULE MerkleTree -----------------------------
(***************************************************************************)
(* The Merkle tree both layers of trees are made with, its proofs and      *)
(* their verification.                                                     *)
(*                                                                         *)
(* Hashes are symbolic: two are equal only if they were made from equal    *)
(* parts.  The tree hashes the sorted pair of two children and so does the *)
(* verifier, which is to hash the unordered pair.  A leaf and an inner     *)
(* node differ by their prefix byte.  An item is a tuple, and no item but  *)
(* a pair of hashes begins with 0.                                         *)
(***************************************************************************)
EXTENDS Integers, Sequences, FiniteSets, SequencesExt

\* hash_leaf! and hash_intermediate! of a sorted pair.
hash_leaf(item) == <<0, item>>
hash_intermediate(l, r) == <<1, <<0, {l, r}>>>>

next_level_len(level_len) == IF level_len = 1 THEN 0 ELSE (level_len + 1) \div 2

\* A level never has more than half of the one below it, rounded up.
MaxLevels == 8
LevelLen(n) ==
    LET len[k \in 0 .. MaxLevels] == IF k = 0 THEN n ELSE next_level_len(len[k - 1])
    IN  len
LevelStart(n) ==
    LET start[k \in 0 .. MaxLevels] == IF k = 0 THEN 0 ELSE start[k - 1] + LevelLen(n)[k - 1]
    IN  start
Levels(n) == {k \in 0 .. MaxLevels : LevelLen(n)[k] > 0}

\* The parents of a level; an odd last node is paired with itself.
Parents_Alone(level) ==
    [i \in 1 .. next_level_len(Len(level)) |->
        IF 2 * i <= Len(level) THEN hash_intermediate(level[2 * i - 1], level[2 * i])
                               ELSE level[2 * i - 1]]
Parents(level) ==
    [i \in 1 .. next_level_len(Len(level)) |->
        hash_intermediate(level[2 * i - 1],
                          IF 2 * i <= Len(level) THEN level[2 * i] ELSE level[2 * i - 1])]

\* MerkleTree::new: the leaves, then every level behind the one below it.
new(items) ==
    LET n == Len(items)
        leaves == [i \in 1 .. n |-> hash_leaf(items[i])]
        grow[k \in 0 .. MaxLevels] ==
            IF k = 0 THEN leaves
            ELSE grow[k - 1] \o Parents(SubSeq(grow[k - 1], LevelStart(n)[k - 1] + 1,
                                               LevelStart(n)[k - 1] + LevelLen(n)[k - 1]))
    IN  [leaf_count |-> n, nodes |-> grow[Cardinality(Levels(n))]]

get_root(tree) == tree.nodes[Len(tree.nodes)]

\* find_path and get_proof: the sibling on each level on the way to the root,
\* the node itself where it has none.
Sibling(n, k, j) ==
    IF j % 2 = 1 THEN j - 1 ELSE IF j + 1 < LevelLen(n)[k] THEN j + 1 ELSE j
get_proof(tree, index) ==
    LET n == tree.leaf_count
        at(k) == index \div (2 ^ k)
    IN  [k \in 1 .. Cardinality(Levels(n)) - 1 |->
            tree.nodes[LevelStart(n)[k - 1] + Sibling(n, k - 1, at(k - 1)) + 1]]

\* verify: fold the proof over the leaf.
verify(proof, root, leaf) ==
    FoldLeft(LAMBDA h, p : hash_intermediate(h, p), leaf, proof) = root

\* What a claimant or an uploader presents: the item, under the leaf prefix.
Proves(proof, root, item) == verify(proof, root, hash_leaf(item))

\* Every item of a list is proved by the proof made for its index.
AllProved(items) ==
    LET tree == new(items)
    IN  \A i \in 1 .. Len(items) :
            Proves(get_proof(tree, i - 1), get_root(tree), items[i])
=============================================================================
