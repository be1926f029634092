---------------------------- MODULE MCBallotBox ----------------------------
(* Instance of BallotBox for TLC: four operators for three vote and tally  *)
(* positions and four roots, so both arrays fill up; o1 and o2 hold        *)
(* exactly two thirds of the stake, o4 holds none.                         *)
EXTENDS BallotBox, FiniteSetsExt, TLC

CONSTANTS o1, o2, o3, o4

MCWeight ==
    (o1 :> [stake |-> 3, group |-> 1]) @@ (o2 :> [stake |-> 1, group |-> 0]) @@
    (o3 :> [stake |-> 2, group |-> 3]) @@ (o4 :> [stake |-> 0, group |-> 0])

RootSymmetry == Permutations(Roots)

\* WeightOf, the cardinality that the proofs use, is the sum of the weights.
ASSUME WeightOfIsSum ==
    \A c \in Components, S \in SUBSET Operators :
        WeightOf(c, S) = MapThenSumSet(LAMBDA o : Weight[o][c], S)
=============================================================================
