--------------------------- MODULE MCOperatorNode ---------------------------
(* An instance of OperatorNode for TLC: behaviours with one ballot box, and *)
(* behaviours over three epochs of the main loop without one.               *)
EXTENDS OperatorNode

CONSTANTS r1, t1

\* All trees but r1 lack a node for the other account: a validator without an
\* active delegation has a tip distribution account and no stake meta.
MCNodesOf == [r \in Roots |-> IF r = r1 THEN Tdas ELSE {t1}]

MCScopes == {[last |-> 2, boxes |-> {1}, roots |-> Roots],
             [last |-> 4, boxes |-> {}, roots |-> {r1}]}
=============================================================================
