-------------------------------- MODULE Sums --------------------------------
(***************************************************************************)
(* Sums of natural numbers.  A sum is counted in units: Units(f) has f[x]  *)
(* elements for each x, so its cardinality is the sum of f, and what the   *)
(* library knows of cardinalities carries over to sums.                    *)
(***************************************************************************)
EXTENDS Integers, FiniteSets

Units(f) == UNION {{x} \X (1 .. f[x]) : x \in DOMAIN f}
SumOf(f) == Cardinality(Units(f))

SumOver(f(_), S) == SumOf([x \in S |-> f(x)])
=============================================================================
