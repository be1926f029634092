----------------------------- MODULE FeeSchedule -----------------------------
(***************************************************************************)
(* What the two fee buffers of FeeConfig promise: within an epoch the fees *)
(* in force do not move, updates of one epoch add up and take effect       *)
(* together at the epoch boundary.                                         *)
(***************************************************************************)
EXTENDS Integers

CONSTANTS
    Groups,     \* base and NCN fee groups
    ValidFees   \* fees by group that may ever be in force

VARIABLES epoch, current, next

schedule == <<epoch, current, next>>

Init == /\ epoch \in Nat
        /\ current \in ValidFees
        /\ next = current

\* Some groups get new fees from the next epoch on.
Update == /\ next' \in ValidFees
          /\ UNCHANGED <<epoch, current>>

NextEpoch == /\ epoch' = epoch + 1
             /\ current' = next
             /\ UNCHANGED next

Next == Update \/ NextEpoch

Spec == Init /\ [][Next]_schedule
=============================================================================
