------------------------ MODULE MCInstructionInterface ------------------------
(***************************************************************************)
(* Every instruction, with at most MaxOmitted fields of its builder unset. *)
(***************************************************************************)
EXTENDS InstructionInterface
=============================================================================
