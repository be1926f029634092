---------------------------- MODULE MCFeeConfig ----------------------------
(* Instances of FeeConfig for TLC: two base groups and one NCN group, with *)
(* fees at, and just above, the cap.                                       *)
EXTENDS FeeConfig
=============================================================================
