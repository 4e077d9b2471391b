---------------------------- MODULE MCUpdateTool ----------------------------
(* Instances of UpdateTool for TLC. *)
EXTENDS UpdateTool, TLC

SessionSymmetry == Permutations(Session)
=============================================================================
