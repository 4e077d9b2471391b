---------------------------- MODULE MCUpdateGUI ----------------------------
(* Instances of UpdateGUI for TLC. *)
EXTENDS UpdateGUI, TLC

WorkerSymmetry == Permutations(Worker)
=============================================================================
