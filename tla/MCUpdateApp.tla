---------------------------- MODULE MCUpdateApp ----------------------------
(* Instances of UpdateApp for TLC. *)
EXTENDS UpdateApp, TLC

WorkerSymmetry == Permutations(Worker)
=============================================================================
