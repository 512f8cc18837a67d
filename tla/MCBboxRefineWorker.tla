-------------------------- MODULE MCBboxRefineWorker --------------------------
(* Small instances of BboxRefineWorker for TLC. *)
EXTENDS BboxRefineWorker, TLC

Symmetry == Permutations(Worker)
=============================================================================
