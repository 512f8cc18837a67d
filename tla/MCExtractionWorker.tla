-------------------------- MODULE MCExtractionWorker --------------------------
(* Small instances of ExtractionWorker for TLC. *)
EXTENDS ExtractionWorker, TLC

Symmetry == Permutations(Worker)
=============================================================================
