-------------------------- MODULE MCAsyncExtraction ---------------------------
(* Small instances of AsyncExtraction for TLC. *)
EXTENDS AsyncExtraction, TLC

Symmetry == Permutations(Worker) \cup Permutations(Refiner)
=============================================================================
