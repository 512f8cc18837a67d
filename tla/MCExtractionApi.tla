---------------------------- MODULE MCExtractionApi ---------------------------
(* A small instance of ExtractionApi for TLC. *)
EXTENDS ExtractionApi
=============================================================================
