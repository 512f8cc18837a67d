------------------------------ MODULE Positions -------------------------------
(***************************************************************************)
(* A list comprehension with a condition keeps the items at some positions *)
(* of a list, in their order.                                              *)
(***************************************************************************)
EXTENDS Integers, Sequences, FiniteSets

\* The items of a sequence at some of its positions, in their order
At(seq, places) ==
    [i \in 1 .. Cardinality(places) |->
       seq[CHOOSE k \in places : Cardinality({j \in places : j < k}) = i - 1]]
=============================================================================
