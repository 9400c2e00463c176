--------------------------------- MODULE MCBoard ---------------------------------
(* A small session for TLC: two tool calls, one concept. *)
EXTENDS Board, TLC

MCConcepts == {1}
MCSymmetry == Permutations(Tools)
================================================================================
