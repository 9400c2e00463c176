---------------------------- MODULE MCRegionLife ----------------------------
(* Two sessions that share a project directory or move between two. *)
EXTENDS RegionLife, TLC

\* Neither the sessions nor the directories have an order or a role of their own.
Symmetry == Permutations(Sessions) \cup Permutations(RegionIds \ {Unassigned})
=============================================================================
