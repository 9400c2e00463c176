------------------------------- MODULE MCOperations -------------------------------
(* Three daemons, one shell, two panes, sessions and checkouts for TLC. *)
EXTENDS Operations, TLC

MCDaemons == 1 .. 3
MCSymmetry == Permutations(Panes) \cup Permutations(Sessions)
                \cup Permutations(Checkouts) \cup Permutations(HookEvents)
================================================================================
