----------------------------- MODULE MCGameSync -----------------------------
(* Two sessions that write one store. *)
EXTENDS GameSync
=============================================================================
