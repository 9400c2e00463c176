--------------------------- MODULE MCFocusEngine ---------------------------
(* Two sessions are enough for two calls to race and for a queue to have an order. *)
EXTENDS FocusEngine
=============================================================================
