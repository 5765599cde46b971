----------------------------- MODULE FullyAsyncMC -----------------------------
(* FullyAsync for TLC: counts are the state, so that the constants are bounds. *)
EXTENDS FullyAsync
=============================================================================
