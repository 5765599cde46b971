--------------------------- MODULE PartialRolloutMC ---------------------------
(* PartialRollout for TLC: sessions and servers are model values.            *)
EXTENDS PartialRollout
=============================================================================
