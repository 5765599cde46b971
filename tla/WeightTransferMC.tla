--------------------------- MODULE WeightTransferMC ---------------------------
(* WeightTransfer for TLC: small and large weights, alone and in buckets.     *)
EXTENDS WeightTransfer

MCSizes == <<1, 1, 5, 1, 3, 2>>
=============================================================================
