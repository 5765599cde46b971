----------------------------- MODULE BatchPathMC ------------------------------
(* BatchPath for TLC.  karmarkar_karp sorts first, so the order of a batch    *)
(* matters for ties alone: batches in ascending and in descending order.      *)
EXTENDS BatchPath

\* Three lengths within the limit of BatchPath.cfg, and one beyond it.
Lengths == {1, 2, 4, 5}

MCBatches ==
    {b \in [1 .. DP * PerRank -> Lengths] :
        \/ \A s, t \in DOMAIN b : s < t => b[s] <= b[t]
        \/ \A s, t \in DOMAIN b : s < t => b[s] >= b[t]}
=============================================================================
