---------------------------- MODULE LoadBalancerMC ----------------------------
(* LoadBalancer for TLC: conversations are model values, servers numbers, so *)
(* that ties between them are broken as in the code.                         *)
EXTENDS LoadBalancer
=============================================================================
