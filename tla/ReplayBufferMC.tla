---------------------------- MODULE ReplayBufferMC ----------------------------
(* ReplayBuffer for TLC: prompts, sessions and batches are small numbers.    *)
EXTENDS ReplayBuffer
=============================================================================
