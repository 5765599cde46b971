-------------------------- MODULE CheckpointStoreMC --------------------------
(* CheckpointStore for TLC: the limits of actor and critic. *)
EXTENDS CheckpointStore

KeepTwo == [p \in Parts |-> 2]
KeepOne == [p \in Parts |-> 1]
=============================================================================
