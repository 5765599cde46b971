----------------------------- MODULE WeightStream -----------------------------
(***************************************************************************)
(* What a transfer of weights promises to the inference engines: each is     *)
(* given every weight of the trainer, whole, once and in the trainer's       *)
(* order, some at a time, and in the end all of them.                        *)
(***************************************************************************)
EXTENDS Naturals, Sequences

CONSTANTS
    Engines,
    Weights      \* the weights, in order

VARIABLE loaded  \* what each engine was given

Init == loaded = [e \in Engines |-> <<>>]

Load(e) ==
    \E n \in Len(loaded[e]) + 1 .. Len(Weights) :
        loaded' = [loaded EXCEPT ![e] = SubSeq(Weights, 1, n)]

Next == \E e \in Engines : Load(e)

Spec == Init /\ [][Next]_loaded /\ \A e \in Engines : WF_loaded(Load(e))
=============================================================================
