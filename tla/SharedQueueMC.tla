--------------------------- MODULE SharedQueueMC ---------------------------
(* SharedQueue for TLC: workers are model values, jobs numbers (the order of *)
(* their file names); the refinement mapping brings ImplementsLedger.        *)
EXTENDS SharedQueueRefinement
=============================================================================
