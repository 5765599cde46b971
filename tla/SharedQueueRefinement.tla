----------------------- MODULE SharedQueueRefinement -----------------------
(***************************************************************************)
(* The file-based queue of SharedQueue implements JobLedger: the state of  *)
(* a job is the directory its file is in.                                  *)
(***************************************************************************)
EXTENDS SharedQueue

\* Where the file of a job is; at most one directory has it.
StateOf(j) ==
  IF Exists("pending", j) THEN "pending"
  ELSE IF Exists("running", j) THEN "running"
  ELSE IF Exists("done", j) THEN "done"
  ELSE IF Exists("failed", j) THEN "failed"
  ELSE "unsubmitted"

Ledger == INSTANCE JobLedger
            WITH state <- [j \in Jobs |-> StateOf(j)],
                 started <- {j \in Jobs : launches[j] # 0}

(***************************************************************************)
(* Every behaviour of the workers, with their races and crashes, is a      *)
(* behaviour of the ledger: one step of the code is one step of the ledger *)
(* or none (poll_worker.py claim_one_job, run_job; submit_job.py main).    *)
(***************************************************************************)
ImplementsLedger == Ledger!Spec
=============================================================================
