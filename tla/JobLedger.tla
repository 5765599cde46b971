----------------------------- MODULE JobLedger -----------------------------
(***************************************************************************)
(* What the shared job queue promises its users, without files, workers    *)
(* and crashes: a submitted job is pending, then running, then done or     *)
(* failed, never goes back, and its command is started at most once, and   *)
(* only while the job is running.  Nothing promises that a running job     *)
(* ever ends.                                                              *)
(***************************************************************************)
CONSTANT Jobs

VARIABLES state,    \* the state directory that holds the job's file
          started   \* the jobs whose command was started

vars == <<state, started>>

Init == /\ state = [j \in Jobs |-> "unsubmitted"]
        /\ started = {}

Move(j, from, to) == /\ state[j] = from
                     /\ state' = [state EXCEPT ![j] = to]
                     /\ UNCHANGED started

Submit(j) == Move(j, "unsubmitted", "pending")
Take(j) == Move(j, "pending", "running")
Fail(j) == Move(j, "running", "failed")
Succeed(j) == j \in started /\ Move(j, "running", "done")

Start(j) == /\ state[j] = "running"
            /\ j \notin started
            /\ started' = started \cup {j}
            /\ UNCHANGED state

Next == \E j \in Jobs : Submit(j) \/ Take(j) \/ Start(j) \/ Fail(j) \/ Succeed(j)

Spec == Init /\ [][Next]_vars
=============================================================================
