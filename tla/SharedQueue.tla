---------------------------- MODULE SharedQueue ----------------------------
(***************************************************************************)
(* The file-based job queue of scripts/shared_queue: submit_job.py writes  *)
(* a job file into pending/, every poll_worker.py claims files by renaming *)
(* them into running/, runs the command in a process group of its own, and *)
(* renames the file into done/ or failed/.  All coordination goes through  *)
(* the atomicity of os.replace on the shared file system.                  *)
(*                                                                         *)
(* A job is named by its file name; jobs are numbers so that the order of  *)
(* the numbers is the order of sorted(glob("*.json")).  Of a job file only *)
(* the "status" field is kept.  Logging, tokens, paths and environments    *)
(* are abstracted: validation of a job succeeds or fails.                  *)
(***************************************************************************)
EXTENDS Naturals, FiniteSets

CONSTANTS Jobs,        \* the job files that may be submitted
          Workers,     \* the worker ids (one poll_worker.py process each)
          Timed,       \* the jobs submitted with timeout_sec > 0
          MaxJobs,     \* --max-jobs (1 is --once); 0 means forever
          MaxCrashes,  \* bound: how many worker crashes a behaviour has
          NoJob        \* the value of job for a worker without a job

ASSUME JobsAssumption == Jobs \subseteq Nat
ASSUME NoJobAssumption == NoJob \notin Jobs
ASSUME TimedAssumption == Timed \subseteq Jobs
ASSUME LimitAssumption == MaxJobs \in Nat /\ MaxCrashes \in Nat

VARIABLES files,      \* files[d][j]: status written in the file of j in directory d
          pc,         \* where each worker is in main() / run_job()
          listing,    \* the part of its directory listing a worker has not tried
          job,        \* the job a worker has claimed
          verdict,    \* the final status a worker has computed, not yet stored
          processed,  \* processed_jobs of a worker process
          heartbeat,  \* processed_jobs in workers/<id>.json
          group,      \* the live members of the process group of a job
          exit,       \* how the group leader (bash -lc cmd) exited
          launches,   \* history: how often the command of a job was started
          abandoned,  \* history: jobs a worker held when it crashed
          crashes     \* number of crashes so far

vars == <<files, pc, listing, job, verdict, processed, heartbeat, group, exit,
          launches, abandoned, crashes>>
local == <<listing, job, verdict>>
command == <<group, exit, launches>>
faults == <<abandoned, crashes>>

Dirs == {"pending", "running", "done", "failed"}
Status == {"pending", "running", "done", "failed"}
Absent == "absent"

\* The points of main() and run_job() at which a worker can be observed.
HoldPcs == {"claimed", "launching", "watching", "terminating", "killing",
            "finishing", "closing"}
Pcs == HoldPcs \cup {"idle", "claiming", "stopped", "dead"}
Holds(w) == pc[w] \in HoldPcs
At(w, p) == pc[w] = p
Goto(w, p) == pc' = [pc EXCEPT ![w] = p]

Exists(d, j) == files[d][j] # Absent
Submitted(j) == \E d \in Dirs : Exists(d, j)
-----------------------------------------------------------------------------
\* Mutant: a copy that leaves the original behind.
RenameByCopy(src, dst, j) ==
  files' = [files EXCEPT ![dst][j] = files[src][j]]

\* Mutant: the original is removed, the copy never arrives.
RenameAway(src, dst, j) ==
  files' = [files EXCEPT ![src][j] = Absent]

\* os.replace between two directories: the file arrives with its content.
Rename(src, dst, j) ==
  files' = [files EXCEPT ![src][j] = Absent, ![dst][j] = files[src][j]]

\* atomic_write_json: creates or replaces the file.
Store(d, j, status) ==
  files' = [files EXCEPT ![d][j] = status]

Init ==
  /\ files = [d \in Dirs |-> [j \in Jobs |-> Absent]]
  /\ pc = [w \in Workers |-> "idle"]
  /\ listing = [w \in Workers |-> {}]
  /\ job = [w \in Workers |-> NoJob]
  /\ verdict = [w \in Workers |-> "failed"]
  /\ processed = [w \in Workers |-> 0]
  /\ heartbeat = [w \in Workers |-> 0]
  /\ group = [j \in Jobs |-> {}]
  /\ exit = [j \in Jobs |-> "none"]
  /\ launches = [j \in Jobs |-> 0]
  /\ abandoned = {}
  /\ crashes = 0

\* submit_job.py: the id holds a fresh uuid, so a name is submitted once.
Submit(j) ==
  /\ ~Submitted(j)
  /\ Store("pending", j, "pending")
  /\ UNCHANGED <<pc, local, processed, heartbeat, command, faults>>
-----------------------------------------------------------------------------
(***************************************************************************)
(* The worker, outside a job: heartbeat, listing, claim.                   *)
(***************************************************************************)
Poll(w) ==
  /\ At(w, "idle")
  /\ heartbeat' = [heartbeat EXCEPT ![w] = processed[w]]
  /\ listing' = [listing EXCEPT ![w] = {j \in Jobs : Exists("pending", j)}]
  /\ Goto(w, "claiming")
  /\ UNCHANGED <<files, job, verdict, processed, command, faults>>

\* The next file of the sorted listing.
Candidate(w, j) ==
  /\ At(w, "claiming")
  /\ j \in listing[w]
  /\ \A k \in listing[w] : j <= k

TakeCandidate(w, j) ==
  /\ job' = [job EXCEPT ![w] = j]
  /\ listing' = [listing EXCEPT ![w] = {}]
  /\ Goto(w, "claimed")
  /\ UNCHANGED <<verdict, processed, heartbeat, command, faults>>

\* Mutant: a claim that believes the listing instead of the rename.
ClaimUnchecked(w) ==
  \E j \in Jobs : /\ Candidate(w, j)
                  /\ IF Exists("pending", j) THEN Rename("pending", "running", j)
                                             ELSE UNCHANGED files
                  /\ TakeCandidate(w, j)

Claim(w) ==
  \E j \in Jobs : /\ Candidate(w, j)
                  /\ Exists("pending", j)
                  /\ Rename("pending", "running", j)
                  /\ TakeCandidate(w, j)

\* FileNotFoundError (another worker was faster), or another OSError.
ClaimFails(w) ==
  /\ \E j \in Jobs : /\ Candidate(w, j)
                     /\ listing' = [listing EXCEPT ![w] = @ \ {j}]
  /\ UNCHANGED <<files, pc, job, verdict, processed, heartbeat, command, faults>>

\* claim_one_job returned None: sleep(poll_interval), then poll again.
NothingClaimed(w) ==
  /\ At(w, "claiming")
  /\ listing[w] = {}
  /\ Goto(w, "idle")
  /\ UNCHANGED <<files, local, processed, heartbeat, command, faults>>
-----------------------------------------------------------------------------
(***************************************************************************)
(* run_job: validate, store "running", start the command, watch it, store  *)
(* the verdict, rename the file into the directory of the verdict.         *)
(***************************************************************************)
Decide(w, status) ==
  /\ verdict' = [verdict EXCEPT ![w] = status]
  /\ Goto(w, "finishing")
  /\ UNCHANGED <<files, listing, job, processed, heartbeat, faults>>

Reject(w) ==
  /\ At(w, "claimed")
  /\ Decide(w, "failed")
  /\ UNCHANGED command

Accept(w) ==
  /\ At(w, "claimed")
  /\ Store("running", job[w], "running")
  /\ Goto(w, "launching")
  /\ UNCHANGED <<local, processed, heartbeat, command, faults>>

\* Popen(..., start_new_session=True)
Launch(w) ==
  /\ At(w, "launching")
  /\ group' = [group EXCEPT ![job[w]] = {"leader"}]
  /\ exit' = [exit EXCEPT ![job[w]] = "none"]
  /\ launches' = [launches EXCEPT ![job[w]] = @ + 1]
  /\ Goto(w, "watching")
  /\ UNCHANGED <<files, local, processed, heartbeat, faults>>

\* Mutant: a worker that takes any exit of the command for a success.
SeeExitAsDone(w) ==
  /\ At(w, "watching")
  /\ exit[job[w]] # "none"
  /\ Decide(w, "done")
  /\ UNCHANGED command

SeeExit(w) ==
  /\ At(w, "watching")
  /\ exit[job[w]] # "none"
  /\ Decide(w, IF exit[job[w]] = "zero" THEN "done" ELSE "failed")
  /\ UNCHANGED command

\* poll() returned None and timeout_sec has passed: timed_out, SIGTERM.
SeeTimeout(w) ==
  /\ At(w, "watching")
  /\ job[w] \in Timed
  /\ exit[job[w]] = "none"
  /\ Goto(w, "terminating")
  /\ UNCHANGED <<files, local, processed, heartbeat, command, faults>>

\* The leader exits within the grace period: return without SIGKILL.
TerminateEnds(w) ==
  /\ At(w, "terminating")
  /\ exit[job[w]] # "none"
  /\ Decide(w, "failed")
  /\ UNCHANGED command

\* Mutant: a grace period that lasts until the leader exits.
GraceUntilExit(w) ==
  /\ At(w, "terminating")
  /\ exit[job[w]] # "none"
  /\ Goto(w, "killing")
  /\ UNCHANGED <<files, local, processed, heartbeat, command, faults>>

\* The deadline passes; between the last poll() and killpg the leader may exit.
GraceExpires(w) ==
  /\ At(w, "terminating")
  /\ exit[job[w]] = "none"
  /\ Goto(w, "killing")
  /\ UNCHANGED <<files, local, processed, heartbeat, command, faults>>

Kill(w) ==
  /\ At(w, "killing")
  /\ group' = [group EXCEPT ![job[w]] = {}]
  /\ exit' = [exit EXCEPT ![job[w]] = IF @ = "none" THEN "nonzero" ELSE @]
  /\ Decide(w, "failed")
  /\ UNCHANGED launches

StoreVerdict(w) ==
  /\ At(w, "finishing")
  /\ Store("running", job[w], verdict[w])
  /\ Goto(w, "closing")
  /\ UNCHANGED <<local, processed, heartbeat, command, faults>>

\* Leaving run_job: count the job, then stop (--once, --max-jobs) or go on.
LeaveJob(w) ==
  /\ processed' = [processed EXCEPT ![w] = @ + 1]
  /\ job' = [job EXCEPT ![w] = NoJob]
  /\ IF MaxJobs # 0 /\ processed'[w] >= MaxJobs
       THEN Goto(w, "stopped") /\ heartbeat' = [heartbeat EXCEPT ![w] = processed'[w]]
       ELSE Goto(w, "idle") /\ UNCHANGED heartbeat
  /\ UNCHANGED <<listing, verdict, command, faults>>

\* Mutant: the file stays in running/.
CloseInPlace(w) ==
  /\ At(w, "closing")
  /\ UNCHANGED files
  /\ LeaveJob(w)

Close(w) ==
  /\ At(w, "closing")
  /\ Rename("running", verdict[w], job[w])
  /\ LeaveJob(w)
-----------------------------------------------------------------------------
(***************************************************************************)
(* Faults and the environment.  The command runs in a session of its own,  *)
(* so it survives its worker.                                              *)
(***************************************************************************)
Crash(w) ==
  /\ pc[w] \notin {"stopped", "dead"}
  /\ crashes < MaxCrashes
  /\ crashes' = crashes + 1
  /\ abandoned' = IF Holds(w) THEN abandoned \cup {job[w]} ELSE abandoned
  /\ job' = [job EXCEPT ![w] = NoJob]
  /\ listing' = [listing EXCEPT ![w] = {}]
  /\ Goto(w, "dead")
  /\ UNCHANGED <<files, verdict, processed, heartbeat, command>>

\* Mutant: a restart that puts the file the old process was working on back.
RestartAndRequeue(w) ==
  /\ At(w, "dead")
  /\ processed' = [processed EXCEPT ![w] = 0]
  /\ Goto(w, "idle")
  /\ \/ \E j \in abandoned : Exists("running", j) /\ Rename("running", "pending", j)
     \/ UNCHANGED files
  /\ UNCHANGED <<local, heartbeat, command, faults>>

Restart(w) ==
  /\ At(w, "dead")
  /\ processed' = [processed EXCEPT ![w] = 0]
  /\ Goto(w, "idle")
  /\ UNCHANGED <<files, local, heartbeat, command, faults>>

CommandForks(j) ==
  /\ "leader" \in group[j]
  /\ group' = [group EXCEPT ![j] = @ \cup {"child"}]
  /\ UNCHANGED <<files, pc, local, processed, heartbeat, exit, launches, faults>>

CommandExits(j) ==
  /\ "leader" \in group[j]
  /\ group' = [group EXCEPT ![j] = @ \ {"leader"}]
  /\ \E e \in {"zero", "nonzero"} : exit' = [exit EXCEPT ![j] = e]
  /\ UNCHANGED <<files, pc, local, processed, heartbeat, launches, faults>>

ChildExits(j) ==
  /\ "child" \in group[j]
  /\ group' = [group EXCEPT ![j] = @ \ {"child"}]
  /\ UNCHANGED <<files, pc, local, processed, heartbeat, exit, launches, faults>>
-----------------------------------------------------------------------------
RunJob(w) ==
  \/ Reject(w) \/ Accept(w) \/ Launch(w) \/ SeeExit(w) \/ SeeTimeout(w)
  \/ TerminateEnds(w) \/ GraceExpires(w) \/ Kill(w) \/ StoreVerdict(w) \/ Close(w)

Worker(w) == Poll(w) \/ Claim(w) \/ ClaimFails(w) \/ NothingClaimed(w) \/ RunJob(w)

Next ==
  \/ \E j \in Jobs : Submit(j) \/ CommandForks(j) \/ CommandExits(j) \/ ChildExits(j)
  \/ \E w \in Workers : Worker(w) \/ Crash(w) \/ Restart(w)

Spec == Init /\ [][Next]_vars

(***************************************************************************)
(* Fairness: a live worker keeps executing its loop; an OSError other than *)
(* losing the race does not hit the same worker's claims for ever (strong  *)
(* fairness of Claim); a command submitted without a timeout ends by       *)
(* itself.  Nobody is obliged to restart a dead worker.                    *)
(***************************************************************************)
Fairness ==
  /\ \A w \in Workers : WF_vars(Worker(w)) /\ SF_vars(Claim(w))
  /\ \A j \in Jobs \ Timed : WF_vars(CommandExits(j))

FairSpec == Spec /\ Fairness
-----------------------------------------------------------------------------
TypeOK ==
  /\ files \in [Dirs -> [Jobs -> Status \cup {Absent}]]
  /\ pc \in [Workers -> Pcs]
  /\ listing \in [Workers -> SUBSET Jobs]
  /\ job \in [Workers -> Jobs \cup {NoJob}]
  /\ \A w \in Workers : Holds(w) <=> job[w] # NoJob
  /\ verdict \in [Workers -> {"done", "failed"}]
  /\ processed \in [Workers -> Nat]
  /\ heartbeat \in [Workers -> Nat]
  /\ group \in [Jobs -> SUBSET {"leader", "child"}]
  /\ exit \in [Jobs -> {"none", "zero", "nonzero"}]
  /\ launches \in [Jobs -> Nat]
  /\ abandoned \subseteq Jobs
  /\ crashes \in 0 .. MaxCrashes

(***************************************************************************)
(* A job file lies in at most one of the four state directories, whatever  *)
(* the workers race for and wherever they crash (claim_one_job and the     *)
(* renames that end run_job).                                              *)
(***************************************************************************)
InOneDirectory ==
  \A j \in Jobs : \A d, e \in Dirs : Exists(d, j) /\ Exists(e, j) => d = e

\* No two workers work on the same job: winning os.replace is the only claim.
ExclusiveClaim ==
  \A v, w \in Workers : Holds(v) /\ Holds(w) /\ job[v] = job[w] => v = w

\* The command of a job is started at most once, restarts of workers included.
StartedAtMostOnce == \A j \in Jobs : launches[j] <= 1

\* A submitted job file never disappears from the queue directories.
NeverLost == [][\A j \in Jobs : Submitted(j) => Submitted(j)']_vars

(***************************************************************************)
(* What the final directories say is true: the status field agrees with    *)
(* the directory, the command is over, and a job in done/ exited with 0.   *)
(***************************************************************************)
VerdictIsTrue ==
  \A j \in Jobs :
    /\ Exists("done", j) => files["done"][j] = "done" /\ exit[j] = "zero"
    /\ Exists("failed", j) => files["failed"][j] = "failed"
    /\ Exists("done", j) \/ Exists("failed", j) => "leader" \notin group[j]

\* A finished job stays finished and is never touched again.
FinalIsFinal ==
  [][\A j \in Jobs : \A d \in {"done", "failed"} :
       Exists(d, j) => files'[d][j] = files[d][j] /\ launches'[j] = launches[j]]_vars

(***************************************************************************)
(* The only jobs that stay behind in running/ with nobody working on them  *)
(* are those a worker crashed on; there is no other way to get stuck.      *)
(***************************************************************************)
StuckOnlyByCrash ==
  \A j \in Jobs :
    Exists("running", j) => \/ \E w \in Workers : Holds(w) /\ job[w] = j
                            \/ j \in abandoned

(***************************************************************************)
(* A machine runs one command at a time, except for commands orphaned by a *)
(* crash of the worker: without a crash, one live leader per busy worker.  *)
(***************************************************************************)
OrphansOnlyByCrash ==
  \A j \in Jobs :
    "leader" \in group[j] => \/ j \in abandoned
                             \/ \E w \in Workers : At(w, "watching") /\ job[w] = j
                             \/ \E w \in Workers : /\ pc[w] \in {"terminating", "killing"}
                                                   /\ job[w] = j

(***************************************************************************)
(* Every submitted job is served: it ends in done/ or failed/, unless a    *)
(* worker crashes on it or no worker is left.                              *)
(***************************************************************************)
EventuallyServed ==
  \A j \in Jobs :
    Exists("pending", j) ~> \/ Exists("done", j) \/ Exists("failed", j)
                            \/ j \in abandoned
                            \/ \A w \in Workers : pc[w] \in {"dead", "stopped"}
=============================================================================
