--------------------------- MODULE CheckpointStore ---------------------------
(***************************************************************************)
(* Checkpoints of the synchronous PPO trainer: RayPPOTrainer saves them,    *)
(* the FSDP checkpoint manager of every worker writes and prunes them, and  *)
(* a tracker file names the one a restarted trainer resumes from.           *)
(*                                                                          *)
(* The disk (`file`, `data`, `tracker`) survives a crash; the list of saved *)
(* paths and everything else does not.  A file that is being written holds  *)
(* nothing usable: `Torn`.  A whole file holds the number of the life that  *)
(* wrote it.  The three files of a rank (model, optimizer, extra) are one;  *)
(* it is torn unless one save wrote all three.                              *)
(***************************************************************************)
EXTENDS Integers, Sequences, FiniteSets

CONSTANTS
    NRanks,       \* workers of a worker group
    UseCritic,    \* is there a critic to save
    Keep,         \* max_actor_ckpt_to_keep, max_critic_ckpt_to_keep; 0 is null
    MaxStep,      \* bound: training steps
    MaxCrashes    \* bound: crashes of the training job

Ranks == 0 .. NRanks - 1
Steps == 1 .. MaxStep
Parts == {"actor"} \union {p \in {"critic"} : UseCritic}

ASSUME RanksAssumption == NRanks \in Nat \ {0}
ASSUME StepAssumption == MaxStep \in Nat \ {0} /\ MaxCrashes \in Nat
ASSUME KeepAssumption == UseCritic \in BOOLEAN /\ Keep \in [Parts -> Nat]

VARIABLES
    file,      \* file[p][s][r]: shard of rank r in global_step_<s>/<p>
    data,      \* data[s]: global_step_<s>/data.pt
    tracker,   \* latest_checkpointed_iteration.txt
    pc,        \* the driver
    step,      \* global_steps, at the save points
    part,      \* the worker group that is saving
    at,        \* at[r]: where rank r is in save_checkpoint
    saved,     \* saved[p]: previous_saved_paths of rank 0
    doomed,    \* checkpoints that rank 0 is removing
    life,      \* how often the job was started
    crashes

disk == <<file, data, tracker>>
memory == <<pc, step, part, at, saved, doomed>>
vars == <<disk, memory, life, crashes>>

Absent == 0            \* no file, no tracker
Torn == -1             \* truncated, or written in part
Whole(f) == f > 0

Driver == {"down", "train", "save", "data", "dataOpen", "track", "trackOpen"}
Stages == {"idle", "enter", "clear", "barrier1", "write", "writing",
           "barrier2", "register", "prune", "done"}

TypeOK ==
    /\ file \in [Parts -> [Steps -> [Ranks -> -1 .. life]]]
    /\ data \in [Steps -> -1 .. life]
    /\ tracker \in -1 .. MaxStep
    /\ pc \in Driver
    /\ step \in 0 .. MaxStep
    /\ part \in Parts
    /\ at \in [Ranks -> Stages]
    /\ saved \in [Parts -> Seq(Steps)]
    /\ doomed \in SUBSET Steps
    /\ life \in Nat
    /\ crashes \in 0 .. MaxCrashes

Init ==
    /\ file = [p \in Parts |-> [s \in Steps |-> [r \in Ranks |-> Absent]]]
    /\ data = [s \in Steps |-> Absent]
    /\ tracker = Absent
    /\ pc = "down"
    /\ step = 0
    /\ part = "actor"
    /\ at = [r \in Ranks |-> "idle"]
    /\ saved = [p \in Parts |-> <<>>]
    /\ doomed = {}
    /\ life = 0
    /\ crashes = 0

------------------------------------------------------------------------------
(* The driver *)

\* All that a resume from global_step_<s> reads can be read; data.pt may be
\* missing, which costs a warning.
Loadable(s) ==
    /\ \A p \in Parts : \A r \in Ranks : Whole(file[p][s][r])
    /\ data[s] # Torn

\* An empty tracker or a missing shard is an exception: the job stays down.
CanResume == tracker # Torn /\ (tracker \in Steps => Loadable(tracker))

\* The job starts: from scratch without a tracker, else from the step it names.
\* (The directories global_step_<s> themselves are never removed, so the
\* tracker never names one that does not exist.)
Resume ==
    /\ pc = "down"
    /\ CanResume
    /\ pc' = "train"
    /\ step' = tracker
    /\ life' = life + 1
    /\ UNCHANGED <<disk, part, at, saved, doomed, crashes>>

\* Training comes to a step that saves: every save_freq steps, the last one,
\* and any one before the machine's time is over.
BeginSave ==
    /\ pc = "train"
    /\ step' \in step + 1 .. MaxStep
    /\ pc' = "save"
    /\ part' = "actor"
    /\ at' = [r \in Ranks |-> "enter"]
    /\ UNCHANGED <<disk, saved, doomed, life, crashes>>

\* All ranks have returned: the critic's turn, or the dataloader's.
Collect ==
    /\ pc = "save"
    /\ \A r \in Ranks : at[r] = "done"
    /\ IF part = "actor" /\ UseCritic
       THEN /\ part' = "critic"
            /\ at' = [r \in Ranks |-> "enter"]
            /\ pc' = pc
       ELSE /\ pc' = "data"
            /\ at' = [r \in Ranks |-> "idle"]
            /\ part' = part
    /\ UNCHANGED <<disk, step, saved, doomed, life, crashes>>

OpenData ==
    /\ pc = "data"
    /\ data' = [data EXCEPT ![step] = Torn]
    /\ pc' = "dataOpen"
    /\ UNCHANGED <<file, tracker, step, part, at, saved, doomed, life, crashes>>

WriteData ==
    /\ pc = "dataOpen"
    /\ data' = [data EXCEPT ![step] = life]
    /\ pc' = "track"
    /\ UNCHANGED <<file, tracker, step, part, at, saved, doomed, life, crashes>>

\* open(..., "w") empties the tracker, the number follows.
OpenTracker ==
    /\ pc = "track"
    /\ tracker' = Torn
    /\ pc' = "trackOpen"
    /\ UNCHANGED <<file, data, step, part, at, saved, doomed, life, crashes>>

WriteTracker ==
    /\ pc = "trackOpen"
    /\ tracker' = step
    /\ pc' = "train"
    /\ UNCHANGED <<file, data, step, part, at, saved, doomed, life, crashes>>

------------------------------------------------------------------------------
(* save_checkpoint on every rank *)

Move(r, stage) == at' = [at EXCEPT ![r] = stage]

\* The n oldest of the saved paths.
Oldest(s, n) == {s[i] : i \in 1 .. n}

\* Rank 0 takes the n oldest paths of the list s off it, to remove them.
Discard(s, n) ==
    /\ doomed' = Oldest(s, n)
    /\ saved' = [saved EXCEPT ![part] = SubSeq(s, n + 1, Len(s))]

\* Mutant: the new checkpoint is counted twice.
EnsureCapacityTwice ==
    /\ at[0] = "enter"
    /\ Move(0, "clear")
    /\ IF Keep[part] > 1 /\ Len(saved[part]) >= Keep[part]
       THEN Discard(saved[part], Len(saved[part]) - Keep[part] + 2)
       ELSE UNCHANGED <<saved, doomed>>
    /\ UNCHANGED <<disk, pc, step, part, life, crashes>>

EnsureCapacity ==
    /\ at[0] = "enter"
    /\ Move(0, "clear")
    /\ IF Keep[part] > 1 /\ Len(saved[part]) >= Keep[part]
       THEN Discard(saved[part], Len(saved[part]) - Keep[part] + 1)
       ELSE UNCHANGED <<saved, doomed>>
    /\ UNCHANGED <<disk, pc, step, part, life, crashes>>

\* rmtree, oldest directory first, its files in any order.
Leftover == {s \in doomed : \E r \in Ranks : file[part][s][r] # Absent}

RemoveShard(s, r) ==
    /\ at[0] \in {"clear", "prune"}
    /\ s \in Leftover
    /\ \A t \in Leftover : s <= t
    /\ file[part][s][r] # Absent
    /\ file' = [file EXCEPT ![part][s][r] = Absent]
    /\ UNCHANGED <<data, tracker, memory, life, crashes>>

\* Mutant: the first barrier is called by rank 0 alone, as making room is.
ArriveRank0(r) ==
    /\ at[r] = (IF r = 0 THEN "clear" ELSE "enter")
    /\ r = 0 => Leftover = {}
    /\ doomed' = IF r = 0 THEN {} ELSE doomed
    /\ Move(r, IF r = 0 THEN "barrier1" ELSE "write")
    /\ UNCHANGED <<disk, pc, step, part, saved, life, crashes>>

\* Rank r has made the directory, rank 0 after making room.
Arrive(r) ==
    /\ at[r] = (IF r = 0 THEN "clear" ELSE "enter")
    /\ r = 0 => Leftover = {}
    /\ doomed' = IF r = 0 THEN {} ELSE doomed
    /\ Move(r, "barrier1")
    /\ UNCHANGED <<disk, pc, step, part, saved, life, crashes>>

\* torch.distributed.barrier is one step of all ranks: whoever calls it waits
\* until every rank has called it, at whichever place of its program.
Barrier ==
    /\ \A r \in Ranks : at[r] \in {"barrier1", "barrier2"}
    /\ at' = [r \in Ranks |->
           IF at[r] = "barrier1" THEN "write" ELSE IF r = 0 THEN "register" ELSE "done"]
    /\ UNCHANGED <<disk, pc, step, part, saved, doomed, life, crashes>>

\* Mutant: a shard that exists is not saved again.
OpenShardIfAbsent(r) ==
    /\ at[r] = "write"
    /\ IF Whole(file[part][step][r])
       THEN Move(r, "barrier2") /\ file' = file
       ELSE /\ file' = [file EXCEPT ![part][step][r] = Torn]
            /\ Move(r, "writing")
    /\ UNCHANGED <<data, tracker, pc, step, part, saved, doomed, life, crashes>>

OpenShard(r) ==
    /\ at[r] = "write"
    /\ file' = [file EXCEPT ![part][step][r] = Torn]
    /\ Move(r, "writing")
    /\ UNCHANGED <<data, tracker, pc, step, part, saved, doomed, life, crashes>>

\* Mutant: rank 0 does not wait for the shards of the other ranks.
WriteShardAndGoOn(r) ==
    /\ at[r] = "writing"
    /\ file' = [file EXCEPT ![part][step][r] = life]
    /\ Move(r, IF r = 0 THEN "register" ELSE "barrier2")
    /\ UNCHANGED <<data, tracker, pc, step, part, saved, doomed, life, crashes>>

WriteShard(r) ==
    /\ at[r] = "writing"
    /\ file' = [file EXCEPT ![part][step][r] = life]
    /\ Move(r, "barrier2")
    /\ UNCHANGED <<data, tracker, pc, step, part, saved, doomed, life, crashes>>

\* Rank 0 registers the checkpoint and removes those beyond the limit.
Register ==
    /\ at[0] = "register"
    /\ Move(0, "prune")
    /\ LET paths == Append(saved[part], step)
           excess == Len(paths) - Keep[part]
       IN Discard(paths, IF Keep[part] > 0 /\ excess > 0 THEN excess ELSE 0)
    /\ UNCHANGED <<disk, pc, step, part, life, crashes>>

Pruned ==
    /\ at[0] = "prune"
    /\ Leftover = {}
    /\ doomed' = {}
    /\ Move(0, "done")
    /\ UNCHANGED <<disk, pc, step, part, saved, life, crashes>>

------------------------------------------------------------------------------
\* The job dies with all its processes, anywhere; the disk stays as it is.
Crash ==
    /\ pc # "down"
    /\ crashes < MaxCrashes
    /\ crashes' = crashes + 1
    /\ pc' = "down"
    /\ step' = 0
    /\ part' = "actor"
    /\ at' = [r \in Ranks |-> "idle"]
    /\ saved' = [p \in Parts |-> <<>>]
    /\ doomed' = {}
    /\ UNCHANGED <<disk, life>>

Rank0 == \/ EnsureCapacity \/ Register \/ Pruned
         \/ \E s \in Steps, r \in Ranks : RemoveShard(s, r)

Rank(r) == Arrive(r) \/ OpenShard(r) \/ WriteShard(r)

Save == \/ Collect \/ OpenData \/ WriteData \/ OpenTracker \/ WriteTracker
        \/ Rank0 \/ Barrier \/ \E r \in Ranks : Rank(r)

Next == Save \/ Resume \/ BeginSave \/ Crash

Spec == Init /\ [][Next]_vars

\* A live job goes on with a save it has begun.
FairSpec == Spec /\ WF_vars(Save)

------------------------------------------------------------------------------
(* Properties *)

\* Whatever the tracker names can be loaded, at every moment: a crash anywhere
\* in a save, or while old checkpoints are removed, leaves a checkpoint to
\* resume from (unless the tracker itself is hit).  Needs Keep[p] # 1.
Resumable == tracker \in Steps => Loadable(tracker)

\* The shards, the critic and the dataloader state of a checkpoint that the
\* tracker names come from one save: what an earlier life left in the same
\* directory is never mixed with what the next one writes.
OneSave ==
    tracker \in Steps =>
        \E l \in 1 .. life :
            /\ \A p \in Parts : \A r \in Ranks : file[p][tracker][r] = l
            /\ data[tracker] = l

\* The paths a manager still lists are complete on disk and within the limit:
\* removing old checkpoints never hits one that is to be kept.
Retained ==
    \A p \in Parts :
        /\ \A i \in 1 .. Len(saved[p]) : \A r \in Ranks :
               file[p][saved[p][i]][r] = life
        /\ Keep[p] > 0 => Len(saved[p]) <= Keep[p]

\* Checkpoint directories of a part that hold anything.
Stored(p) == {s \in Steps : \E r \in Ranks : file[p][s][r] # Absent}

\* No rank waits at a barrier that another does not call: a save that has begun
\* ends, by a crash if nothing else.
SaveEnds == pc \notin {"train", "down"} ~> pc \in {"train", "down"}

\* "With max_ckpt_to_keep=1 [...] we keep the existing checkpoint until the new
\* save completes successfully": once a checkpoint was saved, there is one that
\* can be loaded.
KeptUntilSaved == tracker \in Steps => \E s \in Steps : Loadable(s)

=============================================================================
