------------------------ MODULE CheckpointStoreProofs ------------------------
(***************************************************************************)
(* Theorems about CheckpointStore for any number of ranks, steps, crashes  *)
(* and any limits.                                                         *)
(***************************************************************************)
EXTENDS CheckpointStore, TLAPS

(***************************************************************************)
(* The inductive invariant.  Resumable and OneSave rest on what the driver *)
(* has seen finished when it writes the tracker (DoneInv, WrittenInv), on  *)
(* the barriers, which keep the phases of the ranks apart (BarrierInv),    *)
(* and on the last listed path being the one the tracker names until the   *)
(* new one is registered (ListInv), so that it is not among the oldest.    *)
(***************************************************************************)
KeepsSpare == \A p \in Parts : Keep[p] # 1

\* Ranks are in save_checkpoint while the driver waits for them.
StageInv ==
    /\ \A r \in Ranks : (pc = "save") <=> (at[r] # "idle")
    /\ \A r \in Ranks : r # 0 => at[r] \notin {"clear", "register", "prune"}
    /\ part # "actor" => pc # "down"

\* The phases of a save, which the barriers keep apart.
Phase1 == {"enter", "clear", "barrier1"}
Phase2 == {"write", "writing", "barrier2"}
Phase3 == {"register", "prune", "done"}

BarrierInv ==
    \A q, r \in Ranks :
        /\ at[q] \in Phase1 => at[r] \in Phase1
        /\ at[q] \in Phase2 => at[r] \in Phase2
        /\ at[q] \in Phase3 => at[r] \in Phase3

\* A save is always ahead of the tracker.
StepInv ==
    /\ pc = "train" => tracker = step
    /\ pc \notin {"down", "train"} => step \in Steps /\ tracker < step
    /\ pc # "down" => life > 0

WrittenInv ==
    pc = "save" => \A r \in Ranks :
        at[r] \in {"barrier2", "register", "prune", "done"} => file[part][step][r] = life

\* The parts whose turn is over.
Over == CASE pc \in {"data", "dataOpen", "track", "trackOpen"} -> Parts
          [] pc = "save" /\ part = "critic" -> {"actor"}
          [] OTHER -> {}

DoneInv ==
    /\ \A p \in Over : \A r \in Ranks : file[p][step][r] = life
    /\ pc \in {"track", "trackOpen"} => data[step] = life

\* The parts whose manager has the new checkpoint on its list.
Registered(p) ==
    p \in Over \/ (pc = "save" /\ p = part /\ at[0] \in {"prune", "done"})

Rising(s) == \A i, j \in 1 .. Len(s) : i < j => s[i] < s[j]

ListInv ==
    /\ pc = "down" => \A p \in Parts : saved[p] = <<>>
    /\ \A p \in Parts :
           /\ Rising(saved[p])
           /\ saved[p] # <<>> =>
                saved[p][Len(saved[p])] = IF Registered(p) THEN step ELSE tracker

DoomedInv ==
    /\ at[0] \notin {"clear", "prune"} => doomed = {}
    /\ step \notin doomed
    /\ \A i \in 1 .. Len(saved[part]) : saved[part][i] \notin doomed
    /\ KeepsSpare => tracker \notin doomed

IInv == /\ TypeOK
        /\ StageInv
        /\ BarrierInv
        /\ StepInv
        /\ WrittenInv
        /\ DoneInv
        /\ ListInv
        /\ DoomedInv
        /\ Retained
        /\ (KeepsSpare => OneSave)
-----------------------------------------------------------------------------
\* Rank 0 exists.
LEMMA Root == 0 \in Ranks
  BY RanksAssumption DEF Ranks

\* Where a list of rising steps ends up when its n oldest are taken off.
LEMMA Cut ==
  ASSUME NEW s \in Seq(Steps), Rising(s), NEW n \in 0 .. Len(s)
  PROVE  LET t == SubSeq(s, n + 1, Len(s)) IN
         /\ t \in Seq(Steps)
         /\ Len(t) = Len(s) - n
         /\ Rising(t)
         /\ \A i \in 1 .. Len(t) : t[i] = s[i + n] /\ t[i] \notin Oldest(s, n)
         /\ t # <<>> => t[Len(t)] = s[Len(s)]
         /\ \A j \in n + 1 .. Len(s) : s[j] \notin Oldest(s, n)
         /\ Oldest(s, n) \in SUBSET Steps
<1> DEFINE t == SubSeq(s, n + 1, Len(s))
<1>1. /\ t \in Seq(Steps)
      /\ Len(t) = Len(s) - n
      /\ \A i \in 1 .. Len(t) : t[i] = s[i + n]
  OBVIOUS
<1>2. \A i \in 1 .. Len(s) : s[i] \in Steps
  OBVIOUS
<1>3. Rising(t)
  BY <1>1 DEF Rising
<1>4. \A j \in n + 1 .. Len(s) : s[j] \notin Oldest(s, n)
  <2> SUFFICES ASSUME NEW j \in n + 1 .. Len(s), NEW i \in 1 .. n, s[j] = s[i]
               PROVE  FALSE
    BY DEF Oldest
  <2>1. s[i] < s[j]
    BY DEF Rising
  <2>2. s[i] \in Int
    BY <1>2 DEF Steps
  <2> QED
    BY <2>1, <2>2
<1>5. \A i \in 1 .. Len(t) : t[i] \notin Oldest(s, n)
  BY <1>1, <1>4
<1>6. t # <<>> => t[Len(t)] = s[Len(s)]
  <2> SUFFICES ASSUME t # <<>>
               PROVE  t[Len(t)] = s[Len(s)]
    OBVIOUS
  <2>1. Len(t) \in Nat /\ Len(t) # 0
    BY <1>1
  <2> HIDE DEF t
  <2>2. t[Len(t)] = s[Len(t) + n]
    BY <1>1, <2>1
  <2> QED
    BY <1>1, <2>1, <2>2
<1>7. Oldest(s, n) \in SUBSET Steps
  BY <1>2 DEF Oldest
<1> QED
  BY <1>1, <1>3, <1>4, <1>5, <1>6, <1>7

\* The new checkpoint at the end of the list.
LEMMA Extended ==
  ASSUME NEW s \in Seq(Steps), Rising(s), NEW x \in Steps,
         s # <<>> => s[Len(s)] < x
  PROVE  LET t == Append(s, x) IN
         /\ t \in Seq(Steps)
         /\ Len(t) = Len(s) + 1
         /\ Rising(t)
         /\ t[Len(t)] = x
         /\ \A i \in 1 .. Len(s) : t[i] = s[i] /\ s[i] # x
<1> DEFINE t == Append(s, x)
<1>1. /\ t \in Seq(Steps)
      /\ Len(t) = Len(s) + 1
      /\ \A i \in 1 .. Len(s) : t[i] = s[i]
      /\ t[Len(t)] = x
  OBVIOUS
<1>2. \A i \in 1 .. Len(s) : s[i] \in Steps
  OBVIOUS
<1>3. \A i \in 1 .. Len(s) : s[i] < x
  <2> SUFFICES ASSUME NEW i \in 1 .. Len(s)
               PROVE  s[i] < x
    OBVIOUS
  <2>1. s # <<>> /\ Len(s) \in 1 .. Len(s) /\ s[Len(s)] < x
    OBVIOUS
  <2>2. i = Len(s) \/ s[i] < s[Len(s)]
    BY <2>1 DEF Rising
  <2>3. s[i] \in Int /\ s[Len(s)] \in Int /\ x \in Int
    BY <1>2, <2>1 DEF Steps
  <2> QED
    BY <2>1, <2>2, <2>3
<1>4. Rising(t)
  BY <1>1, <1>3 DEF Rising
<1>5. \A i \in 1 .. Len(s) : s[i] # x
  BY <1>2, <1>3 DEF Steps
<1> QED
  BY <1>1, <1>3, <1>4, <1>5

\* Ranks that are all at a barrier are all at the same one.
LEMMA BarrierFacts ==
  ASSUME IInv, Barrier
  PROVE  /\ pc = "save" /\ pc' = pc
         /\ \/ \A r \in Ranks : at[r] = "barrier1" /\ at'[r] = "write"
            \/ \A r \in Ranks :
                 at[r] = "barrier2" /\ at'[r] = IF r = 0 THEN "register" ELSE "done"
         /\ at' \in [Ranks -> Stages]
         /\ at[0] \in {"barrier1", "barrier2"} /\ at'[0] \in {"write", "register"}
         /\ UNCHANGED <<file, data, tracker, step, part, saved, doomed, life, crashes>>
<1>1. pc = "save" /\ at[0] \in {"barrier1", "barrier2"} /\ at \in [Ranks -> Stages]
  BY Root DEF Barrier, IInv, StageInv, TypeOK
<1>2. \A r \in Ranks : at[r] = at[0]
  BY <1>1, Root DEF Barrier, IInv, BarrierInv, Phase1, Phase2
<1>3. at' \in [Ranks -> Stages]
  BY <1>1 DEF Barrier, Stages
<1>4. \A r \in Ranks : at'[r] =
        IF at[r] = "barrier1" THEN "write" ELSE IF r = 0 THEN "register" ELSE "done"
  BY DEF Barrier
<1> QED
  BY <1>1, <1>2, <1>3, <1>4, Root DEF Barrier, disk

\* The driver waits for its ranks.
LEMMA StageKept ==
  ASSUME IInv, [Next]_vars
  PROVE  StageInv'
<1>1. CASE Collect \/ EnsureCapacity \/ Register \/ Pruned
  BY <1>1, Root
  DEF Collect, EnsureCapacity, Register, Pruned, IInv, TypeOK, StageInv, Move,
    disk, memory, Ranks
<1>2. CASE OpenData \/ WriteData \/ OpenTracker \/ WriteTracker \/ Resume \/
     BeginSave \/ Crash
  BY <1>2
  DEF OpenData, WriteData, OpenTracker, WriteTracker, Resume, BeginSave,
    Crash, IInv, TypeOK, StageInv, Move, disk, memory, Ranks
<1>3. ASSUME NEW s \in Steps, NEW r \in Ranks,
             RemoveShard(s, r)
      PROVE  StageInv'
  BY <1>3
  DEF RemoveShard, IInv, TypeOK, StageInv, Move, disk, memory, Ranks
<1>4. ASSUME NEW r \in Ranks,
             Arrive(r) \/ OpenShard(r) \/ WriteShard(r)
      PROVE  StageInv'
  BY <1>4
  DEF Arrive, OpenShard, WriteShard, IInv, TypeOK,
    StageInv, Move, disk, memory, Ranks
<1>5. CASE UNCHANGED vars
  BY <1>5
  DEF vars, disk, memory, IInv, TypeOK, StageInv, Move, Ranks
<1>6. CASE Barrier
  BY <1>6, BarrierFacts, Root DEF IInv, TypeOK, StageInv
<1> QED
  BY <1>1, <1>2, <1>3, <1>4, <1>5, <1>6
  DEF Next, Save, Rank0, Rank

\* No rank passes a barrier before all have come to it.
LEMMA BarrierKept ==
  ASSUME IInv, [Next]_vars
  PROVE  BarrierInv'
<1>1. CASE Collect \/ EnsureCapacity \/ Register \/ Pruned
  BY <1>1, Root
  DEF Collect, EnsureCapacity, Register, Pruned, IInv, TypeOK, StageInv,
    BarrierInv, Move, disk, memory, Phase1, Phase2, Phase3
<1>2. CASE OpenData \/ WriteData \/ OpenTracker \/ WriteTracker \/ Resume \/
     BeginSave \/ Crash
  BY <1>2
  DEF OpenData, WriteData, OpenTracker, WriteTracker, Resume, BeginSave,
    Crash, IInv, TypeOK, StageInv, BarrierInv, Move, disk, memory,
    Phase1, Phase2, Phase3
<1>3. ASSUME NEW s \in Steps, NEW r \in Ranks,
             RemoveShard(s, r)
      PROVE  BarrierInv'
  BY <1>3
  DEF RemoveShard, IInv, TypeOK, StageInv, BarrierInv, Move, disk, memory,
    Phase1, Phase2, Phase3
<1>4. ASSUME NEW r \in Ranks,
             Arrive(r) \/ OpenShard(r) \/ WriteShard(r)
      PROVE  BarrierInv'
  <2>1. \/ at[r] \in Phase1 /\ at'[r] \in Phase1
        \/ at[r] \in Phase2 /\ at'[r] \in Phase2
    <3>1. CASE Arrive(r)
      BY <3>1 DEF Arrive, Move, IInv, TypeOK, Phase1
    <3>2. CASE OpenShard(r) \/ WriteShard(r)
      BY <3>2 DEF OpenShard, WriteShard, Move, IInv, TypeOK, Phase2
    <3> QED
      BY <1>4, <3>1, <3>2
  <2>2. \A q \in Ranks \ {r} : at'[q] = at[q]
    BY <1>4 DEF Arrive, OpenShard, WriteShard, Move, IInv, TypeOK
  <2>3. /\ Phase1 \intersect Phase2 = {} /\ Phase1 \intersect Phase3 = {}
        /\ Phase2 \intersect Phase3 = {}
    BY DEF Phase1, Phase2, Phase3
  <2> QED
    BY <2>1, <2>2, <2>3 DEF IInv, BarrierInv
<1>5. CASE UNCHANGED vars
  BY <1>5
  DEF vars, disk, memory, IInv, TypeOK, StageInv, BarrierInv, Move,
    Phase1, Phase2, Phase3
<1>6. CASE Barrier
  BY <1>6, BarrierFacts, Root DEF IInv, TypeOK, BarrierInv, Phase1, Phase2, Phase3
<1> QED
  BY <1>1, <1>2, <1>3, <1>4, <1>5, <1>6
  DEF Next, Save, Rank0, Rank

\* A save is ahead of the tracker until it writes it.
LEMMA StepKept ==
  ASSUME IInv, [Next]_vars
  PROVE  StepInv'
<1>1. CASE Collect \/ OpenData \/ WriteData
  BY <1>1
  DEF Collect, OpenData, WriteData, IInv, TypeOK, StepInv, disk, memory,
    Steps, Torn, Absent
<1>2. CASE OpenTracker \/ WriteTracker
  BY <1>2
  DEF OpenTracker, WriteTracker, IInv, TypeOK, StepInv, disk, memory, Steps,
    Torn, Absent
<1>3. CASE EnsureCapacity \/ Register \/ Pruned \/ Barrier
  BY <1>3
  DEF EnsureCapacity, Register, Pruned, Barrier, IInv, TypeOK, StepInv, disk, memory,
    Steps, Torn, Absent
<1>4. CASE Resume \/ BeginSave \/ Crash
  BY <1>4
  DEF Resume, BeginSave, Crash, IInv, TypeOK, StepInv, disk, memory, Steps,
    Torn, Absent
<1>5. ASSUME NEW s \in Steps, NEW r \in Ranks,
             RemoveShard(s, r)
      PROVE  StepInv'
  BY <1>5
  DEF RemoveShard, IInv, TypeOK, StepInv, disk, memory, Steps, Torn, Absent
<1>6. ASSUME NEW r \in Ranks,
             Arrive(r) \/ OpenShard(r) \/ WriteShard(r)
      PROVE  StepInv'
  BY <1>6
  DEF Arrive, OpenShard, WriteShard, IInv, TypeOK,
    StepInv, disk, memory, Steps, Torn, Absent
<1>7. CASE UNCHANGED vars
  BY <1>7
  DEF vars, disk, memory, IInv, TypeOK, StepInv, Steps, Torn, Absent
<1> QED
  BY <1>1, <1>2, <1>3, <1>4, <1>5, <1>6, <1>7
  DEF Next, Save, Rank0, Rank

\* Before a part registers, its list ends with what the tracker names.
LEMMA Listed ==
  ASSUME IInv, pc = "save", at[0] \notin {"prune", "done"}
  PROVE  /\ saved[part] \in Seq(Steps) /\ Rising(saved[part])
         /\ Len(saved[part]) \in Nat /\ Keep[part] \in Nat
         /\ saved[part] # <<>> =>
              saved[part][Len(saved[part])] = tracker /\ Len(saved[part]) > 0
         /\ \A i \in 1 .. Len(saved[part]) : saved[part][i] < step
         /\ step \in Steps /\ tracker < step /\ part \in Parts
<1>1. /\ saved[part] \in Seq(Steps) /\ part \in Parts
      /\ step \in Steps /\ tracker < step /\ tracker \in Int /\ step \in Int
  BY DEF IInv, TypeOK, StepInv, Steps
<1>2. Rising(saved[part])
  BY <1>1 DEF IInv, ListInv
<1>3. ~ Registered(part)
  BY DEF Registered, Over
<1>4. saved[part] # <<>> =>
        saved[part][Len(saved[part])] = tracker /\ Len(saved[part]) > 0
  <2>1. saved[part] # <<>> => saved[part][Len(saved[part])] = tracker
    BY <1>1, <1>3 DEF IInv, ListInv
  <2> QED
    BY <1>1, <2>1
<1>5. ASSUME NEW i \in 1 .. Len(saved[part])
      PROVE  saved[part][i] < step
  <2> DEFINE n == Len(saved[part])
  <2>1. saved[part] # <<>> /\ n \in 1 .. n /\ n \in Nat
    BY <1>1
  <2>2. saved[part][i] \in Steps
    BY <1>1
  <2>3. i = n \/ saved[part][i] < saved[part][n]
    BY <1>2, <2>1 DEF Rising
  <2> QED
    BY <1>1, <1>4, <2>1, <2>2, <2>3 DEF Steps
<1> QED
  BY <1>1, <1>2, <1>4, <1>5, KeepAssumption

\* Making room takes neither the tracker's checkpoint nor the new one.
LEMMA RoomMade ==
  ASSUME IInv, EnsureCapacity
  PROVE  /\ saved' \in [Parts -> Seq(Steps)] /\ doomed' \in SUBSET Steps
         /\ \A p \in Parts \ {part} : saved'[p] = saved[p]
         /\ Rising(saved'[part])
         /\ saved'[part] # <<>> => saved'[part][Len(saved'[part])] = tracker
         /\ \A i \in 1 .. Len(saved'[part]) :
              /\ saved'[part][i] \notin doomed'
              /\ \E j \in 1 .. Len(saved[part]) : saved'[part][i] = saved[part][j]
         /\ Len(saved'[part]) <= Len(saved[part])
         /\ step \notin doomed' /\ tracker \notin doomed'
<1> DEFINE s == saved[part]
           n == Len(s) - Keep[part] + 1
<1>1. at[0] = "enter" /\ pc = "save" /\ doomed = {} /\ part \in Parts
  BY Root DEF EnsureCapacity, IInv, StageInv, DoomedInv, TypeOK
<1>2. /\ s \in Seq(Steps) /\ Rising(s) /\ Len(s) \in Nat /\ Keep[part] \in Nat
      /\ s # <<>> => s[Len(s)] = tracker /\ Len(s) > 0
      /\ \A i \in 1 .. Len(s) : s[i] < step
      /\ step \in Steps
  BY <1>1, Listed
<1>3. saved \in [Parts -> Seq(Steps)]
  BY DEF IInv, TypeOK
<1>4. CASE Keep[part] > 1 /\ Len(s) >= Keep[part]
  <2>1. n \in 0 .. Len(s) /\ Len(s) \in n + 1 .. Len(s) /\ s # <<>>
    BY <1>2, <1>4
  <2> DEFINE t == SubSeq(s, n + 1, Len(s))
  <2>2. saved' = [saved EXCEPT ![part] = t] /\ doomed' = Oldest(s, n)
    BY <1>4 DEF EnsureCapacity, Discard
  <2> HIDE DEF n
  <2>3. /\ t \in Seq(Steps)
        /\ Len(t) = Len(s) - n
        /\ Rising(t)
        /\ \A i \in 1 .. Len(t) : t[i] = s[i + n] /\ t[i] \notin Oldest(s, n)
        /\ t # <<>> => t[Len(t)] = s[Len(s)]
        /\ \A j \in n + 1 .. Len(s) : s[j] \notin Oldest(s, n)
        /\ Oldest(s, n) \in SUBSET Steps
    BY <1>2, <2>1, Cut
  <2> HIDE DEF t
  <2>4. saved'[part] = t /\ \A p \in Parts \ {part} : saved'[p] = saved[p]
    BY <1>1, <1>3, <2>2
  <2>5. saved' \in [Parts -> Seq(Steps)]
    BY <1>3, <2>2, <2>3
  <2>6. \A i \in 1 .. Len(t) : \E j \in 1 .. Len(s) : t[i] = s[j]
    <3> SUFFICES ASSUME NEW i \in 1 .. Len(t)
                 PROVE  \E j \in 1 .. Len(s) : t[i] = s[j]
      OBVIOUS
    <3>1. Len(s) \in Nat /\ n \in 0 .. Len(s) /\ Len(t) = Len(s) - n
      BY <1>2, <2>1, <2>3
    <3>2. i + n \in 1 .. Len(s)
      BY <3>1
    <3>3. t[i] = s[i + n]
      BY <2>3
    <3> QED
      BY <3>2, <3>3
  <2>7. step \notin Oldest(s, n)
    <3> SUFFICES ASSUME NEW i \in 1 .. n, s[i] = step
                 PROVE  FALSE
      BY DEF Oldest
    <3>1. i \in 1 .. Len(s) /\ step \in Int
      BY <1>2, <2>1 DEF Steps
    <3> QED
      BY <1>2, <3>1
  <2>8. tracker \notin Oldest(s, n)
    BY <1>2, <2>1, <2>3
  <2>9. Len(t) <= Len(s)
    BY <1>2, <2>1, <2>3
  <2>10. t # <<>> => t[Len(t)] = tracker
    BY <1>2, <2>1, <2>3
  <2> HIDE DEF s
  <2> QED
    BY <2>2, <2>3, <2>4, <2>5, <2>6, <2>7, <2>8, <2>9, <2>10 DEF s
<1>5. CASE ~ (Keep[part] > 1 /\ Len(s) >= Keep[part])
  <2>1. saved' = saved /\ doomed' = {}
    BY <1>1, <1>5 DEF EnsureCapacity
  <2> QED
    BY <1>2, <1>3, <2>1
<1> QED
  BY <1>4, <1>5

\* Registering takes neither the new checkpoint nor, unless the limit is one,
\* the one the tracker still names.
LEMMA ListExtended ==
  ASSUME IInv, Register
  PROVE  /\ saved' \in [Parts -> Seq(Steps)] /\ doomed' \in SUBSET Steps
         /\ \A p \in Parts \ {part} : saved'[p] = saved[p]
         /\ Rising(saved'[part])
         /\ saved'[part] # <<>> => saved'[part][Len(saved'[part])] = step
         /\ \A i \in 1 .. Len(saved'[part]) :
              /\ saved'[part][i] \notin doomed'
              /\ \/ saved'[part][i] = step
                 \/ \E j \in 1 .. Len(saved[part]) : saved'[part][i] = saved[part][j]
         /\ Keep[part] > 0 => Len(saved'[part]) <= Keep[part]
         /\ step \notin doomed'
         /\ KeepsSpare => tracker \notin doomed'
<1> DEFINE s == saved[part]
           u == Append(s, step)
           excess == Len(u) - Keep[part]
           n == IF Keep[part] > 0 /\ excess > 0 THEN excess ELSE 0
           t == SubSeq(u, n + 1, Len(u))
<1>1. at[0] = "register" /\ pc = "save" /\ part \in Parts
  BY Root DEF Register, IInv, StageInv, TypeOK
<1>2. /\ s \in Seq(Steps) /\ Rising(s) /\ Len(s) \in Nat /\ Keep[part] \in Nat
      /\ s # <<>> => s[Len(s)] = tracker /\ Len(s) > 0
      /\ \A i \in 1 .. Len(s) : s[i] < step
      /\ step \in Steps /\ tracker < step
  BY <1>1, Listed
<1>3. saved \in [Parts -> Seq(Steps)]
  BY DEF IInv, TypeOK
<1>4. saved' = [saved EXCEPT ![part] = t] /\ doomed' = Oldest(u, n)
  BY DEF Register, Discard
<1>5. s # <<>> => s[Len(s)] < step
  BY <1>2
<1> HIDE DEF s
<1>6. /\ u \in Seq(Steps)
      /\ Len(u) = Len(s) + 1
      /\ Rising(u)
      /\ u[Len(u)] = step
      /\ \A i \in 1 .. Len(s) : u[i] = s[i] /\ s[i] # step
  BY <1>2, <1>5, Extended
<1> HIDE DEF u
<1>7. n \in 0 .. Len(u) /\ Len(u) \in n + 1 .. Len(u)
  BY <1>2, <1>6
<1>8. Keep[part] > 0 => Len(u) - n <= Keep[part]
  BY <1>2, <1>6
<1>9. KeepsSpare /\ s # <<>> => Len(s) \in n + 1 .. Len(u)
  <2>1. KeepsSpare => Keep[part] # 1
    BY <1>1 DEF KeepsSpare
  <2> QED
    BY <1>2, <1>6, <2>1
<1>10. KeepsSpare /\ s = <<>> => n = 0
  <2>1. KeepsSpare => Keep[part] # 1
    BY <1>1 DEF KeepsSpare
  <2>2. s = <<>> => Len(s) = 0
    OBVIOUS
  <2> QED
    BY <1>2, <1>6, <2>1, <2>2
<1> HIDE DEF n
<1>11. /\ t \in Seq(Steps)
       /\ Len(t) = Len(u) - n
       /\ Rising(t)
       /\ \A i \in 1 .. Len(t) : t[i] = u[i + n] /\ t[i] \notin Oldest(u, n)
       /\ t # <<>> => t[Len(t)] = u[Len(u)]
       /\ \A j \in n + 1 .. Len(u) : u[j] \notin Oldest(u, n)
       /\ Oldest(u, n) \in SUBSET Steps
  BY <1>6, <1>7, Cut
<1> HIDE DEF t
<1>12. saved'[part] = t /\ \A p \in Parts \ {part} : saved'[p] = saved[p]
  BY <1>1, <1>3, <1>4
<1>13. saved' \in [Parts -> Seq(Steps)]
  BY <1>3, <1>4, <1>11
<1>14. \A i \in 1 .. Len(t) :
          t[i] = step \/ \E j \in 1 .. Len(s) : t[i] = s[j]
  <2> SUFFICES ASSUME NEW i \in 1 .. Len(t), t[i] # step
               PROVE  \E j \in 1 .. Len(s) : t[i] = s[j]
    OBVIOUS
  <2>1. /\ Len(s) \in Nat /\ Len(u) = Len(s) + 1
        /\ n \in 0 .. Len(u) /\ Len(t) = Len(u) - n
    BY <1>2, <1>6, <1>7, <1>11
  <2>2. i + n \in 1 .. Len(u)
    BY <2>1
  <2>3. t[i] = u[i + n]
    BY <1>11
  <2>4. i + n # Len(u)
    BY <1>6, <2>3
  <2>5. i + n \in 1 .. Len(s)
    BY <2>1, <2>2, <2>4
  <2> QED
    BY <1>6, <2>3, <2>5
<1>15. KeepsSpare => tracker \notin Oldest(u, n)
  <2>1. CASE s = <<>>
    BY <1>10, <2>1 DEF Oldest
  <2>2. CASE s # <<>>
    <3>1. u[Len(s)] = tracker
      BY <1>2, <1>6, <2>2
    <3> QED
      BY <1>9, <1>11, <2>2, <3>1
  <2> QED
    BY <2>1, <2>2
<1>16. step \notin Oldest(u, n)
  BY <1>6, <1>7, <1>11
<1> QED
  BY <1>4, <1>6, <1>8, <1>11, <1>12, <1>13, <1>14, <1>15, <1>16 DEF s

LEMMA PartNames == "actor" \in Parts /\ (UseCritic => "critic" \in Parts)
  BY DEF Parts

\* One shard changes.
LEMMA ShardSet ==
  ASSUME NEW D, NEW f \in [Parts -> [Steps -> [Ranks -> D]]],
         NEW p \in Parts, NEW s \in Steps, NEW r \in Ranks, NEW v \in D
  PROVE  [f EXCEPT ![p][s][r] = v] \in [Parts -> [Steps -> [Ranks -> D]]]
OBVIOUS

LEMMA StepNumbers == \A s \in Steps : s \in 0 .. MaxStep /\ s \in -1 .. MaxStep
  BY StepAssumption DEF Steps

\* Types.
LEMMA Typed ==
  ASSUME IInv, [Next]_vars
  PROVE  TypeOK'
<1>1. CASE Collect \/ Pruned
  BY <1>1, PartNames
  DEF Collect, Pruned, IInv, TypeOK, disk, memory, Move, Driver, Stages, Torn
<1>2. CASE OpenData \/ WriteData
  <2>1. step \in Steps /\ -1 \in -1 .. life /\ life \in -1 .. life
    BY <1>2 DEF OpenData, WriteData, IInv, TypeOK, StepInv
  <2>2. data' \in [Steps -> -1 .. life]
    BY <1>2, <2>1 DEF OpenData, WriteData, IInv, TypeOK, Torn
  <2> QED
    BY <1>2, <2>2 DEF OpenData, WriteData, IInv, TypeOK, Driver
<1>3. CASE OpenTracker \/ WriteTracker
  <2>1. step \in -1 .. MaxStep /\ -1 \in -1 .. MaxStep
    BY StepAssumption DEF IInv, TypeOK
  <2> QED
    BY <1>3, <2>1 DEF OpenTracker, WriteTracker, IInv, TypeOK, Driver, Torn
<1>4. CASE EnsureCapacity
  <2>1. saved' \in [Parts -> Seq(Steps)] /\ doomed' \in SUBSET Steps
    BY <1>4, RoomMade
  <2> QED
    BY <1>4, <2>1 DEF EnsureCapacity, IInv, TypeOK, disk, Move, Stages
<1>5. CASE Register
  <2>1. saved' \in [Parts -> Seq(Steps)] /\ doomed' \in SUBSET Steps
    BY <1>5, ListExtended
  <2> QED
    BY <1>5, <2>1 DEF Register, IInv, TypeOK, disk, Move, Stages
<1>6. CASE Resume
  <2>1. -1 .. life \in SUBSET (-1 .. life')
    BY <1>6 DEF Resume, IInv, TypeOK
  <2>2. file' \in [Parts -> [Steps -> [Ranks -> -1 .. life']]]
    <3> SUFFICES ASSUME NEW p \in Parts, NEW s \in Steps, NEW r \in Ranks
                 PROVE  file[p][s][r] \in -1 .. life'
      BY <1>6 DEF Resume, disk, IInv, TypeOK
    <3> QED
      BY <2>1 DEF IInv, TypeOK
  <2>3. data' \in [Steps -> -1 .. life']
    BY <1>6, <2>1 DEF Resume, disk, IInv, TypeOK
  <2>4. tracker \in 0 .. MaxStep /\ life' \in Nat
    BY <1>6, StepAssumption DEF Resume, CanResume, IInv, TypeOK, Torn
  <2> QED
    BY <1>6, <2>2, <2>3, <2>4 DEF Resume, disk, IInv, TypeOK, Driver
<1>7. CASE BeginSave
  BY <1>7, StepAssumption, PartNames
  DEF BeginSave, IInv, TypeOK, disk, memory, Move, Driver, Stages, Torn
<1>8. CASE Crash
  BY <1>8, StepAssumption, PartNames
  DEF Crash, IInv, TypeOK, disk, memory, Move, Driver, Stages, Torn
<1>9. ASSUME NEW s \in Steps, NEW r \in Ranks,
             RemoveShard(s, r)
      PROVE  TypeOK'
  BY <1>9
  DEF RemoveShard, Absent, IInv, TypeOK, disk, memory, Move, Driver, Stages,
    Torn
<1>10. ASSUME NEW r \in Ranks,
             OpenShard(r) \/ WriteShard(r)
      PROVE  TypeOK'
  <2>1. pc = "save" /\ step \in Steps /\ part \in Parts
    BY <1>10 DEF OpenShard, WriteShard, IInv, TypeOK, StageInv, StepInv
  <2>2. -1 \in -1 .. life /\ life \in -1 .. life
    BY DEF IInv, TypeOK
  <2> DEFINE D == -1 .. life
  <2>3. PICK v \in D : file' = [file EXCEPT ![part][step][r] = v]
    BY <1>10, <2>2 DEF OpenShard, WriteShard, Torn
  <2>4. file \in [Parts -> [Steps -> [Ranks -> D]]]
    BY DEF IInv, TypeOK
  <2> HIDE DEF D
  <2>5. file' \in [Parts -> [Steps -> [Ranks -> D]]]
    BY <2>1, <2>3, <2>4, ShardSet
  <2> USE DEF D
  <2> QED
    BY <1>10, <2>5 DEF OpenShard, WriteShard, IInv, TypeOK, Move, Stages
<1>11. CASE Barrier \/ \E r \in Ranks : Arrive(r)
  BY <1>11, BarrierFacts, Root
  DEF Barrier, Arrive, IInv, TypeOK, disk, memory, Move,
    Driver, Stages, Torn
<1>12. CASE UNCHANGED vars
  BY <1>12
  DEF vars, disk, memory, IInv, TypeOK, Move, Driver, Stages, Torn
<1> QED
  BY <1>1, <1>2, <1>3, <1>4, <1>5, <1>6, <1>7, <1>8, <1>9, <1>10, <1>11, <1>12
  DEF Next, Save, Rank0, Rank

\* rmtree touches the checkpoints it is to remove, of one part.
LEMMA Removed ==
  ASSUME IInv, NEW s \in Steps, NEW r \in Ranks, RemoveShard(s, r)
  PROVE  /\ pc = "save" /\ s \in doomed /\ s # step
         /\ \A p \in Parts, t \in Steps, q \in Ranks :
              t # s \/ p # part => file'[p][t][q] = file[p][t][q]
         /\ UNCHANGED <<data, tracker, pc, step, part, at, saved, doomed, life>>
<1>1. s \in doomed /\ s # step /\ pc = "save"
  BY Root DEF RemoveShard, Leftover, IInv, DoomedInv, StageInv
<1>2. \A p \in Parts, t \in Steps, q \in Ranks :
        t # s \/ p # part => file'[p][t][q] = file[p][t][q]
  BY DEF RemoveShard, IInv, TypeOK
<1> QED
  BY <1>1, <1>2 DEF RemoveShard, memory

\* A shard is in place once its rank is at the last barrier.
LEMMA WrittenKept ==
  ASSUME IInv, [Next]_vars
  PROVE  WrittenInv'
<1>1. CASE Collect \/ OpenData \/ WriteData \/ OpenTracker \/ WriteTracker
  BY <1>1
  DEF Collect, OpenData, WriteData, OpenTracker, WriteTracker, IInv, TypeOK,
    WrittenInv, StageInv, StepInv, Move, disk, memory
<1>2. CASE Pruned \/ EnsureCapacity \/ Register
  BY <1>2, Root
  DEF Pruned, EnsureCapacity, Register, IInv, TypeOK, WrittenInv, StageInv,
    StepInv, Move, disk, memory
<1>3. CASE Resume \/ BeginSave \/ Crash
  BY <1>3
  DEF Resume, BeginSave, Crash, IInv, TypeOK, WrittenInv, StageInv, StepInv,
    Move, disk, memory
<1>4. ASSUME NEW s \in Steps, NEW r \in Ranks,
             RemoveShard(s, r)
      PROVE  WrittenInv'
  BY <1>4
  DEF RemoveShard, DoomedInv, Leftover, IInv, TypeOK, WrittenInv, StageInv,
    StepInv, Move, disk, memory
<1>5. ASSUME NEW r \in Ranks,
             OpenShard(r)
      PROVE  WrittenInv'
  BY <1>5
  DEF OpenShard, IInv, TypeOK, WrittenInv, StageInv, StepInv, Move, disk,
    memory
<1>6. ASSUME NEW r \in Ranks,
             WriteShard(r)
      PROVE  WrittenInv'
  BY <1>6
  DEF WriteShard, IInv, TypeOK, WrittenInv, StageInv, StepInv, Move, disk,
    memory
<1>7. CASE Barrier \/ \E r \in Ranks : Arrive(r)
  BY <1>7, BarrierFacts, Root
  DEF Barrier, Arrive, IInv, TypeOK, WrittenInv, StageInv,
    StepInv, Move, disk, memory
<1>8. CASE UNCHANGED vars
  BY <1>8
  DEF vars, disk, memory, IInv, TypeOK, WrittenInv, StageInv, StepInv, Move
<1> QED
  BY <1>1, <1>2, <1>3, <1>4, <1>5, <1>6, <1>7, <1>8
  DEF Next, Save, Rank0, Rank

\* What the driver has seen finished stays as it is.
LEMMA DoneKept ==
  ASSUME IInv, [Next]_vars
  PROVE  DoneInv'
<1>1. CASE Collect
  BY <1>1, PartNames
  DEF Collect, Parts, BarrierInv, IInv, TypeOK, DoneInv, WrittenInv, StageInv,
    StepInv, Over, Move, disk, memory
<1>2. CASE OpenData \/ WriteData
  BY <1>2
  DEF OpenData, WriteData, IInv, TypeOK, DoneInv, WrittenInv, StageInv,
    StepInv, Over, Move, disk, memory
<1>3. CASE OpenTracker \/ WriteTracker
  BY <1>3
  DEF OpenTracker, WriteTracker, IInv, TypeOK, DoneInv, WrittenInv, StageInv,
    StepInv, Over, Move, disk, memory
<1>4. CASE Pruned \/ EnsureCapacity \/ Register
  BY <1>4
  DEF Pruned, EnsureCapacity, Register, IInv, TypeOK, DoneInv, WrittenInv,
    StageInv, StepInv, Over, Move, disk, memory
<1>5. CASE Resume \/ BeginSave \/ Crash
  BY <1>5
  DEF Resume, BeginSave, Crash, IInv, TypeOK, DoneInv, WrittenInv, StageInv,
    StepInv, Over, Move, disk, memory
<1>6. ASSUME NEW s \in Steps, NEW r \in Ranks,
             RemoveShard(s, r)
      PROVE  DoneInv'
  <2>1. step \in Steps /\ pc = "save" /\ Over \subseteq Parts
    BY <1>6, Removed, PartNames DEF IInv, StepInv, Over
  <2>2. Over' = Over
    BY <1>6, Removed DEF Over
  <2> QED
    BY <1>6, <2>1, <2>2, Removed DEF IInv, DoneInv
<1>7. ASSUME NEW r \in Ranks,
             OpenShard(r)
      PROVE  DoneInv'
  BY <1>7, Root
  DEF OpenShard, IInv, TypeOK, DoneInv, WrittenInv, StageInv, StepInv, Over,
    Move, disk, memory
<1>8. ASSUME NEW r \in Ranks,
             WriteShard(r)
      PROVE  DoneInv'
  BY <1>8, Root
  DEF WriteShard, IInv, TypeOK, DoneInv, WrittenInv, StageInv, StepInv, Over,
    Move, disk, memory
<1>9. CASE Barrier \/ \E r \in Ranks : Arrive(r)
  BY <1>9, BarrierFacts, Root
  DEF Barrier, Arrive, IInv, TypeOK, DoneInv, WrittenInv,
    StageInv, StepInv, Over, Move, disk, memory
<1>10. CASE UNCHANGED vars
  BY <1>10
  DEF vars, disk, memory, IInv, TypeOK, DoneInv, WrittenInv, StageInv,
    StepInv, Over, Move
<1> QED
  BY <1>1, <1>2, <1>3, <1>4, <1>5, <1>6, <1>7, <1>8, <1>9, <1>10
  DEF Next, Save, Rank0, Rank

\* A rank writes its shard of the new checkpoint, before it is registered.
LEMMA Written ==
  ASSUME IInv, NEW r \in Ranks, OpenShard(r) \/ WriteShard(r)
  PROVE  /\ pc = "save" /\ at[0] \notin {"prune", "done"}
         /\ at'[0] \notin {"prune", "done"} /\ at'[0] = "clear" <=> at[0] = "clear"
         /\ \A p \in Parts, t \in Steps, q \in Ranks :
              t # step \/ p # part => file'[p][t][q] = file[p][t][q]
         /\ UNCHANGED <<data, tracker, pc, step, part, saved, doomed, life>>
<1>1. pc = "save" /\ at[0] \notin {"prune", "done"}
  BY Root DEF OpenShard, WriteShard, IInv, StageInv, BarrierInv, Phase1, Phase2, Phase3
<1>2. at'[0] \notin {"prune", "done"} /\ at'[0] = "clear" <=> at[0] = "clear"
  BY <1>1, Root DEF OpenShard, WriteShard, Move, IInv, TypeOK
<1>3. \A p \in Parts, t \in Steps, q \in Ranks :
        t # step \/ p # part => file'[p][t][q] = file[p][t][q]
  <2>1. \A v : file' = [file EXCEPT ![part][step][r] = v] =>
          \A p \in Parts, t \in Steps, q \in Ranks :
             t # step \/ p # part => file'[p][t][q] = file[p][t][q]
    BY DEF IInv, TypeOK
  <2> QED
    BY <2>1 DEF OpenShard, WriteShard
<1> QED
  BY <1>1, <1>2, <1>3 DEF OpenShard, WriteShard

LEMMA ListedSteps ==
  ASSUME IInv, NEW p \in Parts, NEW i \in 1 .. Len(saved[p])
  PROVE  saved[p][i] \in Steps
<1>1. saved[p] \in Seq(Steps)
  BY DEF IInv, TypeOK
<1> QED
  BY <1>1

\* The lists rise, and end with the tracker or the new checkpoint.
LEMMA ListKept ==
  ASSUME IInv, [Next]_vars
  PROVE  ListInv'
<1>1. CASE Collect
  BY <1>1, Root
  DEF Collect, Parts, StageInv, IInv, TypeOK, ListInv, Registered, Over, disk,
    memory, Move
<1>2. CASE OpenData \/ WriteData \/ OpenTracker
  BY <1>2
  DEF OpenData, WriteData, OpenTracker, IInv, TypeOK, ListInv, Registered,
    Over, disk, memory, Move
<1>3. CASE WriteTracker
  BY <1>3
  DEF WriteTracker, IInv, TypeOK, ListInv, Registered, Over, disk, memory,
    Move
<1>4. CASE EnsureCapacity
  <2>1. /\ Rising(saved'[part])
        /\ saved'[part] # <<>> => saved'[part][Len(saved'[part])] = tracker
        /\ \A p \in Parts \ {part} : saved'[p] = saved[p]
    BY <1>4, RoomMade
  <2>2. pc = "save" /\ at'[0] = "clear" /\ at[0] = "enter"
    BY <1>4, Root DEF EnsureCapacity, Move, IInv, TypeOK, StageInv
  <2>3. UNCHANGED <<pc, step, part, tracker>>
    BY <1>4 DEF EnsureCapacity, disk
  <2>4. \A p \in Parts : Registered(p)' = Registered(p) /\ ~ Registered(part)
    BY <2>2, <2>3 DEF Registered, Over
  <2> QED
    BY <2>1, <2>2, <2>3, <2>4 DEF IInv, ListInv
<1>5. CASE Register
  <2>1. /\ Rising(saved'[part])
        /\ saved'[part] # <<>> => saved'[part][Len(saved'[part])] = step
        /\ \A p \in Parts \ {part} : saved'[p] = saved[p]
    BY <1>5, ListExtended
  <2>2. pc = "save" /\ at'[0] = "prune" /\ at[0] = "register"
    BY <1>5, Root DEF Register, Move, IInv, TypeOK, StageInv
  <2>3. UNCHANGED <<pc, step, part, tracker>>
    BY <1>5 DEF Register, disk
  <2>4. /\ \A p \in Parts \ {part} : Registered(p)' = Registered(p)
        /\ Registered(part)'
    BY <2>2, <2>3 DEF Registered, Over
  <2> QED
    BY <2>1, <2>2, <2>3, <2>4 DEF IInv, ListInv
<1>6. CASE Pruned
  BY <1>6, Root
  DEF Pruned, IInv, TypeOK, ListInv, Registered, Over, disk, memory, Move
<1>7. CASE Resume
  <2>1. \A p \in Parts : saved'[p] = <<>>
    BY <1>7 DEF Resume, IInv, ListInv
  <2> QED
    BY <2>1 DEF ListInv, Rising
<1>8. CASE BeginSave
  <2>1. saved' = saved /\ tracker' = tracker /\ pc = "train" /\ pc' = "save"
    BY <1>8 DEF BeginSave, disk
  <2>2. \A p \in Parts : ~ Registered(p)
    BY <2>1 DEF Registered, Over
  <2>3. part' = "actor" /\ at'[0] = "enter"
    BY <1>8, Root DEF BeginSave
  <2>4. \A p \in Parts : ~ Registered(p)'
    BY <2>1, <2>3 DEF Registered, Over
  <2> QED
    BY <2>1, <2>2, <2>4 DEF IInv, ListInv
<1>9. CASE Crash
  BY <1>9
  DEF Crash, Rising, IInv, TypeOK, ListInv, Registered, Over, disk, memory,
    Move
<1>10. ASSUME NEW s \in Steps, NEW r \in Ranks,
             RemoveShard(s, r)
      PROVE  ListInv'
  BY <1>10
  DEF RemoveShard, IInv, TypeOK, ListInv, Registered, Over, disk, memory, Move
<1>11. ASSUME NEW r \in Ranks,
             OpenShard(r) \/ WriteShard(r)
      PROVE  ListInv'
  BY <1>11, Written, Root
  DEF OpenShard, WriteShard, IInv, TypeOK, ListInv, Registered, Over, disk,
    memory, Move
<1>12. CASE Barrier \/ \E r \in Ranks : Arrive(r)
  BY <1>12, BarrierFacts, Root
  DEF Barrier, Arrive, IInv, TypeOK, ListInv, Registered,
    Over, disk, memory, Move
<1>13. CASE UNCHANGED vars
  BY <1>13
  DEF vars, disk, memory, IInv, TypeOK, ListInv, Registered, Over, Move
<1> QED
  BY <1>1, <1>2, <1>3, <1>4, <1>5, <1>6, <1>7, <1>8, <1>9, <1>10, <1>11,
    <1>12, <1>13
  DEF Next, Save, Rank0, Rank

\* What is to be kept is not removed.
LEMMA DoomedKept ==
  ASSUME IInv, [Next]_vars
  PROVE  DoomedInv'
<1>1. CASE Collect \/ Pruned
  BY <1>1, Root
  DEF Collect, Pruned, IInv, TypeOK, DoomedInv, disk, memory, Move
<1>2. CASE OpenData \/ WriteData \/ OpenTracker \/ WriteTracker
  BY <1>2, Root
  DEF OpenData, WriteData, OpenTracker, WriteTracker, StageInv, IInv, TypeOK,
    DoomedInv, disk, memory, Move
<1>3. CASE EnsureCapacity
  <2>1. /\ \A i \in 1 .. Len(saved'[part]) : saved'[part][i] \notin doomed'
        /\ step \notin doomed' /\ tracker \notin doomed'
    BY <1>3, RoomMade
  <2>2. at'[0] = "clear" /\ UNCHANGED <<step, part, tracker>>
    BY <1>3, Root DEF EnsureCapacity, Move, IInv, TypeOK, disk
  <2> QED
    BY <2>1, <2>2 DEF DoomedInv
<1>4. CASE Register
  <2>1. /\ \A i \in 1 .. Len(saved'[part]) : saved'[part][i] \notin doomed'
        /\ step \notin doomed' /\ (KeepsSpare => tracker \notin doomed')
    BY <1>4, ListExtended
  <2>2. at'[0] = "prune" /\ UNCHANGED <<step, part, tracker>>
    BY <1>4, Root DEF Register, Move, IInv, TypeOK, disk
  <2> QED
    BY <2>1, <2>2 DEF DoomedInv
<1>5. CASE Resume \/ BeginSave \/ Crash
  BY <1>5, Root
  DEF Resume, BeginSave, Crash, StageInv, IInv, TypeOK, DoomedInv, disk,
    memory, Move
<1>6. ASSUME NEW s \in Steps, NEW r \in Ranks,
             RemoveShard(s, r)
      PROVE  DoomedInv'
  BY <1>6
  DEF RemoveShard, IInv, TypeOK, DoomedInv, disk, memory, Move
<1>7. ASSUME NEW r \in Ranks,
             OpenShard(r) \/ WriteShard(r)
      PROVE  DoomedInv'
  BY <1>7, Written, Root
  DEF OpenShard, WriteShard, StageInv, IInv, TypeOK, DoomedInv, disk, memory,
    Move
<1>8. CASE Barrier \/ \E r \in Ranks : Arrive(r)
  BY <1>8, BarrierFacts, Root
  DEF Barrier, Arrive, StageInv, IInv, TypeOK, DoomedInv,
    disk, memory, Move
<1>9. CASE UNCHANGED vars
  BY <1>9
  DEF vars, disk, memory, IInv, TypeOK, DoomedInv, Move
<1> QED
  BY <1>1, <1>2, <1>3, <1>4, <1>5, <1>6, <1>7, <1>8, <1>9
  DEF Next, Save, Rank0, Rank

\* Listed checkpoints stay complete and within the limit.
LEMMA RetainedKept ==
  ASSUME IInv, [Next]_vars
  PROVE  Retained'
<1>1. CASE Collect \/ OpenData \/ WriteData \/ OpenTracker \/ WriteTracker \/
     Pruned \/ BeginSave
  <2>1. UNCHANGED <<file, saved, life>>
    BY <1>1 DEF Collect, OpenData, WriteData, OpenTracker, WriteTracker, Pruned,
      BeginSave, disk
  <2> QED
    BY <2>1 DEF IInv, Retained
<1>2. CASE EnsureCapacity
  <2>1. /\ saved' \in [Parts -> Seq(Steps)]
        /\ \A p \in Parts \ {part} : saved'[p] = saved[p]
        /\ \A i \in 1 .. Len(saved'[part]) :
             \E j \in 1 .. Len(saved[part]) : saved'[part][i] = saved[part][j]
        /\ Len(saved'[part]) <= Len(saved[part])
    BY <1>2, RoomMade
  <2>2. UNCHANGED <<file, life>> /\ part \in Parts
    BY <1>2 DEF EnsureCapacity, disk, IInv, TypeOK
  <2>3. Len(saved[part]) \in Nat /\ Len(saved'[part]) \in Nat /\ Keep[part] \in Nat
    BY <2>1, <2>2, KeepAssumption DEF IInv, TypeOK
  <2>4. \A i \in 1 .. Len(saved'[part]) : \A r \in Ranks :
          file[part][saved'[part][i]][r] = life
    BY <2>1, <2>2 DEF IInv, Retained
  <2>5. Keep[part] > 0 => Len(saved'[part]) <= Keep[part]
    BY <2>1, <2>2, <2>3 DEF IInv, Retained
  <2>6. \A p \in Parts \ {part} : saved'[p] = saved[p]
    BY <2>1
  <2> SUFFICES ASSUME NEW p \in Parts
               PROVE  /\ \A i \in 1 .. Len(saved'[p]) : \A r \in Ranks :
                           file'[p][saved'[p][i]][r] = life'
                      /\ Keep[p] > 0 => Len(saved'[p]) <= Keep[p]
    BY DEF Retained
  <2>7. CASE p = part
    BY <2>2, <2>4, <2>5, <2>7
  <2>8. CASE p # part
    BY <2>2, <2>6, <2>8 DEF IInv, Retained
  <2> QED
    BY <2>7, <2>8
<1>3. CASE Register
  <2>1. /\ \A p \in Parts \ {part} : saved'[p] = saved[p]
        /\ \A i \in 1 .. Len(saved'[part]) :
             \/ saved'[part][i] = step
             \/ \E j \in 1 .. Len(saved[part]) : saved'[part][i] = saved[part][j]
        /\ Keep[part] > 0 => Len(saved'[part]) <= Keep[part]
    BY <1>3, ListExtended
  <2>2. UNCHANGED <<file, life>> /\ part \in Parts
    BY <1>3 DEF Register, disk, IInv, TypeOK
  <2>3. \A r \in Ranks : at[r] \in Phase3
    BY <1>3, Root DEF Register, Phase3, IInv, BarrierInv
  <2>4. \A r \in Ranks : file[part][step][r] = life
    BY <1>3, <2>3, Root DEF Register, Phase3, IInv, WrittenInv, StageInv
  <2> QED
    BY <2>1, <2>2, <2>4 DEF IInv, Retained
<1>4. CASE Resume
  <2>1. \A p \in Parts : saved'[p] = <<>>
    BY <1>4 DEF Resume, IInv, ListInv
  <2> QED
    BY <2>1, KeepAssumption DEF Retained
<1>5. CASE Crash
  BY <1>5, KeepAssumption
  DEF Crash, IInv, TypeOK, Retained, disk, memory
<1>6. ASSUME NEW s \in Steps, NEW r \in Ranks,
             RemoveShard(s, r)
      PROVE  Retained'
  <2>1. \A p \in Parts : \A i \in 1 .. Len(saved[p]) :
          saved[p][i] \in Steps /\ (p = part => saved[p][i] # s)
    BY <1>6, Removed, ListedSteps DEF IInv, DoomedInv
  <2> QED
    BY <1>6, <2>1, Removed DEF IInv, Retained
<1>7. ASSUME NEW r \in Ranks,
             OpenShard(r) \/ WriteShard(r)
      PROVE  Retained'
  <2>1. \A p \in Parts : \A i \in 1 .. Len(saved[p]) : saved[p][i] \in Steps
    BY ListedSteps
  <2>2. \A i \in 1 .. Len(saved[part]) : saved[part][i] # step
    BY <1>7, Written, Listed DEF Steps
  <2> QED
    BY <1>7, <2>1, <2>2, Written DEF IInv, Retained
<1>8. CASE Barrier \/ \E r \in Ranks : Arrive(r)
  <2>1. UNCHANGED <<file, saved, life>>
    BY <1>8 DEF Barrier, Arrive, disk
  <2> QED
    BY <2>1 DEF IInv, Retained
<1>9. CASE UNCHANGED vars
  BY <1>9
  DEF vars, disk, memory, IInv, TypeOK, Retained
<1> QED
  BY <1>1, <1>2, <1>3, <1>4, <1>5, <1>6, <1>7, <1>8, <1>9
  DEF Next, Save, Rank0, Rank

\* The tracker names shards and data of one save.
LEMMA OneSaveKept ==
  ASSUME IInv, [Next]_vars
  PROVE  (KeepsSpare => OneSave)'
<1>1. CASE Collect \/ EnsureCapacity \/ Register \/ Pruned \/ BeginSave \/
     Crash
  BY <1>1
  DEF Collect, EnsureCapacity, Register, Pruned, BeginSave, Crash, IInv,
    TypeOK, OneSave, disk, memory
<1>2. CASE OpenData \/ WriteData
  <2>1. step # tracker /\ step \in Steps
    BY <1>2 DEF OpenData, WriteData, IInv, StepInv, TypeOK, Steps
  <2>2. tracker \in Steps => data'[tracker] = data[tracker]
    BY <1>2, <2>1 DEF OpenData, WriteData, IInv, TypeOK
  <2>3. UNCHANGED <<file, tracker, life>>
    BY <1>2 DEF OpenData, WriteData
  <2> QED
    BY <2>2, <2>3 DEF IInv, OneSave
<1>3. CASE OpenTracker
  BY <1>3
  DEF OpenTracker, Torn, Steps, IInv, TypeOK, OneSave, disk, memory
<1>4. CASE WriteTracker
  <2>1. /\ \A p \in Parts : \A r \in Ranks : file[p][step][r] = life
        /\ data[step] = life
    BY <1>4 DEF WriteTracker, IInv, DoneInv, Over
  <2>2. life \in 1 .. life
    BY <1>4 DEF WriteTracker, IInv, TypeOK, StepInv
  <2> QED
    BY <1>4, <2>1, <2>2 DEF WriteTracker, OneSave
<1>5. CASE Resume
  <2>1. 1 .. life \subseteq 1 .. life' /\ UNCHANGED disk
    BY <1>5 DEF Resume, IInv, TypeOK
  <2> QED
    BY <2>1 DEF IInv, OneSave, disk
<1>6. ASSUME NEW s \in Steps, NEW r \in Ranks,
             RemoveShard(s, r)
      PROVE  (KeepsSpare => OneSave)'
  <2>1. KeepsSpare => tracker # s
    BY <1>6, Removed DEF IInv, DoomedInv
  <2> QED
    BY <1>6, <2>1, Removed DEF IInv, OneSave
<1>7. ASSUME NEW r \in Ranks,
             OpenShard(r) \/ WriteShard(r)
      PROVE  (KeepsSpare => OneSave)'
  <2>1. tracker # step
    BY <1>7, Written DEF IInv, StepInv, TypeOK, Steps
  <2> QED
    BY <1>7, <2>1, Written DEF IInv, OneSave
<1>8. CASE Barrier \/ \E r \in Ranks : Arrive(r)
  BY <1>8, BarrierFacts, Root
  DEF Barrier, Arrive, IInv, TypeOK, OneSave, disk, memory
<1>9. CASE UNCHANGED vars
  BY <1>9
  DEF vars, disk, memory, IInv, TypeOK, OneSave
<1> QED
  BY <1>1, <1>2, <1>3, <1>4, <1>5, <1>6, <1>7, <1>8, <1>9
  DEF Next, Save, Rank0, Rank

\* The inductive invariant holds in every reachable state.
THEOREM Invariance == Spec => []IInv
<1>1. Init => IInv
  <2> SUFFICES ASSUME Init PROVE IInv
    OBVIOUS
  <2>1. TypeOK
    BY StepAssumption, PartNames DEF Init, TypeOK, Absent, Driver, Stages
  <2>2. StageInv /\ BarrierInv /\ StepInv /\ WrittenInv
    BY DEF Init, StageInv, BarrierInv, StepInv, WrittenInv
  <2>3. DoneInv /\ ListInv
    BY DEF Init, DoneInv, Over, ListInv, Rising
  <2>4. DoomedInv
    BY PartNames DEF Init, DoomedInv
  <2>5. Retained
    BY KeepAssumption DEF Init, Retained
  <2>6. OneSave
    BY DEF Init, OneSave, Absent, Steps
  <2> QED
    BY <2>1, <2>2, <2>3, <2>4, <2>5, <2>6 DEF IInv
<1>2. IInv /\ [Next]_vars => IInv'
  BY Typed, StageKept, BarrierKept, StepKept, WrittenKept, DoneKept, ListKept,
    DoomedKept, RetainedKept, OneSaveKept DEF IInv
<1> QED
  BY <1>1, <1>2, PTL DEF Spec

\* Every variable keeps its type.
THEOREM TypeCorrect == Spec => []TypeOK
<1>1. IInv => TypeOK
  BY DEF IInv
<1> QED
  BY <1>1, Invariance, PTL

\* Unless a limit is one, a checkpoint that the tracker names was written by
\* one save, all of it, whatever crashes before, in and after that save.
THEOREM TrackerNamesOneSave == KeepsSpare => (Spec => []OneSave)
<1> SUFFICES ASSUME KeepsSpare
             PROVE  Spec => []OneSave
  OBVIOUS
<1>1. IInv => OneSave
  BY DEF IInv
<1> QED
  BY <1>1, Invariance, PTL

\* Unless a limit is one, a job can always resume from what the tracker names.
THEOREM TrackerNamesLoadable == KeepsSpare => (Spec => []Resumable)
<1> SUFFICES ASSUME KeepsSpare
             PROVE  Spec => []Resumable
  OBVIOUS
<1>1. IInv => Resumable
  <2> SUFFICES ASSUME IInv, tracker \in Steps
               PROVE  Loadable(tracker)
    BY DEF Resumable
  <2>1. PICK l \in 1 .. life :
          /\ \A p \in Parts : \A r \in Ranks : file[p][tracker][r] = l
          /\ data[tracker] = l
    BY DEF IInv, OneSave
  <2>2. l > 0 /\ l # -1
    BY DEF IInv, TypeOK
  <2> QED
    BY <2>1, <2>2 DEF Loadable, Whole, Torn
<1> QED
  BY <1>1, Invariance, PTL

\* What a manager lists is on disk, complete, and within its limit; for every
\* limit.
THEOREM ListedIsComplete == Spec => []Retained
<1>1. IInv => Retained
  BY DEF IInv
<1> QED
  BY <1>1, Invariance, PTL
=============================================================================
