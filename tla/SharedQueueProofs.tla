------------------------- MODULE SharedQueueProofs -------------------------
(***************************************************************************)
(* Theorems about SharedQueue for every set of jobs and workers, every     *)
(* --max-jobs and any number of crashes.                                   *)
(***************************************************************************)
EXTENDS SharedQueueRefinement, TLAPS

(***************************************************************************)
(* The inductive invariant.  A worker past its claim is the only one to    *)
(* hold the file, which is in running/ and nowhere else; before Launch     *)
(* nothing of the command exists; the exit is recorded exactly when the    *)
(* leader is gone; a final status is only written once it is true.         *)
(***************************************************************************)
Untouched(j) == launches[j] = 0 /\ group[j] = {} /\ exit[j] = "none"

HolderInv ==
  \A w \in Workers : Holds(w) => /\ Exists("running", job[w])
                                 /\ job[w] \in Jobs

LaunchInv ==
  /\ \A j \in Jobs : ~Submitted(j) \/ Exists("pending", j) => Untouched(j)
  /\ \A w \in Workers : pc[w] \in {"claimed", "launching"} => Untouched(job[w])

LeaderInv ==
  /\ \A j \in Jobs : launches[j] <= 1
  /\ \A j \in Jobs : "leader" \in group[j] => exit[j] = "none"
  /\ \A j \in Jobs : "leader" \in group[j] \/ exit[j] # "none" => launches[j] = 1
  /\ \A w \in Workers : pc[w] \in {"watching", "terminating", "killing"}
                          => launches[job[w]] = 1
  /\ \A w \in Workers : pc[w] \in {"watching", "terminating"} /\ exit[job[w]] = "none"
                          => "leader" \in group[job[w]]

TruthInv ==
  /\ \A w \in Workers :
       pc[w] \in {"finishing", "closing"} =>
         /\ "leader" \notin group[job[w]]
         /\ verdict[w] = "done" => exit[job[w]] = "zero"
  /\ \A w \in Workers : At(w, "closing") => files["running"][job[w]] = verdict[w]

IInv == /\ TypeOK
        /\ InOneDirectory
        /\ ExclusiveClaim
        /\ HolderInv
        /\ LaunchInv
        /\ LeaderInv
        /\ TruthInv
        /\ VerdictIsTrue
-----------------------------------------------------------------------------
(***************************************************************************)
(* What the two renames do.  A rename changes the file of one job only;    *)
(* Claim moves it from pending/ to running/, Close from running/ to the    *)
(* directory of the verdict.                                               *)
(***************************************************************************)
LEMMA RenameOthers ==
  ASSUME TypeOK, NEW src \in Dirs, NEW dst \in Dirs, NEW j \in Jobs, Rename(src, dst, j),
         NEW k \in Jobs, k # j, NEW d \in Dirs
  PROVE  files'[d][k] = files[d][k]
BY DEF TypeOK, Rename

\* A rename between two directories keeps the types.
LEMMA RenameType ==
  ASSUME TypeOK, NEW src \in Dirs, NEW dst \in Dirs, NEW j \in Jobs, Rename(src, dst, j)
  PROVE  files' \in [Dirs -> [Jobs -> Status \cup {Absent}]]
<1> DEFINE Content == Status \cup {Absent}
<1>1. files \in [Dirs -> [Jobs -> Content]] /\ Absent \in Content
  BY DEF TypeOK
<1> HIDE DEF Content
<1>2. files[src][j] \in Content
  BY <1>1
<1> DEFINE row == [files[src] EXCEPT ![j] = Absent]
           left == [files EXCEPT ![src] = row]
<1>3. row \in [Jobs -> Content] /\ left \in [Dirs -> [Jobs -> Content]]
  BY <1>1
<1>4. files' = [left EXCEPT ![dst] = [left[dst] EXCEPT ![j] = files[src][j]]]
  BY DEF Rename
<1> HIDE DEF row, left
<1>5. files' \in [Dirs -> [Jobs -> Content]]
  BY <1>2, <1>3, <1>4
<1> QED
  BY <1>5 DEF Content

\* A rename moves the one file of its job.
LEMMA RenameAlone ==
  ASSUME TypeOK, InOneDirectory, NEW src \in Dirs, NEW dst \in Dirs, NEW j \in Jobs,
         src # dst, Exists(src, j), Rename(src, dst, j)
  PROVE  InOneDirectory'
<1> SUFFICES ASSUME NEW k \in Jobs, NEW d \in Dirs, NEW e \in Dirs,
                    Exists(d, k)', Exists(e, k)'
             PROVE  d = e
  BY DEF InOneDirectory
<1>1. CASE k # j
  BY <1>1, RenameOthers DEF InOneDirectory, Exists
<1>2. CASE k = j
  <2>1. \A f \in Dirs : f \notin {src, dst} => files'[f][j] = files[f][j]
    BY DEF TypeOK, Rename
  <2>2. files'[src][j] = Absent
    BY DEF TypeOK, Rename
  <2>3. \A f \in Dirs : Exists(f, j)' => f = dst
    BY <2>1, <2>2 DEF InOneDirectory, Exists
  <2> QED
    BY <1>2, <2>3
<1> QED
  BY <1>1, <1>2

LEMMA ClaimFacts ==
  ASSUME IInv, NEW w \in Workers, Claim(w)
  PROVE  \E k \in Jobs : /\ Candidate(w, k)
                         /\ Exists("pending", k)
                         /\ Rename("pending", "running", k)
                         /\ job' = [job EXCEPT ![w] = k]
                         /\ Goto(w, "claimed")
                         /\ UNCHANGED <<group, exit, launches, verdict>>
BY DEF Claim, TakeCandidate, command

LEMMA CloseFacts ==
  ASSUME IInv, NEW w \in Workers, Close(w)
  PROVE  /\ pc[w] = "closing" /\ job[w] \in Jobs /\ verdict[w] \in {"done", "failed"}
         /\ files["running"][job[w]] = verdict[w]
         /\ Rename("running", verdict[w], job[w])
         /\ job' = [job EXCEPT ![w] = NoJob]
         /\ \E p \in {"idle", "stopped"} : Goto(w, p)
         /\ UNCHANGED <<group, exit, launches, verdict>>
BY DEF IInv, TypeOK, HolderInv, TruthInv, Holds, HoldPcs, Close, LeaveJob, At, command

LEMMA CloseType == ASSUME TypeOK, NEW w \in Workers, Close(w) PROVE TypeOK'
<1> USE NoJobAssumption, LimitAssumption DEF TypeOK
<1>1. pc[w] = "closing" /\ job[w] \in Jobs /\ verdict[w] \in {"done", "failed"}
  BY DEF Close, At, Holds, HoldPcs
<1>2. files' \in [Dirs -> [Jobs -> Status \cup {Absent}]]
  <2>1. Rename("running", verdict[w], job[w]) /\ {"running", verdict[w]} \subseteq Dirs
    BY <1>1 DEF Close, Dirs
  <2> QED
    BY <1>1, <2>1, RenameType
<1>3. processed' \in [Workers -> Nat] /\ UNCHANGED <<listing, verdict, command, faults>>
  BY DEF Close, LeaveJob
<1>4. heartbeat' \in [Workers -> Nat]
  BY <1>3 DEF Close, LeaveJob
<1>5. /\ pc' \in [Workers -> Pcs]
      /\ job' \in [Workers -> Jobs \cup {NoJob}]
      /\ \A v \in Workers : Holds(v)' <=> job'[v] # NoJob
  <2>1. \E p \in {"idle", "stopped"} : Goto(w, p)
    BY DEF Close, LeaveJob
  <2> QED
    BY <2>1 DEF Close, LeaveJob, Goto, Pcs, Holds, HoldPcs
<1> QED
  BY <1>2, <1>3, <1>4, <1>5 DEF command, faults

LEMMA ClaimLaunch == ASSUME IInv, NEW w \in Workers, Claim(w) PROVE LaunchInv'
<1>1. PICK k \in Jobs : /\ Exists("pending", k)
                        /\ Rename("pending", "running", k)
                        /\ job' = [job EXCEPT ![w] = k]
                        /\ Goto(w, "claimed")
                        /\ UNCHANGED <<group, exit, launches>>
  BY ClaimFacts
<1>2. ASSUME NEW j \in Jobs, (~Submitted(j) \/ Exists("pending", j))' PROVE Untouched(j)'
  <2>1. j # k
    BY <1>1, <1>2 DEF Rename, IInv, TypeOK, Submitted, Exists, Dirs, Absent
  <2>2. \A d \in Dirs : files'[d][j] = files[d][j]
    BY <2>1, <1>1, RenameOthers DEF IInv, Dirs
  <2> QED
    BY <2>2, <1>1, <1>2 DEF IInv, LaunchInv, Untouched, Submitted, Exists, Dirs
<1>3. ASSUME NEW v \in Workers, pc'[v] \in {"claimed", "launching"} PROVE Untouched(job[v])'
  BY <1>1, <1>3 DEF IInv, TypeOK, LaunchInv, Untouched, Goto
<1> QED
  BY <1>2, <1>3 DEF LaunchInv

LEMMA CloseLaunch == ASSUME IInv, NEW w \in Workers, Close(w) PROVE LaunchInv'
<1>1. /\ job[w] \in Jobs /\ verdict[w] \in {"done", "failed"}
      /\ files["running"][job[w]] = verdict[w]
      /\ Rename("running", verdict[w], job[w])
      /\ job' = [job EXCEPT ![w] = NoJob]
      /\ \E p \in {"idle", "stopped"} : Goto(w, p)
      /\ UNCHANGED <<group, exit, launches>>
  BY CloseFacts
<1>2. ASSUME NEW j \in Jobs, (~Submitted(j) \/ Exists("pending", j))' PROVE Untouched(j)'
  <2>1. files["pending"][job[w]] = Absent
    BY <1>1 DEF IInv, InOneDirectory, Exists, Dirs, Absent
  <2>2. /\ files'["pending"][job[w]] = Absent
        /\ files'[verdict[w]][job[w]] = verdict[w]
    BY <1>1, <2>1 DEF Rename, IInv, TypeOK, Dirs, Absent
  <2>3. j # job[w]
    BY <1>1, <1>2, <2>2 DEF Submitted, Exists, Dirs, Absent
  <2>4. \A d \in Dirs : files'[d][j] = files[d][j]
    BY <2>3, <1>1, RenameOthers DEF IInv, Dirs
  <2> QED
    BY <2>4, <1>1, <1>2 DEF IInv, LaunchInv, Untouched, Submitted, Exists, Dirs
<1>3. ASSUME NEW v \in Workers, pc'[v] \in {"claimed", "launching"} PROVE Untouched(job[v])'
  BY <1>1, <1>3 DEF IInv, TypeOK, LaunchInv, Untouched, Goto
<1> QED
  BY <1>2, <1>3 DEF LaunchInv

LEMMA ClaimVerdict == ASSUME IInv, NEW w \in Workers, Claim(w) PROVE VerdictIsTrue'
<1>1. PICK k \in Jobs : /\ Rename("pending", "running", k)
                        /\ UNCHANGED <<group, exit, launches>>
  BY ClaimFacts
<1>2. files'["done"] = files["done"] /\ files'["failed"] = files["failed"]
  BY <1>1 DEF Rename, IInv, TypeOK, Dirs
<1> QED
  BY <1>1, <1>2 DEF IInv, VerdictIsTrue, Exists

LEMMA CloseVerdict == ASSUME IInv, NEW w \in Workers, Close(w) PROVE VerdictIsTrue'
<1>0. /\ job[w] \in Jobs /\ verdict[w] \in {"done", "failed"}
      /\ files["running"][job[w]] = verdict[w]
      /\ Rename("running", verdict[w], job[w])
  BY CloseFacts
<1>1. SUFFICES ASSUME NEW j \in Jobs PROVE VerdictIsTrue!(j)'
  BY DEF VerdictIsTrue
<1>2. CASE j = job[w]
  <2>1. files["done"][j] = Absent /\ files["failed"][j] = Absent
    BY CloseFacts, <1>2 DEF IInv, InOneDirectory, Exists, Dirs, Absent
  <2>2. /\ "leader" \notin group[j]
        /\ verdict[w] = "done" => exit[j] = "zero"
    BY <1>2, CloseFacts DEF IInv, TruthInv
  <2>3. CASE verdict[w] = "done"
    <3>1. files'["done"][j] = "done" /\ files'["failed"][j] = Absent
      BY <2>1, <2>3, <1>2, <1>0 DEF Rename, IInv, TypeOK, Dirs
    <3> QED
      BY <3>1, <2>2, <2>3, CloseFacts DEF Exists, Absent
  <2>4. CASE verdict[w] = "failed"
    <3>1. files'["failed"][j] = "failed" /\ files'["done"][j] = Absent
      BY <2>1, <2>4, <1>2, <1>0 DEF Rename, IInv, TypeOK, Dirs
    <3> QED
      BY <3>1, <2>2, <2>4, CloseFacts DEF Exists, Absent
  <2> QED
    BY <2>3, <2>4, <1>0
<1>3. CASE j # job[w]
  <2>1. \A d \in Dirs : files'[d][j] = files[d][j]
    BY <1>3, CloseFacts, RenameOthers DEF IInv, Dirs
  <2> QED
    BY <2>1, CloseFacts DEF IInv, VerdictIsTrue, Exists, Dirs
<1> QED
  BY <1>2, <1>3
-----------------------------------------------------------------------------
(***************************************************************************)
(* Every action preserves every conjunct of the inductive invariant.       *)
(***************************************************************************)

LEMMA TypeStep == TypeOK /\ [Next]_vars => TypeOK'
<1> SUFFICES ASSUME TypeOK, [Next]_vars PROVE TypeOK'
  OBVIOUS
<1> USE NoJobAssumption, LimitAssumption, TimedAssumption
    DEF TypeOK, Holds, HoldPcs, Pcs, Dirs, Status, Absent
<1>1. ASSUME NEW j \in Jobs, Submit(j) PROVE TypeOK'
  BY <1>1 DEF Submit, Store, local, command, faults
<1>2. ASSUME NEW j \in Jobs, CommandForks(j) PROVE TypeOK'
  BY <1>2 DEF CommandForks, local, faults
<1>3. ASSUME NEW j \in Jobs, CommandExits(j) PROVE TypeOK'
  BY <1>3 DEF CommandExits, local, faults
<1>4. ASSUME NEW j \in Jobs, ChildExits(j) PROVE TypeOK'
  BY <1>4 DEF ChildExits, local, faults
<1>5. ASSUME NEW w \in Workers, Poll(w) PROVE TypeOK'
  BY <1>5 DEF Poll, At, Goto, command, faults
<1>6. ASSUME NEW w \in Workers, Claim(w) PROVE TypeOK'
  <2>1. PICK j \in Jobs : Rename("pending", "running", j) /\ TakeCandidate(w, j)
    BY <1>6 DEF Claim
  <2>2. files' \in [Dirs -> [Jobs -> Status \cup {Absent}]]
    <3>1. {"pending", "running"} \subseteq Dirs
      OBVIOUS
    <3> QED
      BY <2>1, <3>1, RenameType
  <2> QED
    BY <2>1, <2>2 DEF TakeCandidate, Goto, command, faults
<1>7. ASSUME NEW w \in Workers, ClaimFails(w) PROVE TypeOK'
  BY <1>7 DEF ClaimFails, Candidate, At, command, faults
<1>8. ASSUME NEW w \in Workers, NothingClaimed(w) PROVE TypeOK'
  BY <1>8 DEF NothingClaimed, At, Goto, local, command, faults
<1>9. ASSUME NEW w \in Workers, Reject(w) PROVE TypeOK'
  BY <1>9 DEF Reject, Decide, At, Goto, command, faults
<1>10. ASSUME NEW w \in Workers, Accept(w) PROVE TypeOK'
  BY <1>10 DEF Accept, Store, At, Goto, local, command, faults
<1>11. ASSUME NEW w \in Workers, Launch(w) PROVE TypeOK'
  BY <1>11 DEF Launch, At, Goto, local, faults
<1>12. ASSUME NEW w \in Workers, SeeExit(w) PROVE TypeOK'
  BY <1>12 DEF SeeExit, Decide, At, Goto, command, faults
<1>13. ASSUME NEW w \in Workers, SeeTimeout(w) PROVE TypeOK'
  BY <1>13 DEF SeeTimeout, At, Goto, local, command, faults
<1>14. ASSUME NEW w \in Workers, TerminateEnds(w) PROVE TypeOK'
  BY <1>14 DEF TerminateEnds, Decide, At, Goto, command, faults
<1>15. ASSUME NEW w \in Workers, GraceExpires(w) PROVE TypeOK'
  BY <1>15 DEF GraceExpires, At, Goto, local, command, faults
<1>16. ASSUME NEW w \in Workers, Kill(w) PROVE TypeOK'
  BY <1>16 DEF Kill, Decide, At, Goto, faults
<1>17. ASSUME NEW w \in Workers, StoreVerdict(w) PROVE TypeOK'
  BY <1>17 DEF StoreVerdict, Store, At, Goto, local, command, faults
<1>18. ASSUME NEW w \in Workers, Close(w) PROVE TypeOK'
  BY <1>18, CloseType
<1>19. ASSUME NEW w \in Workers, Crash(w) PROVE TypeOK'
  BY <1>19 DEF Crash, Goto, command
<1>20. ASSUME NEW w \in Workers, Restart(w) PROVE TypeOK'
  BY <1>20 DEF Restart, At, Goto, local, command, faults
<1>21. CASE UNCHANGED vars
  BY <1>21 DEF vars, local, command, faults
<1>22. QED
  BY <1>1, <1>2, <1>3, <1>4, <1>5, <1>6, <1>7, <1>8, <1>9, <1>10, <1>11,
     <1>12, <1>13, <1>14, <1>15, <1>16, <1>17, <1>18, <1>19, <1>20, <1>21
     DEF Next, Worker, RunJob

LEMMA DirectoryStep == IInv /\ [Next]_vars => InOneDirectory'
<1> SUFFICES ASSUME IInv, [Next]_vars PROVE InOneDirectory'
  OBVIOUS
<1> USE NoJobAssumption
    DEF IInv, InOneDirectory, HolderInv, Exists, Submitted, TypeOK, Holds, HoldPcs, Pcs, Dirs, Status, Absent
<1>1. ASSUME NEW j \in Jobs, Submit(j) PROVE InOneDirectory'
  BY <1>1 DEF Submit, Store, local, command, faults
<1>2. ASSUME NEW j \in Jobs, CommandForks(j) PROVE InOneDirectory'
  BY <1>2 DEF CommandForks, local, faults
<1>3. ASSUME NEW j \in Jobs, CommandExits(j) PROVE InOneDirectory'
  BY <1>3 DEF CommandExits, local, faults
<1>4. ASSUME NEW j \in Jobs, ChildExits(j) PROVE InOneDirectory'
  BY <1>4 DEF ChildExits, local, faults
<1>5. ASSUME NEW w \in Workers, Poll(w) PROVE InOneDirectory'
  BY <1>5 DEF Poll, At, Goto, command, faults
<1>6. ASSUME NEW w \in Workers, Claim(w) PROVE InOneDirectory'
  <2>1. PICK j \in Jobs : Exists("pending", j) /\ Rename("pending", "running", j)
    BY <1>6 DEF Claim
  <2>2. {"pending", "running"} \subseteq Dirs
    BY DEF Dirs
  <2> QED
    BY <2>1, <2>2, RenameAlone DEF IInv
<1>7. ASSUME NEW w \in Workers, ClaimFails(w) PROVE InOneDirectory'
  BY <1>7 DEF ClaimFails, Candidate, At, command, faults
<1>8. ASSUME NEW w \in Workers, NothingClaimed(w) PROVE InOneDirectory'
  BY <1>8 DEF NothingClaimed, At, Goto, local, command, faults
<1>9. ASSUME NEW w \in Workers, Reject(w) PROVE InOneDirectory'
  BY <1>9 DEF Reject, Decide, At, Goto, command, faults
<1>10. ASSUME NEW w \in Workers, Accept(w) PROVE InOneDirectory'
  BY <1>10 DEF Accept, Store, At, Goto, local, command, faults
<1>11. ASSUME NEW w \in Workers, Launch(w) PROVE InOneDirectory'
  BY <1>11 DEF Launch, At, Goto, local, faults
<1>12. ASSUME NEW w \in Workers, SeeExit(w) PROVE InOneDirectory'
  BY <1>12 DEF SeeExit, Decide, At, Goto, command, faults
<1>13. ASSUME NEW w \in Workers, SeeTimeout(w) PROVE InOneDirectory'
  BY <1>13 DEF SeeTimeout, At, Goto, local, command, faults
<1>14. ASSUME NEW w \in Workers, TerminateEnds(w) PROVE InOneDirectory'
  BY <1>14 DEF TerminateEnds, Decide, At, Goto, command, faults
<1>15. ASSUME NEW w \in Workers, GraceExpires(w) PROVE InOneDirectory'
  BY <1>15 DEF GraceExpires, At, Goto, local, command, faults
<1>16. ASSUME NEW w \in Workers, Kill(w) PROVE InOneDirectory'
  BY <1>16 DEF Kill, Decide, At, Goto, faults
<1>17. ASSUME NEW w \in Workers, StoreVerdict(w) PROVE InOneDirectory'
  BY <1>17 DEF StoreVerdict, Store, At, Goto, local, command, faults
<1>18. ASSUME NEW w \in Workers, Close(w) PROVE InOneDirectory'
  <2>1. /\ Rename("running", verdict[w], job[w]) /\ job[w] \in Jobs
        /\ verdict[w] \in {"done", "failed"} /\ files["running"][job[w]] = verdict[w]
    BY <1>18, CloseFacts
  <2>2. {"running", verdict[w]} \subseteq Dirs /\ Exists("running", job[w])
    BY <2>1 DEF Dirs, Exists, Absent
  <2>3. verdict[w] # "running"
    BY <2>1
  <2> HIDE DEF Exists, InOneDirectory, TypeOK, Dirs
  <2> QED
    BY <2>1, <2>2, <2>3, RenameAlone
<1>19. ASSUME NEW w \in Workers, Crash(w) PROVE InOneDirectory'
  BY <1>19 DEF Crash, Goto, command
<1>20. ASSUME NEW w \in Workers, Restart(w) PROVE InOneDirectory'
  BY <1>20 DEF Restart, At, Goto, local, command, faults
<1>21. CASE UNCHANGED vars
  BY <1>21 DEF vars, local, command, faults
<1>22. QED
  BY <1>1, <1>2, <1>3, <1>4, <1>5, <1>6, <1>7, <1>8, <1>9, <1>10, <1>11,
     <1>12, <1>13, <1>14, <1>15, <1>16, <1>17, <1>18, <1>19, <1>20, <1>21
     DEF Next, Worker, RunJob

LEMMA ExclusiveStep == IInv /\ [Next]_vars => ExclusiveClaim'
<1> SUFFICES ASSUME IInv, [Next]_vars PROVE ExclusiveClaim'
  OBVIOUS
<1> USE NoJobAssumption
    DEF IInv, InOneDirectory, HolderInv, ExclusiveClaim, Exists, Submitted, TypeOK, Holds, HoldPcs, Pcs, Dirs, Status, Absent
<1>1. ASSUME NEW j \in Jobs, Submit(j) PROVE ExclusiveClaim'
  BY <1>1 DEF Submit, Store, local, command, faults
<1>2. ASSUME NEW j \in Jobs, CommandForks(j) PROVE ExclusiveClaim'
  BY <1>2 DEF CommandForks, local, faults
<1>3. ASSUME NEW j \in Jobs, CommandExits(j) PROVE ExclusiveClaim'
  BY <1>3 DEF CommandExits, local, faults
<1>4. ASSUME NEW j \in Jobs, ChildExits(j) PROVE ExclusiveClaim'
  BY <1>4 DEF ChildExits, local, faults
<1>5. ASSUME NEW w \in Workers, Poll(w) PROVE ExclusiveClaim'
  BY <1>5 DEF Poll, At, Goto, command, faults
<1>6. ASSUME NEW w \in Workers, Claim(w) PROVE ExclusiveClaim'
  BY <1>6 DEF Claim, Candidate, TakeCandidate, Rename, At, Goto, command, faults
<1>7. ASSUME NEW w \in Workers, ClaimFails(w) PROVE ExclusiveClaim'
  BY <1>7 DEF ClaimFails, Candidate, At, command, faults
<1>8. ASSUME NEW w \in Workers, NothingClaimed(w) PROVE ExclusiveClaim'
  BY <1>8 DEF NothingClaimed, At, Goto, local, command, faults
<1>9. ASSUME NEW w \in Workers, Reject(w) PROVE ExclusiveClaim'
  BY <1>9 DEF Reject, Decide, At, Goto, command, faults
<1>10. ASSUME NEW w \in Workers, Accept(w) PROVE ExclusiveClaim'
  BY <1>10 DEF Accept, Store, At, Goto, local, command, faults
<1>11. ASSUME NEW w \in Workers, Launch(w) PROVE ExclusiveClaim'
  BY <1>11 DEF Launch, At, Goto, local, faults
<1>12. ASSUME NEW w \in Workers, SeeExit(w) PROVE ExclusiveClaim'
  BY <1>12 DEF SeeExit, Decide, At, Goto, command, faults
<1>13. ASSUME NEW w \in Workers, SeeTimeout(w) PROVE ExclusiveClaim'
  BY <1>13 DEF SeeTimeout, At, Goto, local, command, faults
<1>14. ASSUME NEW w \in Workers, TerminateEnds(w) PROVE ExclusiveClaim'
  BY <1>14 DEF TerminateEnds, Decide, At, Goto, command, faults
<1>15. ASSUME NEW w \in Workers, GraceExpires(w) PROVE ExclusiveClaim'
  BY <1>15 DEF GraceExpires, At, Goto, local, command, faults
<1>16. ASSUME NEW w \in Workers, Kill(w) PROVE ExclusiveClaim'
  BY <1>16 DEF Kill, Decide, At, Goto, faults
<1>17. ASSUME NEW w \in Workers, StoreVerdict(w) PROVE ExclusiveClaim'
  BY <1>17 DEF StoreVerdict, Store, At, Goto, local, command, faults
<1>18. ASSUME NEW w \in Workers, Close(w) PROVE ExclusiveClaim'
  BY <1>18 DEF Close, LeaveJob, Rename, At, Goto, command, faults
<1>19. ASSUME NEW w \in Workers, Crash(w) PROVE ExclusiveClaim'
  BY <1>19 DEF Crash, Goto, command
<1>20. ASSUME NEW w \in Workers, Restart(w) PROVE ExclusiveClaim'
  BY <1>20 DEF Restart, At, Goto, local, command, faults
<1>21. CASE UNCHANGED vars
  BY <1>21 DEF vars, local, command, faults
<1>22. QED
  BY <1>1, <1>2, <1>3, <1>4, <1>5, <1>6, <1>7, <1>8, <1>9, <1>10, <1>11,
     <1>12, <1>13, <1>14, <1>15, <1>16, <1>17, <1>18, <1>19, <1>20, <1>21
     DEF Next, Worker, RunJob

LEMMA HolderStep == IInv /\ [Next]_vars => HolderInv'
<1> SUFFICES ASSUME IInv, [Next]_vars PROVE HolderInv'
  OBVIOUS
<1> USE NoJobAssumption
    DEF IInv, InOneDirectory, HolderInv, ExclusiveClaim, Exists, Submitted, TypeOK, Holds, HoldPcs, Pcs, Dirs, Status, Absent
<1>1. ASSUME NEW j \in Jobs, Submit(j) PROVE HolderInv'
  BY <1>1 DEF Submit, Store, local, command, faults
<1>2. ASSUME NEW j \in Jobs, CommandForks(j) PROVE HolderInv'
  BY <1>2 DEF CommandForks, local, faults
<1>3. ASSUME NEW j \in Jobs, CommandExits(j) PROVE HolderInv'
  BY <1>3 DEF CommandExits, local, faults
<1>4. ASSUME NEW j \in Jobs, ChildExits(j) PROVE HolderInv'
  BY <1>4 DEF ChildExits, local, faults
<1>5. ASSUME NEW w \in Workers, Poll(w) PROVE HolderInv'
  BY <1>5 DEF Poll, At, Goto, command, faults
<1>6. ASSUME NEW w \in Workers, Claim(w) PROVE HolderInv'
  BY <1>6 DEF Claim, Candidate, TakeCandidate, Rename, At, Goto, command, faults
<1>7. ASSUME NEW w \in Workers, ClaimFails(w) PROVE HolderInv'
  BY <1>7 DEF ClaimFails, Candidate, At, command, faults
<1>8. ASSUME NEW w \in Workers, NothingClaimed(w) PROVE HolderInv'
  BY <1>8 DEF NothingClaimed, At, Goto, local, command, faults
<1>9. ASSUME NEW w \in Workers, Reject(w) PROVE HolderInv'
  BY <1>9 DEF Reject, Decide, At, Goto, command, faults
<1>10. ASSUME NEW w \in Workers, Accept(w) PROVE HolderInv'
  BY <1>10 DEF Accept, Store, At, Goto, local, command, faults
<1>11. ASSUME NEW w \in Workers, Launch(w) PROVE HolderInv'
  BY <1>11 DEF Launch, At, Goto, local, faults
<1>12. ASSUME NEW w \in Workers, SeeExit(w) PROVE HolderInv'
  BY <1>12 DEF SeeExit, Decide, At, Goto, command, faults
<1>13. ASSUME NEW w \in Workers, SeeTimeout(w) PROVE HolderInv'
  BY <1>13 DEF SeeTimeout, At, Goto, local, command, faults
<1>14. ASSUME NEW w \in Workers, TerminateEnds(w) PROVE HolderInv'
  BY <1>14 DEF TerminateEnds, Decide, At, Goto, command, faults
<1>15. ASSUME NEW w \in Workers, GraceExpires(w) PROVE HolderInv'
  BY <1>15 DEF GraceExpires, At, Goto, local, command, faults
<1>16. ASSUME NEW w \in Workers, Kill(w) PROVE HolderInv'
  BY <1>16 DEF Kill, Decide, At, Goto, faults
<1>17. ASSUME NEW w \in Workers, StoreVerdict(w) PROVE HolderInv'
  BY <1>17 DEF StoreVerdict, Store, At, Goto, local, command, faults
<1>18. ASSUME NEW w \in Workers, Close(w) PROVE HolderInv'
  BY <1>18 DEF Close, LeaveJob, Rename, At, Goto, command, faults
<1>19. ASSUME NEW w \in Workers, Crash(w) PROVE HolderInv'
  BY <1>19 DEF Crash, Goto, command
<1>20. ASSUME NEW w \in Workers, Restart(w) PROVE HolderInv'
  BY <1>20 DEF Restart, At, Goto, local, command, faults
<1>21. CASE UNCHANGED vars
  BY <1>21 DEF vars, local, command, faults
<1>22. QED
  BY <1>1, <1>2, <1>3, <1>4, <1>5, <1>6, <1>7, <1>8, <1>9, <1>10, <1>11,
     <1>12, <1>13, <1>14, <1>15, <1>16, <1>17, <1>18, <1>19, <1>20, <1>21
     DEF Next, Worker, RunJob

LEMMA LaunchStep == IInv /\ [Next]_vars => LaunchInv'
<1> SUFFICES ASSUME IInv, [Next]_vars PROVE LaunchInv'
  OBVIOUS
<1> USE NoJobAssumption
    DEF IInv, InOneDirectory, HolderInv, ExclusiveClaim, LaunchInv, Untouched, Exists, Submitted, TypeOK, Holds, HoldPcs, Pcs, Dirs, Status, Absent
<1>1. ASSUME NEW j \in Jobs, Submit(j) PROVE LaunchInv'
  BY <1>1 DEF Submit, Store, local, command, faults
<1>2. ASSUME NEW j \in Jobs, CommandForks(j) PROVE LaunchInv'
  BY <1>2 DEF CommandForks, local, faults
<1>3. ASSUME NEW j \in Jobs, CommandExits(j) PROVE LaunchInv'
  BY <1>3 DEF CommandExits, local, faults
<1>4. ASSUME NEW j \in Jobs, ChildExits(j) PROVE LaunchInv'
  BY <1>4 DEF ChildExits, local, faults
<1>5. ASSUME NEW w \in Workers, Poll(w) PROVE LaunchInv'
  BY <1>5 DEF Poll, At, Goto, command, faults
<1>6. ASSUME NEW w \in Workers, Claim(w) PROVE LaunchInv'
  BY <1>6, ClaimLaunch
<1>7. ASSUME NEW w \in Workers, ClaimFails(w) PROVE LaunchInv'
  BY <1>7 DEF ClaimFails, Candidate, At, command, faults
<1>8. ASSUME NEW w \in Workers, NothingClaimed(w) PROVE LaunchInv'
  BY <1>8 DEF NothingClaimed, At, Goto, local, command, faults
<1>9. ASSUME NEW w \in Workers, Reject(w) PROVE LaunchInv'
  BY <1>9 DEF Reject, Decide, At, Goto, command, faults
<1>10. ASSUME NEW w \in Workers, Accept(w) PROVE LaunchInv'
  BY <1>10 DEF Accept, Store, At, Goto, local, command, faults
<1>11. ASSUME NEW w \in Workers, Launch(w) PROVE LaunchInv'
  BY <1>11 DEF Launch, At, Goto, local, faults
<1>12. ASSUME NEW w \in Workers, SeeExit(w) PROVE LaunchInv'
  BY <1>12 DEF SeeExit, Decide, At, Goto, command, faults
<1>13. ASSUME NEW w \in Workers, SeeTimeout(w) PROVE LaunchInv'
  BY <1>13 DEF SeeTimeout, At, Goto, local, command, faults
<1>14. ASSUME NEW w \in Workers, TerminateEnds(w) PROVE LaunchInv'
  BY <1>14 DEF TerminateEnds, Decide, At, Goto, command, faults
<1>15. ASSUME NEW w \in Workers, GraceExpires(w) PROVE LaunchInv'
  BY <1>15 DEF GraceExpires, At, Goto, local, command, faults
<1>16. ASSUME NEW w \in Workers, Kill(w) PROVE LaunchInv'
  BY <1>16 DEF Kill, Decide, At, Goto, faults
<1>17. ASSUME NEW w \in Workers, StoreVerdict(w) PROVE LaunchInv'
  BY <1>17 DEF StoreVerdict, Store, At, Goto, local, command, faults
<1>18. ASSUME NEW w \in Workers, Close(w) PROVE LaunchInv'
  BY <1>18, CloseLaunch
<1>19. ASSUME NEW w \in Workers, Crash(w) PROVE LaunchInv'
  BY <1>19 DEF Crash, Goto, command
<1>20. ASSUME NEW w \in Workers, Restart(w) PROVE LaunchInv'
  BY <1>20 DEF Restart, At, Goto, local, command, faults
<1>21. CASE UNCHANGED vars
  BY <1>21 DEF vars, local, command, faults
<1>22. QED
  BY <1>1, <1>2, <1>3, <1>4, <1>5, <1>6, <1>7, <1>8, <1>9, <1>10, <1>11,
     <1>12, <1>13, <1>14, <1>15, <1>16, <1>17, <1>18, <1>19, <1>20, <1>21
     DEF Next, Worker, RunJob

LEMMA LeaderStep == IInv /\ [Next]_vars => LeaderInv'
<1> SUFFICES ASSUME IInv, [Next]_vars PROVE LeaderInv'
  OBVIOUS
<1> USE NoJobAssumption
    DEF IInv, HolderInv, ExclusiveClaim, LaunchInv, LeaderInv, Untouched, Exists, Submitted, TypeOK, Holds, HoldPcs, Pcs, Dirs, Status, Absent
<1>1. ASSUME NEW j \in Jobs, Submit(j) PROVE LeaderInv'
  BY <1>1 DEF Submit, Store, local, command, faults
<1>2. ASSUME NEW j \in Jobs, CommandForks(j) PROVE LeaderInv'
  BY <1>2 DEF CommandForks, local, faults
<1>3. ASSUME NEW j \in Jobs, CommandExits(j) PROVE LeaderInv'
  BY <1>3 DEF CommandExits, local, faults
<1>4. ASSUME NEW j \in Jobs, ChildExits(j) PROVE LeaderInv'
  BY <1>4 DEF ChildExits, local, faults
<1>5. ASSUME NEW w \in Workers, Poll(w) PROVE LeaderInv'
  BY <1>5 DEF Poll, At, Goto, command, faults
<1>6. ASSUME NEW w \in Workers, Claim(w) PROVE LeaderInv'
  BY <1>6 DEF Claim, Candidate, TakeCandidate, Rename, At, Goto, command, faults
<1>7. ASSUME NEW w \in Workers, ClaimFails(w) PROVE LeaderInv'
  BY <1>7 DEF ClaimFails, Candidate, At, command, faults
<1>8. ASSUME NEW w \in Workers, NothingClaimed(w) PROVE LeaderInv'
  BY <1>8 DEF NothingClaimed, At, Goto, local, command, faults
<1>9. ASSUME NEW w \in Workers, Reject(w) PROVE LeaderInv'
  BY <1>9 DEF Reject, Decide, At, Goto, command, faults
<1>10. ASSUME NEW w \in Workers, Accept(w) PROVE LeaderInv'
  BY <1>10 DEF Accept, Store, At, Goto, local, command, faults
<1>11. ASSUME NEW w \in Workers, Launch(w) PROVE LeaderInv'
  BY <1>11 DEF Launch, At, Goto, local, faults
<1>12. ASSUME NEW w \in Workers, SeeExit(w) PROVE LeaderInv'
  BY <1>12 DEF SeeExit, Decide, At, Goto, command, faults
<1>13. ASSUME NEW w \in Workers, SeeTimeout(w) PROVE LeaderInv'
  BY <1>13 DEF SeeTimeout, At, Goto, local, command, faults
<1>14. ASSUME NEW w \in Workers, TerminateEnds(w) PROVE LeaderInv'
  BY <1>14 DEF TerminateEnds, Decide, At, Goto, command, faults
<1>15. ASSUME NEW w \in Workers, GraceExpires(w) PROVE LeaderInv'
  BY <1>15 DEF GraceExpires, At, Goto, local, command, faults
<1>16. ASSUME NEW w \in Workers, Kill(w) PROVE LeaderInv'
  BY <1>16 DEF Kill, Decide, At, Goto, faults
<1>17. ASSUME NEW w \in Workers, StoreVerdict(w) PROVE LeaderInv'
  BY <1>17 DEF StoreVerdict, Store, At, Goto, local, command, faults
<1>18. ASSUME NEW w \in Workers, Close(w) PROVE LeaderInv'
  BY <1>18 DEF Close, LeaveJob, Rename, At, Goto, command, faults
<1>19. ASSUME NEW w \in Workers, Crash(w) PROVE LeaderInv'
  BY <1>19 DEF Crash, Goto, command
<1>20. ASSUME NEW w \in Workers, Restart(w) PROVE LeaderInv'
  BY <1>20 DEF Restart, At, Goto, local, command, faults
<1>21. CASE UNCHANGED vars
  BY <1>21 DEF vars, local, command, faults
<1>22. QED
  BY <1>1, <1>2, <1>3, <1>4, <1>5, <1>6, <1>7, <1>8, <1>9, <1>10, <1>11,
     <1>12, <1>13, <1>14, <1>15, <1>16, <1>17, <1>18, <1>19, <1>20, <1>21
     DEF Next, Worker, RunJob

LEMMA TruthStep == IInv /\ [Next]_vars => TruthInv'
<1> SUFFICES ASSUME IInv, [Next]_vars PROVE TruthInv'
  OBVIOUS
<1> USE NoJobAssumption
    DEF IInv, InOneDirectory, HolderInv, ExclusiveClaim, LaunchInv, LeaderInv, TruthInv, Untouched, At, Exists, Submitted, TypeOK, Holds, HoldPcs, Pcs, Dirs, Status, Absent
<1>1. ASSUME NEW j \in Jobs, Submit(j) PROVE TruthInv'
  BY <1>1 DEF Submit, Store, local, command, faults
<1>2. ASSUME NEW j \in Jobs, CommandForks(j) PROVE TruthInv'
  BY <1>2 DEF CommandForks, local, faults
<1>3. ASSUME NEW j \in Jobs, CommandExits(j) PROVE TruthInv'
  BY <1>3 DEF CommandExits, local, faults
<1>4. ASSUME NEW j \in Jobs, ChildExits(j) PROVE TruthInv'
  BY <1>4 DEF ChildExits, local, faults
<1>5. ASSUME NEW w \in Workers, Poll(w) PROVE TruthInv'
  BY <1>5 DEF Poll, At, Goto, command, faults
<1>6. ASSUME NEW w \in Workers, Claim(w) PROVE TruthInv'
  BY <1>6 DEF Claim, Candidate, TakeCandidate, Rename, At, Goto, command, faults
<1>7. ASSUME NEW w \in Workers, ClaimFails(w) PROVE TruthInv'
  BY <1>7 DEF ClaimFails, Candidate, At, command, faults
<1>8. ASSUME NEW w \in Workers, NothingClaimed(w) PROVE TruthInv'
  BY <1>8 DEF NothingClaimed, At, Goto, local, command, faults
<1>9. ASSUME NEW w \in Workers, Reject(w) PROVE TruthInv'
  BY <1>9 DEF Reject, Decide, At, Goto, command, faults
<1>10. ASSUME NEW w \in Workers, Accept(w) PROVE TruthInv'
  BY <1>10 DEF Accept, Store, At, Goto, local, command, faults
<1>11. ASSUME NEW w \in Workers, Launch(w) PROVE TruthInv'
  BY <1>11 DEF Launch, At, Goto, local, faults
<1>12. ASSUME NEW w \in Workers, SeeExit(w) PROVE TruthInv'
  BY <1>12 DEF SeeExit, Decide, At, Goto, command, faults
<1>13. ASSUME NEW w \in Workers, SeeTimeout(w) PROVE TruthInv'
  BY <1>13 DEF SeeTimeout, At, Goto, local, command, faults
<1>14. ASSUME NEW w \in Workers, TerminateEnds(w) PROVE TruthInv'
  BY <1>14 DEF TerminateEnds, Decide, At, Goto, command, faults
<1>15. ASSUME NEW w \in Workers, GraceExpires(w) PROVE TruthInv'
  BY <1>15 DEF GraceExpires, At, Goto, local, command, faults
<1>16. ASSUME NEW w \in Workers, Kill(w) PROVE TruthInv'
  BY <1>16 DEF Kill, Decide, At, Goto, faults
<1>17. ASSUME NEW w \in Workers, StoreVerdict(w) PROVE TruthInv'
  BY <1>17 DEF StoreVerdict, Store, At, Goto, local, command, faults
<1>18. ASSUME NEW w \in Workers, Close(w) PROVE TruthInv'
  BY <1>18 DEF Close, LeaveJob, Rename, At, Goto, command, faults
<1>19. ASSUME NEW w \in Workers, Crash(w) PROVE TruthInv'
  BY <1>19 DEF Crash, Goto, command
<1>20. ASSUME NEW w \in Workers, Restart(w) PROVE TruthInv'
  BY <1>20 DEF Restart, At, Goto, local, command, faults
<1>21. CASE UNCHANGED vars
  BY <1>21 DEF vars, local, command, faults
<1>22. QED
  BY <1>1, <1>2, <1>3, <1>4, <1>5, <1>6, <1>7, <1>8, <1>9, <1>10, <1>11,
     <1>12, <1>13, <1>14, <1>15, <1>16, <1>17, <1>18, <1>19, <1>20, <1>21
     DEF Next, Worker, RunJob

LEMMA VerdictStep == IInv /\ [Next]_vars => VerdictIsTrue'
<1> SUFFICES ASSUME IInv, [Next]_vars PROVE VerdictIsTrue'
  OBVIOUS
<1> USE NoJobAssumption
    DEF IInv, InOneDirectory, HolderInv, LaunchInv, VerdictIsTrue, Untouched, Exists, Submitted, TypeOK, Holds, HoldPcs, Pcs, Dirs, Status, Absent
<1>1. ASSUME NEW j \in Jobs, Submit(j) PROVE VerdictIsTrue'
  BY <1>1 DEF Submit, Store, local, command, faults
<1>2. ASSUME NEW j \in Jobs, CommandForks(j) PROVE VerdictIsTrue'
  BY <1>2 DEF CommandForks, local, faults
<1>3. ASSUME NEW j \in Jobs, CommandExits(j) PROVE VerdictIsTrue'
  BY <1>3 DEF CommandExits, local, faults
<1>4. ASSUME NEW j \in Jobs, ChildExits(j) PROVE VerdictIsTrue'
  BY <1>4 DEF ChildExits, local, faults
<1>5. ASSUME NEW w \in Workers, Poll(w) PROVE VerdictIsTrue'
  BY <1>5 DEF Poll, At, Goto, command, faults
<1>6. ASSUME NEW w \in Workers, Claim(w) PROVE VerdictIsTrue'
  BY <1>6, ClaimVerdict
<1>7. ASSUME NEW w \in Workers, ClaimFails(w) PROVE VerdictIsTrue'
  BY <1>7 DEF ClaimFails, Candidate, At, command, faults
<1>8. ASSUME NEW w \in Workers, NothingClaimed(w) PROVE VerdictIsTrue'
  BY <1>8 DEF NothingClaimed, At, Goto, local, command, faults
<1>9. ASSUME NEW w \in Workers, Reject(w) PROVE VerdictIsTrue'
  BY <1>9 DEF Reject, Decide, At, Goto, command, faults
<1>10. ASSUME NEW w \in Workers, Accept(w) PROVE VerdictIsTrue'
  BY <1>10 DEF Accept, Store, At, Goto, local, command, faults
<1>11. ASSUME NEW w \in Workers, Launch(w) PROVE VerdictIsTrue'
  BY <1>11 DEF Launch, At, Goto, local, faults
<1>12. ASSUME NEW w \in Workers, SeeExit(w) PROVE VerdictIsTrue'
  BY <1>12 DEF SeeExit, Decide, At, Goto, command, faults
<1>13. ASSUME NEW w \in Workers, SeeTimeout(w) PROVE VerdictIsTrue'
  BY <1>13 DEF SeeTimeout, At, Goto, local, command, faults
<1>14. ASSUME NEW w \in Workers, TerminateEnds(w) PROVE VerdictIsTrue'
  BY <1>14 DEF TerminateEnds, Decide, At, Goto, command, faults
<1>15. ASSUME NEW w \in Workers, GraceExpires(w) PROVE VerdictIsTrue'
  BY <1>15 DEF GraceExpires, At, Goto, local, command, faults
<1>16. ASSUME NEW w \in Workers, Kill(w) PROVE VerdictIsTrue'
  BY <1>16 DEF Kill, Decide, At, Goto, faults
<1>17. ASSUME NEW w \in Workers, StoreVerdict(w) PROVE VerdictIsTrue'
  BY <1>17 DEF StoreVerdict, Store, At, Goto, local, command, faults
<1>18. ASSUME NEW w \in Workers, Close(w) PROVE VerdictIsTrue'
  BY <1>18, CloseVerdict
<1>19. ASSUME NEW w \in Workers, Crash(w) PROVE VerdictIsTrue'
  BY <1>19 DEF Crash, Goto, command
<1>20. ASSUME NEW w \in Workers, Restart(w) PROVE VerdictIsTrue'
  BY <1>20 DEF Restart, At, Goto, local, command, faults
<1>21. CASE UNCHANGED vars
  BY <1>21 DEF vars, local, command, faults
<1>22. QED
  BY <1>1, <1>2, <1>3, <1>4, <1>5, <1>6, <1>7, <1>8, <1>9, <1>10, <1>11,
     <1>12, <1>13, <1>14, <1>15, <1>16, <1>17, <1>18, <1>19, <1>20, <1>21
     DEF Next, Worker, RunJob

-----------------------------------------------------------------------------

LEMMA CloseOrphans ==
  ASSUME IInv, OrphansOnlyByCrash, NEW w \in Workers, Close(w) PROVE OrphansOnlyByCrash'
<1>1. SUFFICES ASSUME NEW j \in Jobs, "leader" \in group[j] PROVE OrphansOnlyByCrash!(j)'
  BY CloseFacts DEF OrphansOnlyByCrash
<1>2. j # job[w]
  BY <1>1, CloseFacts DEF IInv, TruthInv
<1>3. abandoned' = abandoned
  BY DEF Close, LeaveJob, faults
<1>4. \A v \in Workers : job[v] = j => v # w /\ job'[v] = j /\ pc'[v] = pc[v]
  BY <1>2, CloseFacts DEF IInv, TypeOK, Goto
<1> QED
  BY <1>1, <1>3, <1>4 DEF OrphansOnlyByCrash, At


LEMMA StuckStep == IInv /\ StuckOnlyByCrash /\ [Next]_vars => StuckOnlyByCrash'
<1> SUFFICES ASSUME IInv, StuckOnlyByCrash, [Next]_vars PROVE StuckOnlyByCrash'
  OBVIOUS
<1> USE NoJobAssumption
    DEF IInv, HolderInv, ExclusiveClaim, StuckOnlyByCrash, At, Exists, Submitted, TypeOK, Holds, HoldPcs, Pcs, Dirs, Status, Absent
<1>1. ASSUME NEW j \in Jobs, Submit(j) PROVE StuckOnlyByCrash'
  BY <1>1 DEF Submit, Store, local, command, faults
<1>2. ASSUME NEW j \in Jobs, CommandForks(j) PROVE StuckOnlyByCrash'
  BY <1>2 DEF CommandForks, local, faults
<1>3. ASSUME NEW j \in Jobs, CommandExits(j) PROVE StuckOnlyByCrash'
  BY <1>3 DEF CommandExits, local, faults
<1>4. ASSUME NEW j \in Jobs, ChildExits(j) PROVE StuckOnlyByCrash'
  BY <1>4 DEF ChildExits, local, faults
<1>5. ASSUME NEW w \in Workers, Poll(w) PROVE StuckOnlyByCrash'
  BY <1>5 DEF Poll, At, Goto, command, faults
<1>6. ASSUME NEW w \in Workers, Claim(w) PROVE StuckOnlyByCrash'
  <2>1. PICK k \in Jobs : /\ Rename("pending", "running", k)
                          /\ job' = [job EXCEPT ![w] = k] /\ Goto(w, "claimed")
                          /\ UNCHANGED abandoned /\ ~Holds(w)
    BY <1>6 DEF Claim, Candidate, TakeCandidate, faults, At
  <2>2. job'[w] = k /\ pc'[w] = "claimed"
    BY <2>1 DEF Goto
  <2>3. \A v \in Workers : v # w => job'[v] = job[v] /\ pc'[v] = pc[v]
    BY <2>1 DEF Goto
  <2>4. \A j \in Jobs : j # k => files'["running"][j] = files["running"][j]
    BY <2>1, RenameOthers
  <2> QED
    BY <2>1, <2>2, <2>3, <2>4
<1>7. ASSUME NEW w \in Workers, ClaimFails(w) PROVE StuckOnlyByCrash'
  BY <1>7 DEF ClaimFails, Candidate, At, command, faults
<1>8. ASSUME NEW w \in Workers, NothingClaimed(w) PROVE StuckOnlyByCrash'
  BY <1>8 DEF NothingClaimed, At, Goto, local, command, faults
<1>9. ASSUME NEW w \in Workers, Reject(w) PROVE StuckOnlyByCrash'
  BY <1>9 DEF Reject, Decide, At, Goto, command, faults
<1>10. ASSUME NEW w \in Workers, Accept(w) PROVE StuckOnlyByCrash'
  BY <1>10 DEF Accept, Store, At, Goto, local, command, faults
<1>11. ASSUME NEW w \in Workers, Launch(w) PROVE StuckOnlyByCrash'
  BY <1>11 DEF Launch, At, Goto, local, faults
<1>12. ASSUME NEW w \in Workers, SeeExit(w) PROVE StuckOnlyByCrash'
  BY <1>12 DEF SeeExit, Decide, At, Goto, command, faults
<1>13. ASSUME NEW w \in Workers, SeeTimeout(w) PROVE StuckOnlyByCrash'
  BY <1>13 DEF SeeTimeout, At, Goto, local, command, faults
<1>14. ASSUME NEW w \in Workers, TerminateEnds(w) PROVE StuckOnlyByCrash'
  BY <1>14 DEF TerminateEnds, Decide, At, Goto, command, faults
<1>15. ASSUME NEW w \in Workers, GraceExpires(w) PROVE StuckOnlyByCrash'
  BY <1>15 DEF GraceExpires, At, Goto, local, command, faults
<1>16. ASSUME NEW w \in Workers, Kill(w) PROVE StuckOnlyByCrash'
  BY <1>16 DEF Kill, Decide, At, Goto, faults
<1>17. ASSUME NEW w \in Workers, StoreVerdict(w) PROVE StuckOnlyByCrash'
  BY <1>17 DEF StoreVerdict, Store, At, Goto, local, command, faults
<1>18. ASSUME NEW w \in Workers, Close(w) PROVE StuckOnlyByCrash'
  <2>1. /\ Rename("running", verdict[w], job[w]) /\ job[w] \in Jobs
        /\ verdict[w] \in {"done", "failed"}
    BY <1>18, CloseFacts
  <2>2. files'["running"][job[w]] = Absent
    BY <2>1 DEF Rename
  <2>3. \A j \in Jobs : j # job[w] => files'["running"][j] = files["running"][j]
    BY <2>1, RenameOthers
  <2>4. \A v \in Workers : v # w => job'[v] = job[v] /\ pc'[v] = pc[v]
    BY <1>18, CloseFacts DEF Goto
  <2>5. UNCHANGED abandoned
    BY <1>18 DEF Close, LeaveJob, faults
  <2> QED
    BY <2>2, <2>3, <2>4, <2>5, SMTT(30)
<1>19. ASSUME NEW w \in Workers, Crash(w) PROVE StuckOnlyByCrash'
  BY <1>19 DEF Crash, Goto, command
<1>20. ASSUME NEW w \in Workers, Restart(w) PROVE StuckOnlyByCrash'
  BY <1>20 DEF Restart, At, Goto, local, command, faults
<1>21. CASE UNCHANGED vars
  BY <1>21 DEF vars, local, command, faults
<1>22. QED
  BY <1>1, <1>2, <1>3, <1>4, <1>5, <1>6, <1>7, <1>8, <1>9, <1>10, <1>11,
     <1>12, <1>13, <1>14, <1>15, <1>16, <1>17, <1>18, <1>19, <1>20, <1>21
     DEF Next, Worker, RunJob

LEMMA OrphanStep == IInv /\ OrphansOnlyByCrash /\ [Next]_vars => OrphansOnlyByCrash'
<1> SUFFICES ASSUME IInv, OrphansOnlyByCrash, [Next]_vars PROVE OrphansOnlyByCrash'
  OBVIOUS
<1> USE NoJobAssumption
    DEF IInv, HolderInv, ExclusiveClaim, LaunchInv, LeaderInv, TruthInv, Untouched, OrphansOnlyByCrash, At, Exists, Submitted, TypeOK, Holds, HoldPcs, Pcs, Dirs, Status, Absent
<1>1. ASSUME NEW j \in Jobs, Submit(j) PROVE OrphansOnlyByCrash'
  BY <1>1 DEF Submit, Store, local, command, faults
<1>2. ASSUME NEW j \in Jobs, CommandForks(j) PROVE OrphansOnlyByCrash'
  BY <1>2 DEF CommandForks, local, faults
<1>3. ASSUME NEW j \in Jobs, CommandExits(j) PROVE OrphansOnlyByCrash'
  BY <1>3 DEF CommandExits, local, faults
<1>4. ASSUME NEW j \in Jobs, ChildExits(j) PROVE OrphansOnlyByCrash'
  BY <1>4 DEF ChildExits, local, faults
<1>5. ASSUME NEW w \in Workers, Poll(w) PROVE OrphansOnlyByCrash'
  BY <1>5 DEF Poll, At, Goto, command, faults
<1>6. ASSUME NEW w \in Workers, Claim(w) PROVE OrphansOnlyByCrash'
  BY <1>6 DEF Claim, Candidate, TakeCandidate, Rename, At, Goto, command, faults
<1>7. ASSUME NEW w \in Workers, ClaimFails(w) PROVE OrphansOnlyByCrash'
  BY <1>7 DEF ClaimFails, Candidate, At, command, faults
<1>8. ASSUME NEW w \in Workers, NothingClaimed(w) PROVE OrphansOnlyByCrash'
  BY <1>8 DEF NothingClaimed, At, Goto, local, command, faults
<1>9. ASSUME NEW w \in Workers, Reject(w) PROVE OrphansOnlyByCrash'
  BY <1>9 DEF Reject, Decide, At, Goto, command, faults
<1>10. ASSUME NEW w \in Workers, Accept(w) PROVE OrphansOnlyByCrash'
  BY <1>10 DEF Accept, Store, At, Goto, local, command, faults
<1>11. ASSUME NEW w \in Workers, Launch(w) PROVE OrphansOnlyByCrash'
  BY <1>11 DEF Launch, At, Goto, local, faults
<1>12. ASSUME NEW w \in Workers, SeeExit(w) PROVE OrphansOnlyByCrash'
  BY <1>12 DEF SeeExit, Decide, At, Goto, command, faults
<1>13. ASSUME NEW w \in Workers, SeeTimeout(w) PROVE OrphansOnlyByCrash'
  BY <1>13 DEF SeeTimeout, At, Goto, local, command, faults
<1>14. ASSUME NEW w \in Workers, TerminateEnds(w) PROVE OrphansOnlyByCrash'
  BY <1>14 DEF TerminateEnds, Decide, At, Goto, command, faults
<1>15. ASSUME NEW w \in Workers, GraceExpires(w) PROVE OrphansOnlyByCrash'
  BY <1>15 DEF GraceExpires, At, Goto, local, command, faults
<1>16. ASSUME NEW w \in Workers, Kill(w) PROVE OrphansOnlyByCrash'
  BY <1>16 DEF Kill, Decide, At, Goto, faults
<1>17. ASSUME NEW w \in Workers, StoreVerdict(w) PROVE OrphansOnlyByCrash'
  BY <1>17 DEF StoreVerdict, Store, At, Goto, local, command, faults
<1>18. ASSUME NEW w \in Workers, Close(w) PROVE OrphansOnlyByCrash'
  BY <1>18, CloseOrphans
<1>19. ASSUME NEW w \in Workers, Crash(w) PROVE OrphansOnlyByCrash'
  BY <1>19 DEF Crash, Goto, command
<1>20. ASSUME NEW w \in Workers, Restart(w) PROVE OrphansOnlyByCrash'
  BY <1>20 DEF Restart, At, Goto, local, command, faults
<1>21. CASE UNCHANGED vars
  BY <1>21 DEF vars, local, command, faults
<1>22. QED
  BY <1>1, <1>2, <1>3, <1>4, <1>5, <1>6, <1>7, <1>8, <1>9, <1>10, <1>11,
     <1>12, <1>13, <1>14, <1>15, <1>16, <1>17, <1>18, <1>19, <1>20, <1>21
     DEF Next, Worker, RunJob
-----------------------------------------------------------------------------

LEMMA Initially == Init => IInv /\ StuckOnlyByCrash /\ OrphansOnlyByCrash
BY LimitAssumption, NoJobAssumption
   DEF Init, IInv, TypeOK, InOneDirectory, ExclusiveClaim, HolderInv, LaunchInv, LeaderInv,
       TruthInv, VerdictIsTrue, StuckOnlyByCrash, OrphansOnlyByCrash, Untouched, Exists,
       Submitted, At, Holds, HoldPcs, Pcs, Dirs, Status, Absent

LEMMA Inductive == IInv /\ [Next]_vars => IInv'
BY TypeStep, DirectoryStep, ExclusiveStep, HolderStep, LaunchStep, LeaderStep, TruthStep,
   VerdictStep DEF IInv

\* The inductive invariant holds in every reachable state.
THEOREM Invariance == Spec => []IInv
BY Initially, Inductive, PTL DEF Spec

\* Every variable of the queue keeps its type.
THEOREM TypeCorrect == Spec => []TypeOK
BY Invariance, PTL DEF IInv

(***************************************************************************)
(* The safety of the queue: a file is in one directory, a job has one      *)
(* worker, a command is started at most once, a final status is true.      *)
(***************************************************************************)
THEOREM QueueSafe ==
  Spec => [](InOneDirectory /\ ExclusiveClaim /\ StartedAtMostOnce /\ VerdictIsTrue)
<1>1. IInv => InOneDirectory /\ ExclusiveClaim /\ StartedAtMostOnce /\ VerdictIsTrue
  BY DEF IInv, LeaderInv, StartedAtMostOnce
<1> QED
  BY <1>1, Invariance, PTL

\* A job is in at most one of the four directories, between any two renames.
THEOREM OneDirectory == Spec => []InOneDirectory
BY QueueSafe, PTL

\* done/ and failed/ tell the truth about how the command ended.
THEOREM VerdictsAreTrue == Spec => []VerdictIsTrue
BY QueueSafe, PTL

(***************************************************************************)
(* A job is stuck in running/, or its command runs unattended, only if a   *)
(* worker crashed on it.                                                   *)
(***************************************************************************)
THEOREM OnlyCrashesStrand == Spec => [](StuckOnlyByCrash /\ OrphansOnlyByCrash)
BY Initially, StuckStep, OrphanStep, Invariance, PTL DEF Spec
-----------------------------------------------------------------------------
(***************************************************************************)
(* What any step does to the files and to the history of launches.         *)
(***************************************************************************)
SubmitFile(j) == ~Submitted(j) /\ Store("pending", j, "pending")
ClaimFile(j) == Exists("pending", j) /\ Rename("pending", "running", j)
UpdateFile(j) == Exists("running", j) /\ \E s \in Status : Store("running", j, s)
CloseFile(j, d) == /\ files["running"][j] = d
                   /\ d = "done" => launches[j] # 0
                   /\ Rename("running", d, j)
LaunchJob(j) == /\ Exists("running", j)
                /\ launches[j] = 0
                /\ launches' = [launches EXCEPT ![j] = 1]

LEMMA FileStep ==
  ASSUME IInv, [Next]_vars
  PROVE  \/ UNCHANGED <<files, launches>>
         \/ UNCHANGED files /\ \E j \in Jobs : LaunchJob(j)
         \/ UNCHANGED launches /\ \E j \in Jobs : \/ SubmitFile(j)
                                                 \/ ClaimFile(j)
                                                 \/ UpdateFile(j)
                                                 \/ \E d \in {"done", "failed"} : CloseFile(j, d)
<1> DEFINE Goal == \/ UNCHANGED <<files, launches>>
                   \/ UNCHANGED files /\ \E j \in Jobs : LaunchJob(j)
                   \/ UNCHANGED launches /\ \E j \in Jobs :
                        \/ SubmitFile(j) \/ ClaimFile(j) \/ UpdateFile(j)
                        \/ \E d \in {"done", "failed"} : CloseFile(j, d)
<1>1. ASSUME NEW j \in Jobs, Submit(j) PROVE Goal
  BY <1>1 DEF Submit, SubmitFile, command
<1>2. ASSUME NEW w \in Workers, Claim(w) PROVE Goal
  BY <1>2, ClaimFacts DEF ClaimFile
<1>3. ASSUME NEW w \in Workers, Accept(w) PROVE Goal
  BY <1>3 DEF Accept, At, IInv, HolderInv, Holds, HoldPcs, UpdateFile, Status, command
<1>4. ASSUME NEW w \in Workers, StoreVerdict(w) PROVE Goal
  BY <1>4 DEF StoreVerdict, At, IInv, TypeOK, HolderInv, Holds, HoldPcs, UpdateFile, Status,
              command
<1>5. ASSUME NEW w \in Workers, Launch(w) PROVE Goal
  <2>1. job[w] \in Jobs /\ Exists("running", job[w]) /\ launches[job[w]] = 0
    BY <1>5 DEF Launch, At, IInv, HolderInv, LaunchInv, Untouched, Holds, HoldPcs
  <2>2. LaunchJob(job[w])
    BY <2>1, <1>5 DEF Launch, LaunchJob
  <2> QED
    BY <2>1, <2>2, <1>5 DEF Launch
<1>6. ASSUME NEW w \in Workers, Close(w) PROVE Goal
  <2>1. verdict[w] = "done" => launches[job[w]] # 0
    BY <1>6, CloseFacts DEF IInv, TruthInv, LeaderInv
  <2> QED
    BY <2>1, <1>6, CloseFacts DEF CloseFile
<1>7. ASSUME NEW w \in Workers,
             \/ Poll(w) \/ ClaimFails(w) \/ NothingClaimed(w) \/ Reject(w) \/ SeeExit(w)
             \/ SeeTimeout(w) \/ TerminateEnds(w) \/ GraceExpires(w) \/ Kill(w)
             \/ Crash(w) \/ Restart(w)
      PROVE  Goal
  BY <1>7 DEF Poll, ClaimFails, NothingClaimed, Reject, SeeExit, SeeTimeout, TerminateEnds,
              GraceExpires, Kill, Crash, Restart, Decide, command
<1>8. ASSUME NEW j \in Jobs, CommandForks(j) \/ CommandExits(j) \/ ChildExits(j) PROVE Goal
  BY <1>8 DEF CommandForks, CommandExits, ChildExits
<1>9. CASE UNCHANGED vars
  BY <1>9 DEF vars
<1> QED
  BY <1>1, <1>2, <1>3, <1>4, <1>5, <1>6, <1>7, <1>8, <1>9 DEF Next, Worker, RunJob

(***************************************************************************)
(* A job file never leaves the queue, and a final file never changes.      *)
(***************************************************************************)
THEOREM NoJobLost == Spec => NeverLost
<1>1. IInv /\ [Next]_vars => [\A j \in Jobs : Submitted(j) => Submitted(j)']_vars
  <2> SUFFICES ASSUME IInv, [Next]_vars, NEW j \in Jobs, Submitted(j) PROVE Submitted(j)'
    OBVIOUS
  <2> USE DEF IInv, TypeOK, Submitted, Exists, Dirs, Status, Absent
  <2>1. CASE UNCHANGED files
    BY <2>1
  <2>2. ASSUME NEW k \in Jobs, SubmitFile(k) PROVE Submitted(j)'
    BY <2>2 DEF SubmitFile, Store
  <2>3. ASSUME NEW k \in Jobs, ClaimFile(k) PROVE Submitted(j)'
    BY <2>3 DEF ClaimFile, Rename
  <2>4. ASSUME NEW k \in Jobs, UpdateFile(k) PROVE Submitted(j)'
    BY <2>4 DEF UpdateFile, Store
  <2>5. ASSUME NEW k \in Jobs, NEW d \in {"done", "failed"}, CloseFile(k, d)
        PROVE  Submitted(j)'
    <3>1. CASE j = k
      BY <2>5, <3>1 DEF CloseFile, Rename
    <3>2. CASE j # k
      BY <2>5, <3>2, RenameOthers DEF CloseFile
    <3> QED
      BY <3>1, <3>2
  <2> QED
    BY <2>1, <2>2, <2>3, <2>4, <2>5, FileStep
<1> QED
  BY <1>1, Invariance, PTL DEF Spec, NeverLost

Frozen == \A j \in Jobs : \A d \in {"done", "failed"} :
            Exists(d, j) => files'[d][j] = files[d][j] /\ launches'[j] = launches[j]

\* A file in done/ or failed/ is never rewritten and its command never rerun.
THEOREM FinalForGood == Spec => FinalIsFinal
<1>1. IInv /\ [Next]_vars => [Frozen]_vars
  <2> SUFFICES ASSUME IInv, [Next]_vars, NEW j \in Jobs, NEW d \in {"done", "failed"},
                      Exists(d, j)
               PROVE  files'[d][j] = files[d][j] /\ launches'[j] = launches[j]
    BY DEF Frozen
  <2>1. ~Exists("pending", j) /\ ~Exists("running", j)
    BY DEF IInv, InOneDirectory, Dirs
  <2>2. CASE UNCHANGED <<files, launches>>
    BY <2>2
  <2>3. ASSUME UNCHANGED files, NEW k \in Jobs, LaunchJob(k)
        PROVE  files'[d][j] = files[d][j] /\ launches'[j] = launches[j]
    BY <2>1, <2>3 DEF LaunchJob, IInv, TypeOK
  <2>4. ASSUME UNCHANGED launches, NEW k \in Jobs, SubmitFile(k) \/ UpdateFile(k)
        PROVE  files'[d][j] = files[d][j] /\ launches'[j] = launches[j]
    BY <2>4 DEF SubmitFile, UpdateFile, Store, IInv, TypeOK, Dirs
  <2>5. ASSUME UNCHANGED launches, NEW k \in Jobs, NEW e \in {"done", "failed"},
               ClaimFile(k) \/ CloseFile(k, e)
        PROVE  files'[d][j] = files[d][j] /\ launches'[j] = launches[j]
    <3>1. k # j
      BY <2>1, <2>5 DEF ClaimFile, CloseFile, Exists, Absent
    <3> QED
      BY <3>1, <2>5, RenameOthers DEF ClaimFile, CloseFile, IInv, Dirs
  <2> QED
    BY <2>2, <2>3, <2>4, <2>5, FileStep
<1> QED
  BY <1>1, Invariance, PTL DEF Spec, FinalIsFinal, Frozen

(***************************************************************************)
(* The implementation of JobLedger.                                        *)
(***************************************************************************)
LEMMA StateFacts ==
  ASSUME IInv, NEW j \in Jobs
  PROVE  /\ \A d \in Dirs : Exists(d, j) <=> StateOf(j) = d
         /\ ~Submitted(j) <=> StateOf(j) = "unsubmitted"
BY DEF IInv, InOneDirectory, Submitted, StateOf, Dirs

Started == {j \in Jobs : launches[j] # 0}

LEMMA LedgerMove ==
  ASSUME IInv, IInv', NEW j \in Jobs, NEW from, NEW to,
         StateOf(j) = from, StateOf(j)' = to,
         \A k \in Jobs \ {j} : \A d \in Dirs : files'[d][k] = files[d][k],
         launches' = launches
  PROVE  Ledger!Move(j, from, to)
<1>1. \A k \in Jobs \ {j} : StateOf(k)' = StateOf(k)
  BY DEF StateOf, Exists, Dirs
<1> QED
  BY <1>1 DEF Ledger!Move

\* The queue of files implements the ledger of jobs, crashes included.
THEOREM Refinement == Spec => ImplementsLedger
<1>1. Init => Ledger!Init
  BY DEF Init, Ledger!Init, StateOf, Exists, Dirs, Absent
<1>2. IInv /\ IInv' /\ [Next]_vars => [Ledger!Next]_(Ledger!vars)
  <2> SUFFICES ASSUME IInv, IInv', [Next]_vars PROVE [Ledger!Next]_(Ledger!vars)
    OBVIOUS
  <2>1. CASE UNCHANGED <<files, launches>>
    BY <2>1 DEF Ledger!vars, StateOf, Exists
  <2>2. ASSUME UNCHANGED files, NEW j \in Jobs, LaunchJob(j) PROVE Ledger!Start(j)
    <3>1. StateOf(j) = "running"
      BY <2>2, StateFacts DEF LaunchJob, Dirs
    <3>2. [k \in Jobs |-> StateOf(k)]' = [k \in Jobs |-> StateOf(k)]
      BY <2>2 DEF StateOf, Exists
    <3>3. Started' = Started \cup {j}
      BY <2>2 DEF LaunchJob, Started, IInv, TypeOK
    <3> QED
      BY <3>1, <3>2, <3>3, <2>2 DEF LaunchJob, Started, Ledger!Start
  <2>3. ASSUME UNCHANGED launches, NEW j \in Jobs, SubmitFile(j) PROVE Ledger!Submit(j)
    <3>1. \A k \in Jobs \ {j} : \A d \in Dirs : files'[d][k] = files[d][k]
      BY <2>3 DEF SubmitFile, Store, IInv, TypeOK, Dirs
    <3>2. StateOf(j) = "unsubmitted" /\ StateOf(j)' = "pending"
      BY <2>3, StateFacts DEF SubmitFile, Store, StateOf, Exists, IInv, TypeOK, Dirs, Absent
    <3> QED
      BY <3>1, <3>2, <2>3, LedgerMove DEF Ledger!Submit
  <2>4. ASSUME UNCHANGED launches, NEW j \in Jobs, ClaimFile(j) PROVE Ledger!Take(j)
    <3>1. \A k \in Jobs \ {j} : \A d \in Dirs : files'[d][k] = files[d][k]
      BY <2>4, RenameOthers DEF ClaimFile, IInv, Dirs
    <3>2. StateOf(j) = "pending" /\ StateOf(j)' = "running"
      BY <2>4 DEF ClaimFile, Rename, StateOf, Exists, IInv, TypeOK, Dirs, Absent
    <3> QED
      BY <3>1, <3>2, <2>4, LedgerMove DEF Ledger!Take
  <2>5. ASSUME UNCHANGED launches, NEW j \in Jobs, UpdateFile(j)
        PROVE  UNCHANGED Ledger!vars
    <3>1. \A k \in Jobs : \A d \in Dirs : Exists(d, k)' <=> Exists(d, k)
      BY <2>5 DEF UpdateFile, Store, Exists, IInv, TypeOK, Dirs, Status, Absent
    <3>2. \A k \in Jobs : StateOf(k)' = StateOf(k)
      BY <3>1 DEF StateOf, Dirs
    <3> QED
      BY <3>2, <2>5 DEF Ledger!vars
  <2>6. ASSUME UNCHANGED launches, NEW j \in Jobs, NEW d \in {"done", "failed"},
               CloseFile(j, d)
        PROVE  Ledger!Fail(j) \/ Ledger!Succeed(j)
    <3>1. \A k \in Jobs \ {j} : \A e \in Dirs : files'[e][k] = files[e][k]
      BY <2>6, RenameOthers DEF CloseFile, IInv, Dirs
    <3>2. StateOf(j) = "running"
      BY <2>6, StateFacts DEF CloseFile, Exists, Dirs, Absent
    <3>3. files'[d][j] = d
      BY <2>6 DEF CloseFile, Rename, IInv, TypeOK, Dirs
    <3>4. StateOf(j)' = d
      <4>1. Exists(d, j)'
        BY <3>3 DEF Exists, Absent
      <4> QED
        BY <4>1, <2>6 DEF IInv, InOneDirectory, StateOf, Dirs
    <3>5. Ledger!Move(j, "running", d)
      BY <3>1, <3>2, <3>4, <2>6, LedgerMove
    <3> QED
      BY <3>5, <2>6 DEF CloseFile, Ledger!Fail, Ledger!Succeed
  <2> QED
    BY <2>1, <2>2, <2>3, <2>4, <2>5, <2>6, FileStep DEF Ledger!Next
<1> QED
  BY <1>1, <1>2, Invariance, PTL DEF Spec, ImplementsLedger, Ledger!Spec
=============================================================================
