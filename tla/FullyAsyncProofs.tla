-------------------------- MODULE FullyAsyncProofs --------------------------
(***************************************************************************)
(* Theorems about FullyAsync for every batch size, trigger, limit and      *)
(* number of samples, and for any number of failed generations.            *)
(***************************************************************************)
EXTENDS FullyAsync, SequenceTheorems, TLAPS

(***************************************************************************)
(* The inductive invariant.  OutstandingBound is not inductive: it rests   *)
(* on the staleness counter, which reset_staleness rewrites in three steps *)
(* while samples go on moving.  The counter is at most one sample short    *)
(* (StaleInv); during a reset the tally that will replace it misses        *)
(* nothing but the sample in hand or the end marker (TallyInv), because    *)
(* the lock keeps the processor from creating tasks (ResetHolds).          *)
(***************************************************************************)
DueInv == ppc = "reaping" => due.finished <= finished /\ due.failed <= failed

ResetHolds == tpc \in {"counting", "sized"} => HasLock("reset")

\* The end marker has left the processor's hand for the queue.
Signalled == IF ppc \in {"stopping", "stopped"} THEN 1 ELSE 0

TallyInv ==
  /\ tpc = "counting" => running + failed <= tally
  /\ tpc = "sized" => Submitted <= tally + Signalled

StaleInv == Outstanding <= staleness + 1

SlotInv == ppc = "submitting" => Active < MaxConcurrent

IInv == /\ TypeOK
        /\ DueInv
        /\ ResetHolds
        /\ TallyInv
        /\ StaleInv
        /\ OutstandingBound
        /\ SlotInv
        /\ ConcurrencyBound
-----------------------------------------------------------------------------
\* What the assumptions say of the limits, without the product.
LEMMA Limits == MaxRequired \in Nat /\ MaxRequired >= 1 /\ MaxConcurrent \in Nat
                /\ MaxConcurrent >= 1 /\ Total \in Nat /\ Trigger \in Nat /\ Trigger >= 1
<1>1. MaxRequired \in Nat /\ MaxConcurrent \in 1 .. MaxRequired
  BY ConstantsAssumption
<1>2. Total \in Nat /\ Trigger \in Nat \ {0}
  BY ConstantsAssumption
<1> QED
  BY <1>1, <1>2

\* get_sample shortens it by one.
LEMMA TailLength ==
  ASSUME queue \in Seq({"sample", "end"}), queue # <<>>
  PROVE  Tail(queue) \in Seq({"sample", "end"}) /\ Len(Tail(queue)) = Len(queue) - 1
         /\ Len(queue) \in Nat
OBVIOUS

\* put_sample lengthens the deque by at most one element.
LEMMA PushLength ==
  ASSUME queue \in Seq({"sample", "end"}), dropped \in Nat,
         NEW x \in {"sample", "end"}, Push(x)
  PROVE  /\ queue' \in Seq({"sample", "end"}) /\ dropped' \in Nat
         /\ Len(queue') <= Len(queue) + 1
<1>1. CASE Len(queue) >= MaxRequired /\ queue # <<>>
  BY <1>1 DEF Push
<1>2. CASE queue = <<>>
  <2>1. Len(queue) = 0 /\ ~(Len(queue) >= MaxRequired)
    BY <1>2, Limits
  <2>2. queue' = Append(queue, x) /\ dropped' = dropped
    BY <2>1 DEF Push
  <2> QED
    BY <2>2
<1>3. CASE ~(Len(queue) >= MaxRequired)
  BY <1>3 DEF Push
<1> QED
  BY <1>1, <1>2, <1>3

\* The lengths and sums are numbers, now and after any step that keeps the types.
LEMMA LengthType ==
  /\ queue \in Seq({"sample", "end"}) => Len(queue) \in Nat
  /\ queue' \in Seq({"sample", "end"}) => Len(queue') \in Nat
OBVIOUS

LEMMA OutstandingType ==
  /\ TypeOK => Outstanding \in Nat /\ staleness \in Nat
  /\ TypeOK' => Outstanding' \in Nat
<1>1. InHand \in {0, 1} /\ InHand' \in {0, 1}
  BY DEF InHand
<1>2. TypeOK => Outstanding \in Nat /\ staleness \in Nat
  BY <1>1, LengthType DEF TypeOK, Outstanding, Submitted
<1>3. ASSUME TypeOK' PROVE Outstanding' \in Nat
  <2>1. running' \in Nat /\ failed' \in Nat /\ Len(queue') \in Nat
    BY <1>3, LengthType DEF TypeOK
  <2> QED
    BY <1>1, <2>1 DEF Outstanding, Submitted
<1> QED
  BY <1>2, <1>3

\* The lock queue stays a queue of coroutines, and only its holder leaves it.
LEMMA LockFacts ==
  ASSUME lockq \in Seq({"processor", "monitor", "reset"}),
         NEW who \in {"processor", "monitor", "reset"}
  PROVE  /\ Queue(who) => /\ lockq' \in Seq({"processor", "monitor", "reset"})
                          /\ HasLock("reset") => HasLock("reset")'
         /\ HasLock(who) /\ Release => lockq' \in Seq({"processor", "monitor", "reset"})
         /\ HasLock(who) /\ Requeue(who) => lockq' \in Seq({"processor", "monitor", "reset"})
BY DEF Queue, HasLock, Release, Requeue
-----------------------------------------------------------------------------

\* Every step keeps the types.
LEMMA Typed ==
  ASSUME TypeOK, DueInv, ResetHolds, [Next]_vars
  PROVE  TypeOK'
<1>1. CASE ReadStatistics
  BY <1>1 DEF ReadStatistics, TypeOK, taskVars, procVars, monVars, queueVars, trainVars
<1>2. CASE DecidePause
  BY <1>2, LockFacts
  DEF DecidePause, TypeOK, taskVars, procVars, monVars, queueVars, trainVars
<1>3. CASE SetPaused
  BY <1>3, LockFacts
  DEF SetPaused, TypeOK, taskVars, procVars, monVars, queueVars, trainVars
<1>4. CASE Take
  BY <1>4, LockFacts, Limits
  DEF Take, TypeOK, taskVars, procVars, monVars, queueVars, trainVars
<1>5. CASE TakeEnd
  BY <1>5, LockFacts, Limits
  DEF TakeEnd, TypeOK, taskVars, procVars, monVars, queueVars, trainVars
<1>6. CASE AwaitSlot
  BY <1>6, LockFacts
  DEF AwaitSlot, ReapAll, TypeOK, taskVars, procVars, monVars, queueVars, trainVars
<1>7. CASE Submit
  BY <1>7, LockFacts DEF Submit, TypeOK, taskVars, procVars, monVars, queueVars, trainVars
<1>8. CASE AwaitEnd
  BY <1>8, LockFacts
  DEF AwaitEnd, ReapAll, TypeOK, taskVars, procVars, monVars, queueVars, trainVars
<1>9. CASE DrainWake
  BY <1>9, LockFacts
  DEF DrainWake, TypeOK, taskVars, procVars, monVars, queueVars, trainVars
<1>10. CASE Reap
  BY <1>10, LockFacts
  DEF Reap, TypeOK, DueInv, taskVars, procVars, monVars, queueVars, trainVars
<1>11. CASE ReapFailure
  BY <1>11, LockFacts
  DEF ReapFailure, TypeOK, DueInv, taskVars, procVars, monVars, queueVars, trainVars
<1>12. CASE Resume
  BY <1>12 DEF Resume, TypeOK, taskVars, procVars, monVars, queueVars, trainVars
<1>13. CASE EndSignal
  BY <1>13, LockFacts, PushLength
  DEF EndSignal, TypeOK, taskVars, procVars, monVars, queueVars, trainVars
<1>14. CASE StopRunning
  BY <1>14, LockFacts
  DEF StopRunning, TypeOK, taskVars, procVars, monVars, queueVars, trainVars
<1>15. CASE Put
  BY <1>15, PushLength DEF Put, TypeOK, taskVars, procVars, monVars, queueVars, trainVars
<1>16. CASE Done
  BY <1>16 DEF Done, TypeOK, taskVars, procVars, monVars, queueVars, trainVars
<1>17. CASE Fail
  BY <1>17 DEF Fail, TypeOK, taskVars, procVars, monVars, queueVars, trainVars
<1>18. CASE ResetCall
  BY <1>18, LockFacts
  DEF ResetCall, TypeOK, taskVars, procVars, monVars, queueVars, trainVars
<1>19. CASE ResetCount
  <2>1. Active \in Nat
    BY DEF Active, TypeOK
  <2> QED
    BY <1>19, <2>1 DEF ResetCount, TypeOK, taskVars, procVars, monVars, queueVars
<1>20. CASE ResetSize
  BY <1>20
  DEF ResetSize, TypeOK, taskVars, procVars, monVars, queueVars, trainVars, Active,
      HasLock
<1>21. CASE ResetEnd
  BY <1>21, LockFacts
  DEF ResetEnd, TypeOK, taskVars, procVars, monVars, queueVars, trainVars, ResetHolds
<1>22. CASE MonitorTop
  BY <1>22, LockFacts
  DEF MonitorTop, TypeOK, taskVars, procVars, monVars, queueVars, trainVars
<1>23. CASE MonitorWakes
  BY <1>23, LockFacts
  DEF MonitorWakes, TypeOK, taskVars, procVars, monVars, queueVars, trainVars
<1>24. CASE MonitorDecide
  BY <1>24, LockFacts
  DEF MonitorDecide, TypeOK, taskVars, procVars, monVars, queueVars, trainVars
<1>25. CASE MonitorResume
  BY <1>25, LockFacts
  DEF MonitorResume, TypeOK, taskVars, procVars, monVars, queueVars, trainVars
<1>26. CASE GetSample
  BY <1>26 DEF GetSample, TypeOK, taskVars, procVars, monVars, queueVars, trainVars
<1>27. CASE GetEnd
  BY <1>27 DEF GetEnd, TypeOK, taskVars, procVars, monVars, queueVars, trainVars
<1>28. CASE Train
  BY <1>28, Limits DEF Train, TypeOK, taskVars, procVars, monVars, queueVars, trainVars
<1>29. CASE UNCHANGED vars
  BY <1>29 DEF TypeOK, vars, taskVars, procVars, monVars, queueVars, trainVars
<1> QED
  BY <1>1, <1>2, <1>3, <1>4, <1>5, <1>6, <1>7, <1>8, <1>9, <1>10, <1>11, <1>12, <1>13,
     <1>14, <1>15, <1>16, <1>17, <1>18, <1>19, <1>20, <1>21, <1>22, <1>23, <1>24,
     <1>25, <1>26, <1>27, <1>28, <1>29
  DEF Next, Processor, Reset, Monitor, Trainer, Terminating

\* Settled tasks stay settled until they are reaped.
LEMMA DueKept ==
  ASSUME TypeOK, DueInv, [Next]_vars
  PROVE  DueInv'
<1>1. CASE ReadStatistics
  BY <1>1
  DEF ReadStatistics, TypeOK, DueInv, taskVars, procVars, monVars, queueVars,
      trainVars
<1>2. CASE DecidePause
  BY <1>2
  DEF DecidePause, TypeOK, DueInv, taskVars, procVars, monVars, queueVars, trainVars
<1>3. CASE SetPaused
  BY <1>3 DEF SetPaused, TypeOK, DueInv, taskVars, procVars, monVars, queueVars, trainVars
<1>4. CASE Take
  BY <1>4 DEF Take, TypeOK, DueInv, taskVars, procVars, monVars, queueVars, trainVars
<1>5. CASE TakeEnd
  BY <1>5 DEF TakeEnd, TypeOK, DueInv, taskVars, procVars, monVars, queueVars, trainVars
<1>6. CASE AwaitSlot
  BY <1>6
  DEF AwaitSlot, ReapAll, TypeOK, DueInv, taskVars, procVars, monVars, queueVars,
      trainVars
<1>7. CASE Submit
  BY <1>7 DEF Submit, TypeOK, DueInv, taskVars, procVars, monVars, queueVars, trainVars
<1>8. CASE AwaitEnd
  BY <1>8
  DEF AwaitEnd, ReapAll, TypeOK, DueInv, taskVars, procVars, monVars, queueVars,
      trainVars
<1>9. CASE DrainWake
  BY <1>9 DEF DrainWake, TypeOK, DueInv, taskVars, procVars, monVars, queueVars, trainVars
<1>10. CASE Reap
  BY <1>10 DEF Reap, TypeOK, DueInv, taskVars, procVars, monVars, queueVars, trainVars
<1>11. CASE ReapFailure
  BY <1>11
  DEF ReapFailure, TypeOK, DueInv, taskVars, procVars, monVars, queueVars, trainVars
<1>12. CASE Resume
  BY <1>12 DEF Resume, TypeOK, DueInv, taskVars, procVars, monVars, queueVars, trainVars
<1>13. CASE EndSignal
  BY <1>13
  DEF EndSignal, TypeOK, DueInv, taskVars, procVars, monVars, queueVars, trainVars
<1>14. CASE StopRunning
  BY <1>14
  DEF StopRunning, TypeOK, DueInv, taskVars, procVars, monVars, queueVars, trainVars
<1>15. CASE Put
  BY <1>15 DEF Put, TypeOK, DueInv, taskVars, procVars, monVars, queueVars, trainVars
<1>16. CASE Done
  BY <1>16 DEF Done, TypeOK, DueInv, taskVars, procVars, monVars, queueVars, trainVars
<1>17. CASE Fail
  BY <1>17 DEF Fail, TypeOK, DueInv, taskVars, procVars, monVars, queueVars, trainVars
<1>18. CASE ResetCall
  BY <1>18
  DEF ResetCall, TypeOK, DueInv, taskVars, procVars, monVars, queueVars, trainVars
<1>19. CASE ResetCount
  BY <1>19
  DEF ResetCount, TypeOK, DueInv, taskVars, procVars, monVars, queueVars, trainVars
<1>20. CASE ResetSize
  BY <1>20
  DEF ResetSize, TypeOK, DueInv, taskVars, procVars, monVars, queueVars, trainVars
<1>21. CASE ResetEnd
  BY <1>21 DEF ResetEnd, TypeOK, DueInv, taskVars, procVars, monVars, queueVars, trainVars
<1>22. CASE MonitorTop
  BY <1>22
  DEF MonitorTop, TypeOK, DueInv, taskVars, procVars, monVars, queueVars, trainVars
<1>23. CASE MonitorWakes
  BY <1>23
  DEF MonitorWakes, TypeOK, DueInv, taskVars, procVars, monVars, queueVars, trainVars
<1>24. CASE MonitorDecide
  BY <1>24
  DEF MonitorDecide, TypeOK, DueInv, taskVars, procVars, monVars, queueVars, trainVars
<1>25. CASE MonitorResume
  BY <1>25
  DEF MonitorResume, TypeOK, DueInv, taskVars, procVars, monVars, queueVars, trainVars
<1>26. CASE GetSample
  BY <1>26
  DEF GetSample, TypeOK, DueInv, taskVars, procVars, monVars, queueVars, trainVars
<1>27. CASE GetEnd
  BY <1>27 DEF GetEnd, TypeOK, DueInv, taskVars, procVars, monVars, queueVars, trainVars
<1>28. CASE Train
  BY <1>28 DEF Train, TypeOK, DueInv, taskVars, procVars, monVars, queueVars, trainVars
<1>29. CASE UNCHANGED vars
  BY <1>29 DEF DueInv, vars, taskVars, procVars, monVars, queueVars, trainVars
<1> QED
  BY <1>1, <1>2, <1>3, <1>4, <1>5, <1>6, <1>7, <1>8, <1>9, <1>10, <1>11, <1>12, <1>13,
     <1>14, <1>15, <1>16, <1>17, <1>18, <1>19, <1>20, <1>21, <1>22, <1>23, <1>24,
     <1>25, <1>26, <1>27, <1>28, <1>29
  DEF Next, Processor, Reset, Monitor, Trainer, Terminating

\* Between its two reads reset_staleness keeps the lock.
LEMMA ResetHoldsKept ==
  ASSUME TypeOK, ResetHolds, [Next]_vars
  PROVE  ResetHolds'
<1>1. CASE ReadStatistics
  BY <1>1
  DEF ReadStatistics, TypeOK, ResetHolds, HasLock, taskVars, procVars, monVars,
      queueVars, trainVars
<1>2. CASE DecidePause
  <2>1. Queue("processor") /\ tpc' = tpc
    BY <1>2 DEF DecidePause, trainVars
  <2> QED
    BY <2>1, LockFacts DEF ResetHolds, TypeOK
<1>3. CASE SetPaused
  BY <1>3
  DEF SetPaused, TypeOK, ResetHolds, HasLock, Release, taskVars, procVars, monVars,
      queueVars, trainVars
<1>4. CASE Take
  <2>1. Queue("processor") /\ tpc' = tpc
    BY <1>4 DEF Take, trainVars
  <2> QED
    BY <2>1, LockFacts DEF ResetHolds, TypeOK
<1>5. CASE TakeEnd
  <2>1. (lockq' = lockq \/ Queue("processor")) /\ tpc' = tpc
    BY <1>5 DEF TakeEnd, trainVars
  <2>2. Queue("processor") => (HasLock("reset") => HasLock("reset")')
    BY LockFacts DEF TypeOK
  <2>3. lockq' = lockq => (HasLock("reset") => HasLock("reset")')
    BY DEF HasLock
  <2> QED
    BY <2>1, <2>2, <2>3 DEF ResetHolds
<1>6. CASE AwaitSlot
  BY <1>6
  DEF AwaitSlot, ReapAll, TypeOK, ResetHolds, HasLock, Release, Requeue, taskVars,
      procVars, monVars, queueVars, trainVars
<1>7. CASE Submit
  BY <1>7
  DEF Submit, TypeOK, ResetHolds, HasLock, Release, taskVars, procVars, monVars,
      queueVars, trainVars
<1>8. CASE AwaitEnd
  BY <1>8
  DEF AwaitEnd, ReapAll, TypeOK, ResetHolds, HasLock, Release, Requeue, taskVars,
      procVars, monVars, queueVars, trainVars
<1>9. CASE DrainWake
  BY <1>9
  DEF DrainWake, TypeOK, ResetHolds, taskVars, procVars, monVars, queueVars,
      trainVars, HasLock, Queue
<1>10. CASE Reap
  BY <1>10
  DEF Reap, TypeOK, ResetHolds, HasLock, Release, taskVars, procVars, monVars,
      queueVars, trainVars
<1>11. CASE ReapFailure
  BY <1>11
  DEF ReapFailure, TypeOK, ResetHolds, HasLock, Release, taskVars, procVars, monVars,
      queueVars, trainVars
<1>12. CASE Resume
  BY <1>12
  DEF Resume, TypeOK, ResetHolds, HasLock, taskVars, procVars, monVars, queueVars,
      trainVars
<1>13. CASE EndSignal
  <2>1. Queue("processor") /\ tpc' = tpc
    BY <1>13 DEF EndSignal, trainVars
  <2> QED
    BY <2>1, LockFacts DEF ResetHolds, TypeOK
<1>14. CASE StopRunning
  BY <1>14
  DEF StopRunning, TypeOK, ResetHolds, HasLock, Release, taskVars, procVars, monVars,
      queueVars, trainVars
<1>15. CASE Put
  BY <1>15
  DEF Put, TypeOK, ResetHolds, HasLock, taskVars, procVars, monVars, queueVars,
      trainVars
<1>16. CASE Done
  BY <1>16
  DEF Done, TypeOK, ResetHolds, HasLock, taskVars, procVars, monVars, queueVars,
      trainVars
<1>17. CASE Fail
  BY <1>17
  DEF Fail, TypeOK, ResetHolds, HasLock, taskVars, procVars, monVars, queueVars,
      trainVars
<1>18. CASE ResetCall
  BY <1>18
  DEF ResetCall, TypeOK, ResetHolds, taskVars, procVars, monVars, queueVars,
      trainVars, HasLock, Queue
<1>19. CASE ResetCount
  BY <1>19
  DEF ResetCount, TypeOK, ResetHolds, HasLock, taskVars, procVars, monVars, queueVars,
      trainVars
<1>20. CASE ResetSize
  BY <1>20
  DEF ResetSize, TypeOK, ResetHolds, HasLock, taskVars, procVars, monVars, queueVars,
      trainVars
<1>21. CASE ResetEnd
  BY <1>21
  DEF ResetEnd, TypeOK, ResetHolds, HasLock, Release, taskVars, procVars, monVars,
      queueVars, trainVars
<1>22. CASE MonitorTop
  BY <1>22
  DEF MonitorTop, TypeOK, ResetHolds, HasLock, Release, taskVars, procVars, monVars,
      queueVars, trainVars
<1>23. CASE MonitorWakes
  <2>1. (lockq' = lockq \/ Queue("monitor")) /\ tpc' = tpc
    BY <1>23 DEF MonitorWakes, trainVars
  <2>2. Queue("monitor") => (HasLock("reset") => HasLock("reset")')
    BY LockFacts DEF TypeOK
  <2>3. lockq' = lockq => (HasLock("reset") => HasLock("reset")')
    BY DEF HasLock
  <2> QED
    BY <2>1, <2>2, <2>3 DEF ResetHolds
<1>24. CASE MonitorDecide
  BY <1>24
  DEF MonitorDecide, TypeOK, ResetHolds, taskVars, procVars, monVars, queueVars,
      trainVars, HasLock, Queue
<1>25. CASE MonitorResume
  BY <1>25
  DEF MonitorResume, TypeOK, ResetHolds, HasLock, Requeue, taskVars, procVars,
      monVars, queueVars, trainVars
<1>26. CASE GetSample
  BY <1>26
  DEF GetSample, TypeOK, ResetHolds, HasLock, taskVars, procVars, monVars, queueVars,
      trainVars
<1>27. CASE GetEnd
  BY <1>27
  DEF GetEnd, TypeOK, ResetHolds, HasLock, taskVars, procVars, monVars, queueVars,
      trainVars
<1>28. CASE Train
  BY <1>28
  DEF Train, TypeOK, ResetHolds, HasLock, taskVars, procVars, monVars, queueVars,
      trainVars
<1>29. CASE UNCHANGED vars
  BY <1>29
  DEF ResetHolds, HasLock, vars, taskVars, procVars, monVars, queueVars, trainVars
<1> QED
  BY <1>1, <1>2, <1>3, <1>4, <1>5, <1>6, <1>7, <1>8, <1>9, <1>10, <1>11, <1>12, <1>13,
     <1>14, <1>15, <1>16, <1>17, <1>18, <1>19, <1>20, <1>21, <1>22, <1>23, <1>24,
     <1>25, <1>26, <1>27, <1>28, <1>29
  DEF Next, Processor, Reset, Monitor, Trainer, Terminating

\* The tally of a reset keeps up with the samples that move meanwhile.
LEMMA TallyKept ==
  ASSUME TypeOK, DueInv, ResetHolds, TallyInv, [Next]_vars
  PROVE  TallyInv'
<1>1. CASE ReadStatistics
  BY <1>1
  DEF ReadStatistics, TypeOK, TallyInv, ResetHolds, Submitted, Signalled, HasLock,
      Active, taskVars, procVars, monVars, queueVars, trainVars
<1>2. CASE DecidePause
  BY <1>2
  DEF DecidePause, TypeOK, TallyInv, ResetHolds, Submitted, Signalled, HasLock,
      Active, taskVars, procVars, monVars, queueVars, trainVars
<1>3. CASE SetPaused
  BY <1>3
  DEF SetPaused, TypeOK, TallyInv, ResetHolds, Submitted, Signalled, HasLock, Active,
      taskVars, procVars, monVars, queueVars, trainVars
<1>4. CASE Take
  BY <1>4
  DEF Take, TypeOK, TallyInv, ResetHolds, Submitted, Signalled, HasLock, Active,
      taskVars, procVars, monVars, queueVars, trainVars
<1>5. CASE TakeEnd
  BY <1>5
  DEF TakeEnd, TypeOK, TallyInv, ResetHolds, Submitted, Signalled, HasLock, Active,
      taskVars, procVars, monVars, queueVars, trainVars
<1>6. CASE AwaitSlot
  BY <1>6
  DEF AwaitSlot, ReapAll, TypeOK, TallyInv, ResetHolds, Submitted, Signalled, HasLock,
      Active, taskVars, procVars, monVars, queueVars, trainVars
<1>7. CASE Submit
  BY <1>7
  DEF Submit, TypeOK, TallyInv, ResetHolds, Submitted, Signalled, HasLock, Active,
      taskVars, procVars, monVars, queueVars, trainVars
<1>8. CASE AwaitEnd
  BY <1>8
  DEF AwaitEnd, ReapAll, TypeOK, TallyInv, ResetHolds, Submitted, Signalled, HasLock,
      Active, taskVars, procVars, monVars, queueVars, trainVars
<1>9. CASE DrainWake
  BY <1>9
  DEF DrainWake, TypeOK, TallyInv, ResetHolds, Submitted, Signalled, HasLock, Active,
      taskVars, procVars, monVars, queueVars, trainVars
<1>10. CASE Reap
  BY <1>10
  DEF Reap, TypeOK, TallyInv, ResetHolds, Submitted, Signalled, HasLock, Active,
      taskVars, procVars, monVars, queueVars, trainVars, DueInv
<1>11. CASE ReapFailure
  BY <1>11
  DEF ReapFailure, TypeOK, TallyInv, ResetHolds, Submitted, Signalled, HasLock,
      Active, taskVars, procVars, monVars, queueVars, trainVars, DueInv
<1>12. CASE Resume
  BY <1>12
  DEF Resume, TypeOK, TallyInv, ResetHolds, Submitted, Signalled, HasLock, Active,
      taskVars, procVars, monVars, queueVars, trainVars
<1>13. CASE EndSignal
  BY <1>13, PushLength
  DEF EndSignal, TypeOK, TallyInv, ResetHolds, Submitted, Signalled, HasLock, Active,
      taskVars, procVars, monVars, queueVars, trainVars
<1>14. CASE StopRunning
  BY <1>14
  DEF StopRunning, TypeOK, TallyInv, ResetHolds, Submitted, Signalled, HasLock,
      Active, taskVars, procVars, monVars, queueVars, trainVars
<1>15. CASE Put
  <2>1. /\ running > 0 /\ running' = running - 1 /\ failed' = failed
        /\ ppc' = ppc /\ tpc' = tpc /\ tally' = tally
    BY <1>15 DEF Put, procVars, trainVars
  <2>2. queue' \in Seq({"sample", "end"}) /\ Len(queue') <= Len(queue) + 1
    BY <1>15, PushLength DEF Put, TypeOK
  <2>3. Submitted' <= Submitted /\ Submitted' \in Int /\ Submitted \in Int
    BY <2>1, <2>2, LengthType DEF Submitted, TypeOK
  <2>4. Signalled' = Signalled /\ Signalled \in Nat
    BY <2>1 DEF Signalled
  <2> QED
    BY <2>1, <2>3, <2>4 DEF TallyInv, TypeOK
<1>16. CASE Done
  BY <1>16
  DEF Done, TypeOK, TallyInv, ResetHolds, Submitted, Signalled, HasLock, Active,
      taskVars, procVars, monVars, queueVars, trainVars
<1>17. CASE Fail
  BY <1>17
  DEF Fail, TypeOK, TallyInv, ResetHolds, Submitted, Signalled, HasLock, Active,
      taskVars, procVars, monVars, queueVars, trainVars
<1>18. CASE ResetCall
  BY <1>18
  DEF ResetCall, TypeOK, TallyInv, ResetHolds, Submitted, Signalled, HasLock, Active,
      taskVars, procVars, monVars, queueVars, trainVars
<1>19. CASE ResetCount
  BY <1>19
  DEF ResetCount, TypeOK, TallyInv, ResetHolds, Submitted, Signalled, HasLock, Active,
      taskVars, procVars, monVars, queueVars, trainVars
<1>20. CASE ResetSize
  BY <1>20
  DEF ResetSize, TypeOK, TallyInv, ResetHolds, Submitted, Signalled, HasLock, Active,
      taskVars, procVars, monVars, queueVars, trainVars
<1>21. CASE ResetEnd
  BY <1>21
  DEF ResetEnd, TypeOK, TallyInv, ResetHolds, Submitted, Signalled, HasLock, Active,
      taskVars, procVars, monVars, queueVars, trainVars
<1>22. CASE MonitorTop
  BY <1>22
  DEF MonitorTop, TypeOK, TallyInv, ResetHolds, Submitted, Signalled, HasLock, Active,
      taskVars, procVars, monVars, queueVars, trainVars
<1>23. CASE MonitorWakes
  BY <1>23
  DEF MonitorWakes, TypeOK, TallyInv, ResetHolds, Submitted, Signalled, HasLock,
      Active, taskVars, procVars, monVars, queueVars, trainVars
<1>24. CASE MonitorDecide
  BY <1>24
  DEF MonitorDecide, TypeOK, TallyInv, ResetHolds, Submitted, Signalled, HasLock,
      Active, taskVars, procVars, monVars, queueVars, trainVars
<1>25. CASE MonitorResume
  BY <1>25
  DEF MonitorResume, TypeOK, TallyInv, ResetHolds, Submitted, Signalled, HasLock,
      Active, taskVars, procVars, monVars, queueVars, trainVars
<1>26. CASE GetSample
  BY <1>26
  DEF GetSample, TypeOK, TallyInv, ResetHolds, Submitted, Signalled, HasLock, Active,
      taskVars, procVars, monVars, queueVars, trainVars
<1>27. CASE GetEnd
  BY <1>27
  DEF GetEnd, TypeOK, TallyInv, ResetHolds, Submitted, Signalled, HasLock, Active,
      taskVars, procVars, monVars, queueVars, trainVars
<1>28. CASE Train
  BY <1>28
  DEF Train, TypeOK, TallyInv, ResetHolds, Submitted, Signalled, HasLock, Active,
      taskVars, procVars, monVars, queueVars, trainVars
<1>29. CASE UNCHANGED vars
  BY <1>29
  DEF TallyInv, Submitted, Signalled, vars, taskVars, procVars, monVars, queueVars,
      trainVars
<1> QED
  BY <1>1, <1>2, <1>3, <1>4, <1>5, <1>6, <1>7, <1>8, <1>9, <1>10, <1>11, <1>12, <1>13,
     <1>14, <1>15, <1>16, <1>17, <1>18, <1>19, <1>20, <1>21, <1>22, <1>23, <1>24,
     <1>25, <1>26, <1>27, <1>28, <1>29
  DEF Next, Processor, Reset, Monitor, Trainer, Terminating

\* The staleness counter is at most one sample short.
LEMMA StaleKept ==
  ASSUME TypeOK, TypeOK', DueInv, TallyInv, StaleInv, OutstandingBound, [Next]_vars
  PROVE  (StaleInv /\ OutstandingBound)'
<1>1. CASE ReadStatistics
  BY <1>1
  DEF ReadStatistics, TypeOK, StaleInv, OutstandingBound, Outstanding, Submitted,
      InHand, taskVars, procVars, monVars, queueVars, trainVars
<1>2. CASE DecidePause
  BY <1>2
  DEF DecidePause, TypeOK, StaleInv, OutstandingBound, Outstanding, Submitted, InHand,
      taskVars, procVars, monVars, queueVars, trainVars
<1>3. CASE SetPaused
  BY <1>3
  DEF SetPaused, TypeOK, StaleInv, OutstandingBound, Outstanding, Submitted, InHand,
      taskVars, procVars, monVars, queueVars, trainVars
<1>4. CASE Take
  BY <1>4, Limits
  DEF Take, TypeOK, StaleInv, OutstandingBound, Outstanding, Submitted, InHand,
      taskVars, procVars, monVars, queueVars, trainVars, ShouldPause
<1>5. CASE TakeEnd
  BY <1>5, Limits
  DEF TakeEnd, TypeOK, StaleInv, OutstandingBound, Outstanding, Submitted, InHand,
      taskVars, procVars, monVars, queueVars, trainVars, ShouldPause
<1>6. CASE AwaitSlot
  <2>1. /\ ppc = "full" /\ ppc' \in {"failed", "submitting"} /\ failed' = 0
        /\ running' = running /\ queue' = queue /\ staleness' = staleness
    BY <1>6 DEF AwaitSlot, ReapAll, queueVars
  <2>2. InHand' = 1 /\ InHand = 1
    BY <2>1 DEF InHand
  <2>3. Outstanding' <= Outstanding
    BY <2>1, <2>2, LengthType DEF Outstanding, Submitted, TypeOK
  <2> QED
    BY <2>1, <2>3, OutstandingType, Limits DEF StaleInv, OutstandingBound
<1>7. CASE Submit
  BY <1>7
  DEF Submit, TypeOK, StaleInv, OutstandingBound, Outstanding, Submitted, InHand,
      taskVars, procVars, monVars, queueVars, trainVars
<1>8. CASE AwaitEnd
  <2>1. /\ ppc = "ending" /\ ppc' \in {"failed", "ended", "ending"} /\ failed' = 0
        /\ running' = running /\ queue' = queue /\ staleness' = staleness
    BY <1>8 DEF AwaitEnd, ReapAll, queueVars
  <2>2. InHand' = 1 /\ InHand = 1
    BY <2>1 DEF InHand
  <2>3. Outstanding' <= Outstanding
    BY <2>1, <2>2, LengthType DEF Outstanding, Submitted, TypeOK
  <2> QED
    BY <2>1, <2>3, OutstandingType, Limits DEF StaleInv, OutstandingBound
<1>9. CASE DrainWake
  BY <1>9
  DEF DrainWake, TypeOK, StaleInv, OutstandingBound, Outstanding, Submitted, InHand,
      taskVars, procVars, monVars, queueVars, trainVars
<1>10. CASE Reap
  BY <1>10
  DEF Reap, TypeOK, StaleInv, OutstandingBound, Outstanding, Submitted, InHand,
      taskVars, procVars, monVars, queueVars, trainVars, DueInv
<1>11. CASE ReapFailure
  BY <1>11
  DEF ReapFailure, TypeOK, StaleInv, OutstandingBound, Outstanding, Submitted, InHand,
      taskVars, procVars, monVars, queueVars, trainVars, DueInv
<1>12. CASE Resume
  BY <1>12
  DEF Resume, TypeOK, StaleInv, OutstandingBound, Outstanding, Submitted, InHand,
      taskVars, procVars, monVars, queueVars, trainVars
<1>13. CASE EndSignal
  <2>1. /\ ppc \in {"ended", "failed"} /\ ppc' = "stopping" /\ failed' = failed
        /\ running' = running /\ staleness' = staleness
        /\ queue' \in Seq({"sample", "end"}) /\ Len(queue') <= Len(queue) + 1
    BY <1>13, PushLength DEF EndSignal, TypeOK, taskVars
  <2>2. InHand' = 0 /\ InHand = 1
    BY <2>1 DEF InHand
  <2>3. Outstanding' <= Outstanding
    BY <2>1, <2>2, LengthType DEF Outstanding, Submitted, TypeOK
  <2> QED
    BY <2>1, <2>3, OutstandingType, Limits DEF StaleInv, OutstandingBound
<1>14. CASE StopRunning
  BY <1>14
  DEF StopRunning, TypeOK, StaleInv, OutstandingBound, Outstanding, Submitted, InHand,
      taskVars, procVars, monVars, queueVars, trainVars
<1>15. CASE Put
  <2>1. /\ running > 0 /\ running' = running - 1 /\ failed' = failed /\ ppc' = ppc
        /\ staleness' = staleness
        /\ queue' \in Seq({"sample", "end"}) /\ Len(queue') <= Len(queue) + 1
    BY <1>15, PushLength DEF Put, TypeOK, procVars
  <2>2. InHand' = InHand /\ InHand \in {0, 1}
    BY <2>1 DEF InHand
  <2>3. Outstanding' <= Outstanding
    BY <2>1, <2>2, LengthType DEF Outstanding, Submitted, TypeOK
  <2> QED
    BY <2>1, <2>3, OutstandingType, Limits DEF StaleInv, OutstandingBound
<1>16. CASE Done
  BY <1>16
  DEF Done, TypeOK, StaleInv, OutstandingBound, Outstanding, Submitted, InHand,
      taskVars, procVars, monVars, queueVars, trainVars
<1>17. CASE Fail
  BY <1>17
  DEF Fail, TypeOK, StaleInv, OutstandingBound, Outstanding, Submitted, InHand,
      taskVars, procVars, monVars, queueVars, trainVars
<1>18. CASE ResetCall
  BY <1>18
  DEF ResetCall, TypeOK, StaleInv, OutstandingBound, Outstanding, Submitted, InHand,
      taskVars, procVars, monVars, queueVars, trainVars
<1>19. CASE ResetCount
  BY <1>19
  DEF ResetCount, TypeOK, StaleInv, OutstandingBound, Outstanding, Submitted, InHand,
      taskVars, procVars, monVars, queueVars, trainVars
<1>20. CASE ResetSize
  BY <1>20
  DEF ResetSize, TypeOK, StaleInv, OutstandingBound, Outstanding, Submitted, InHand,
      taskVars, procVars, monVars, queueVars, trainVars
<1>21. CASE ResetEnd
  BY <1>21
  DEF ResetEnd, TypeOK, StaleInv, OutstandingBound, Outstanding, Submitted, InHand,
      taskVars, procVars, monVars, queueVars, trainVars, TallyInv, Signalled
<1>22. CASE MonitorTop
  BY <1>22
  DEF MonitorTop, TypeOK, StaleInv, OutstandingBound, Outstanding, Submitted, InHand,
      taskVars, procVars, monVars, queueVars, trainVars
<1>23. CASE MonitorWakes
  BY <1>23
  DEF MonitorWakes, TypeOK, StaleInv, OutstandingBound, Outstanding, Submitted,
      InHand, taskVars, procVars, monVars, queueVars, trainVars
<1>24. CASE MonitorDecide
  BY <1>24
  DEF MonitorDecide, TypeOK, StaleInv, OutstandingBound, Outstanding, Submitted,
      InHand, taskVars, procVars, monVars, queueVars, trainVars
<1>25. CASE MonitorResume
  BY <1>25
  DEF MonitorResume, TypeOK, StaleInv, OutstandingBound, Outstanding, Submitted,
      InHand, taskVars, procVars, monVars, queueVars, trainVars
<1>26. CASE GetSample
  <2>1. /\ running' = running /\ failed' = failed /\ ppc' = ppc
        /\ staleness' = staleness /\ queue # <<>> /\ queue' = Tail(queue)
    BY <1>26 DEF GetSample, taskVars, procVars
  <2>2. InHand' = InHand /\ InHand \in {0, 1}
    BY <2>1 DEF InHand
  <2>3. Len(queue') = Len(queue) - 1 /\ Len(queue) \in Nat
    BY <2>1, TailLength DEF TypeOK
  <2>4. Outstanding' <= Outstanding
    BY <2>1, <2>2, <2>3 DEF Outstanding, Submitted, TypeOK
  <2> QED
    BY <2>1, <2>4, OutstandingType, Limits DEF StaleInv, OutstandingBound
<1>27. CASE GetEnd
  <2>1. /\ running' = running /\ failed' = failed /\ ppc' = ppc
        /\ staleness' = staleness /\ queue # <<>> /\ queue' = Tail(queue)
    BY <1>27 DEF GetEnd, taskVars, procVars
  <2>2. InHand' = InHand /\ InHand \in {0, 1}
    BY <2>1 DEF InHand
  <2>3. Len(queue') = Len(queue) - 1 /\ Len(queue) \in Nat
    BY <2>1, TailLength DEF TypeOK
  <2>4. Outstanding' <= Outstanding
    BY <2>1, <2>2, <2>3 DEF Outstanding, Submitted, TypeOK
  <2> QED
    BY <2>1, <2>4, OutstandingType, Limits DEF StaleInv, OutstandingBound
<1>28. CASE Train
  BY <1>28
  DEF Train, TypeOK, StaleInv, OutstandingBound, Outstanding, Submitted, InHand,
      taskVars, procVars, monVars, queueVars, trainVars
<1>29. CASE UNCHANGED vars
  BY <1>29
  DEF StaleInv, OutstandingBound, Outstanding, Submitted, InHand, vars, taskVars,
      procVars, monVars, queueVars, trainVars
<1> QED
  BY <1>1, <1>2, <1>3, <1>4, <1>5, <1>6, <1>7, <1>8, <1>9, <1>10, <1>11, <1>12, <1>13,
     <1>14, <1>15, <1>16, <1>17, <1>18, <1>19, <1>20, <1>21, <1>22, <1>23, <1>24,
     <1>25, <1>26, <1>27, <1>28, <1>29
  DEF Next, Processor, Reset, Monitor, Trainer, Terminating

\* A task is created only where there is room.
LEMMA SlotKept ==
  ASSUME TypeOK, DueInv, SlotInv, ConcurrencyBound, [Next]_vars
  PROVE  (SlotInv /\ ConcurrencyBound)'
<1>1. CASE ReadStatistics
  BY <1>1, Limits
  DEF ReadStatistics, TypeOK, SlotInv, ConcurrencyBound, Active, taskVars, procVars,
      monVars, queueVars, trainVars
<1>2. CASE DecidePause
  BY <1>2, Limits
  DEF DecidePause, TypeOK, SlotInv, ConcurrencyBound, Active, taskVars, procVars,
      monVars, queueVars, trainVars
<1>3. CASE SetPaused
  BY <1>3, Limits
  DEF SetPaused, TypeOK, SlotInv, ConcurrencyBound, Active, taskVars, procVars,
      monVars, queueVars, trainVars
<1>4. CASE Take
  BY <1>4, Limits
  DEF Take, TypeOK, SlotInv, ConcurrencyBound, Active, taskVars, procVars, monVars,
      queueVars, trainVars
<1>5. CASE TakeEnd
  BY <1>5, Limits
  DEF TakeEnd, TypeOK, SlotInv, ConcurrencyBound, Active, taskVars, procVars, monVars,
      queueVars, trainVars
<1>6. CASE AwaitSlot
  BY <1>6, Limits
  DEF AwaitSlot, ReapAll, TypeOK, SlotInv, ConcurrencyBound, Active, Settled,
      taskVars, procVars, monVars, queueVars, trainVars
<1>7. CASE Submit
  BY <1>7, Limits
  DEF Submit, TypeOK, SlotInv, ConcurrencyBound, Active, taskVars, procVars, monVars,
      queueVars, trainVars
<1>8. CASE AwaitEnd
  BY <1>8, Limits
  DEF AwaitEnd, ReapAll, TypeOK, SlotInv, ConcurrencyBound, Active, Settled, taskVars,
      procVars, monVars, queueVars, trainVars
<1>9. CASE DrainWake
  BY <1>9, Limits
  DEF DrainWake, TypeOK, SlotInv, ConcurrencyBound, Active, taskVars, procVars,
      monVars, queueVars, trainVars
<1>10. CASE Reap
  BY <1>10, Limits
  DEF Reap, TypeOK, SlotInv, ConcurrencyBound, Active, taskVars, procVars, monVars,
      queueVars, trainVars, DueInv
<1>11. CASE ReapFailure
  BY <1>11, Limits
  DEF ReapFailure, TypeOK, SlotInv, ConcurrencyBound, Active, taskVars, procVars,
      monVars, queueVars, trainVars, DueInv
<1>12. CASE Resume
  BY <1>12, Limits
  DEF Resume, TypeOK, SlotInv, ConcurrencyBound, Active, taskVars, procVars, monVars,
      queueVars, trainVars
<1>13. CASE EndSignal
  BY <1>13, Limits
  DEF EndSignal, TypeOK, SlotInv, ConcurrencyBound, Active, taskVars, procVars,
      monVars, queueVars, trainVars
<1>14. CASE StopRunning
  BY <1>14, Limits
  DEF StopRunning, TypeOK, SlotInv, ConcurrencyBound, Active, taskVars, procVars,
      monVars, queueVars, trainVars
<1>15. CASE Put
  BY <1>15, Limits
  DEF Put, TypeOK, SlotInv, ConcurrencyBound, Active, taskVars, procVars, monVars,
      queueVars, trainVars
<1>16. CASE Done
  BY <1>16, Limits
  DEF Done, TypeOK, SlotInv, ConcurrencyBound, Active, taskVars, procVars, monVars,
      queueVars, trainVars
<1>17. CASE Fail
  BY <1>17, Limits
  DEF Fail, TypeOK, SlotInv, ConcurrencyBound, Active, taskVars, procVars, monVars,
      queueVars, trainVars
<1>18. CASE ResetCall
  BY <1>18, Limits
  DEF ResetCall, TypeOK, SlotInv, ConcurrencyBound, Active, taskVars, procVars,
      monVars, queueVars, trainVars
<1>19. CASE ResetCount
  BY <1>19, Limits
  DEF ResetCount, TypeOK, SlotInv, ConcurrencyBound, Active, taskVars, procVars,
      monVars, queueVars, trainVars
<1>20. CASE ResetSize
  BY <1>20, Limits
  DEF ResetSize, TypeOK, SlotInv, ConcurrencyBound, Active, taskVars, procVars,
      monVars, queueVars, trainVars
<1>21. CASE ResetEnd
  BY <1>21, Limits
  DEF ResetEnd, TypeOK, SlotInv, ConcurrencyBound, Active, taskVars, procVars,
      monVars, queueVars, trainVars
<1>22. CASE MonitorTop
  BY <1>22, Limits
  DEF MonitorTop, TypeOK, SlotInv, ConcurrencyBound, Active, taskVars, procVars,
      monVars, queueVars, trainVars
<1>23. CASE MonitorWakes
  BY <1>23, Limits
  DEF MonitorWakes, TypeOK, SlotInv, ConcurrencyBound, Active, taskVars, procVars,
      monVars, queueVars, trainVars
<1>24. CASE MonitorDecide
  BY <1>24, Limits
  DEF MonitorDecide, TypeOK, SlotInv, ConcurrencyBound, Active, taskVars, procVars,
      monVars, queueVars, trainVars
<1>25. CASE MonitorResume
  BY <1>25, Limits
  DEF MonitorResume, TypeOK, SlotInv, ConcurrencyBound, Active, taskVars, procVars,
      monVars, queueVars, trainVars
<1>26. CASE GetSample
  BY <1>26, Limits
  DEF GetSample, TypeOK, SlotInv, ConcurrencyBound, Active, taskVars, procVars,
      monVars, queueVars, trainVars
<1>27. CASE GetEnd
  BY <1>27, Limits
  DEF GetEnd, TypeOK, SlotInv, ConcurrencyBound, Active, taskVars, procVars, monVars,
      queueVars, trainVars
<1>28. CASE Train
  BY <1>28, Limits
  DEF Train, TypeOK, SlotInv, ConcurrencyBound, Active, taskVars, procVars, monVars,
      queueVars, trainVars
<1>29. CASE UNCHANGED vars
  BY <1>29
  DEF SlotInv, ConcurrencyBound, Active, vars, taskVars, procVars, monVars, queueVars,
      trainVars
<1> QED
  BY <1>1, <1>2, <1>3, <1>4, <1>5, <1>6, <1>7, <1>8, <1>9, <1>10, <1>11, <1>12, <1>13,
     <1>14, <1>15, <1>16, <1>17, <1>18, <1>19, <1>20, <1>21, <1>22, <1>23, <1>24,
     <1>25, <1>26, <1>27, <1>28, <1>29
  DEF Next, Processor, Reset, Monitor, Trainer, Terminating

-----------------------------------------------------------------------------
\* The invariant holds in every reachable state of the protocol.
THEOREM Invariance == Spec => []IInv
<1>1. Init => IInv
  <2> SUFFICES ASSUME Init PROVE IInv
    OBVIOUS
  <2>1. TypeOK
    <3>1. /\ lockq \in Seq({"processor", "monitor", "reset"})
          /\ queue \in Seq({"sample", "end"})
      BY DEF Init
    <3>2. next \in 1 .. Total + 2 /\ localStep \in 1 .. Trigger
      BY Limits DEF Init
    <3> QED
      BY <3>1, <3>2 DEF Init, TypeOK
  <2>2. Active = 0 /\ Outstanding = 0
    BY DEF Init, Active, Outstanding, Submitted, InHand
  <2> QED
    BY <2>1, <2>2, Limits
    DEF Init, IInv, DueInv, ResetHolds, TallyInv, StaleInv, OutstandingBound,
        SlotInv, ConcurrencyBound
<1>2. IInv /\ [Next]_vars => IInv'
  BY Typed, DueKept, ResetHoldsKept, TallyKept, StaleKept, SlotKept DEF IInv
<1> QED
  BY <1>1, <1>2, PTL DEF Spec

\* Every variable keeps its type; in particular no count of tasks becomes
\* negative when the drain loop discards what it saw before it got the lock.
THEOREM TypeCorrect == Spec => []TypeOK
<1>1. IInv => TypeOK
  BY DEF IInv
<1> QED
  BY <1>1, Invariance, PTL

\* The rollouter is never more than one sample ahead of max_required_samples,
\* however its pauses, resumes and the trainer's resets interleave.
THEOREM AheadByOne == Spec => []OutstandingBound
<1>1. IInv => OutstandingBound
  BY DEF IInv
<1> QED
  BY <1>1, Invariance, PTL

\* The processor never has more than max_concurrent_samples active tasks.
THEOREM BoundedConcurrency == Spec => []ConcurrencyBound
<1>1. IInv => ConcurrencyBound
  BY DEF IInv
<1> QED
  BY <1>1, Invariance, PTL
-----------------------------------------------------------------------------
(***************************************************************************)
(* How many samples the queue may drop.  It overflows only when the         *)
(* rollouter is ahead by more than MaxRequired; that takes a staleness      *)
(* counter which is one short, and the first sample that the queue gives    *)
(* away or drops makes up for it (Within) until the next reset.             *)
(***************************************************************************)
Within == Outstanding <= MaxRequired /\ (Outstanding <= staleness \/ Signalled = 1)

EndInv ==
  /\ \A n \in DOMAIN queue : queue[n] = "end" => Signalled = 1
  /\ ended => Signalled = 1

DropInv ==
  /\ tpc # "collect" => Within
  /\ dropped <= version
  /\ ~Within => dropped < version
  /\ tpc \in {"sync", "resetting", "counting", "sized"} /\ ~ended => dropped < version

\* What put_sample does, by the limit.
LEMMA PushFacts ==
  ASSUME TypeOK, NEW x \in {"sample", "end"}, Push(x)
  PROVE  /\ Len(queue) \in Nat /\ Len(queue') \in Nat /\ dropped' \in Nat
         /\ \/ Len(queue') = Len(queue) + 1 /\ dropped' = dropped
            \/ /\ Len(queue) >= MaxRequired /\ Len(queue') = Len(queue)
               /\ dropped' = dropped + 1
         /\ queue' # <<>> /\ queue'[Len(queue')] = x
         /\ \A n \in DOMAIN queue' :
               \/ n = Len(queue')
               \/ n + 1 \in DOMAIN queue /\ queue'[n] = queue[n + 1]
               \/ n \in DOMAIN queue /\ queue'[n] = queue[n]
<1> DEFINE E == {"sample", "end"}
<1>1. queue \in Seq(E) /\ dropped \in Nat /\ Len(queue) \in Nat
  BY DEF TypeOK
<1>2. CASE Len(queue) >= MaxRequired
  <2>1. queue # <<>> /\ Len(queue) > 0
    BY <1>1, <1>2, Limits, EmptySeq
  <2> DEFINE t == Tail(queue)
  <2>2. t \in Seq(E) /\ Len(t) = Len(queue) - 1 /\ \A n \in 1 .. Len(t) : t[n] = queue[n + 1]
    BY <1>1, <2>1, HeadTailProperties
  <2>3. queue' = Append(t, x) /\ dropped' = dropped + 1
    BY <1>2 DEF Push
  <2> HIDE DEF t, E
  <2>4. x \in E
    BY DEF E
  <2>5. /\ queue' \in Seq(E) /\ Len(queue') = Len(t) + 1 /\ queue'[Len(t) + 1] = x
        /\ \A n \in 1 .. Len(t) : queue'[n] = t[n]
    BY <2>2, <2>3, <2>4, AppendProperties
  <2>6. Len(queue') = Len(queue) /\ Len(t) \in Nat
    BY <1>1, <2>1, <2>2, <2>5
  <2>7. DOMAIN queue' = 1 .. Len(queue') /\ DOMAIN queue = 1 .. Len(queue)
    BY <1>1, <2>5, LenProperties
  <2>8. \A n \in DOMAIN queue' :
           n = Len(queue') \/ (n + 1 \in DOMAIN queue /\ queue'[n] = queue[n + 1])
    BY <1>1, <2>2, <2>5, <2>6, <2>7
  <2>9. queue' # <<>>
    BY <2>1, <2>6, EmptySeq
  <2> QED
    BY <1>1, <1>2, <2>2, <2>3, <2>5, <2>6, <2>8, <2>9
<1>3. CASE ~(Len(queue) >= MaxRequired)
  <2>3. queue' = Append(queue, x) /\ dropped' = dropped
    BY <1>3 DEF Push
  <2> HIDE DEF E
  <2>4. x \in E
    BY DEF E
  <2>5. /\ queue' \in Seq(E) /\ Len(queue') = Len(queue) + 1 /\ queue'[Len(queue) + 1] = x
        /\ \A n \in 1 .. Len(queue) : queue'[n] = queue[n]
    BY <1>1, <2>3, <2>4, AppendProperties
  <2>7. DOMAIN queue' = 1 .. Len(queue') /\ DOMAIN queue = 1 .. Len(queue)
    BY <1>1, <2>5, LenProperties
  <2>8. \A n \in DOMAIN queue' :
           n = Len(queue') \/ (n \in DOMAIN queue /\ queue'[n] = queue[n])
    BY <1>1, <2>5, <2>7
  <2>9. queue' # <<>>
    BY <1>1, <2>5, EmptySeq
  <2> QED
    BY <1>1, <2>3, <2>5, <2>8, <2>9
<1> QED
  BY <1>2, <1>3

\* get_sample shifts the rest.
LEMMA PopFacts ==
  ASSUME TypeOK, queue # <<>>, queue' = Tail(queue)
  PROVE  /\ Len(queue) \in Nat /\ Len(queue) > 0 /\ Len(queue') = Len(queue) - 1
         /\ 1 \in DOMAIN queue /\ Head(queue) = queue[1]
         /\ DOMAIN queue = 1 .. Len(queue) /\ DOMAIN queue' = 1 .. Len(queue')
         /\ \A n \in DOMAIN queue' : n + 1 \in DOMAIN queue /\ queue'[n] = queue[n + 1]
<1> DEFINE E == {"sample", "end"}
<1>1. queue \in Seq(E) /\ Len(queue) \in Nat /\ Len(queue) > 0
  BY EmptySeq DEF TypeOK
<1>2. /\ queue' \in Seq(E) /\ Len(queue') = Len(queue) - 1 /\ Head(queue) = queue[1]
      /\ \A n \in 1 .. Len(queue') : queue'[n] = queue[n + 1]
  BY <1>1, HeadTailProperties
<1> HIDE DEF E
<1>3. DOMAIN queue = 1 .. Len(queue) /\ DOMAIN queue' = 1 .. Len(queue')
  BY <1>1, <1>2, LenProperties
<1> QED
  BY <1>1, <1>2, <1>3

\* The end marker is in the queue or gone only if the processor has sent it.
LEMMA EndKept ==
  ASSUME TypeOK, EndInv, [Next]_vars
  PROVE  EndInv'
<1>1. CASE EndSignal
  BY <1>1 DEF EndSignal, EndInv, Signalled
<1>2. CASE Put
  <2>1. Push("sample") /\ UNCHANGED <<ppc, ended>>
    BY <1>2 DEF Put, procVars, trainVars
  <2>2. \A n \in DOMAIN queue' : queue'[n] = "end" => \E m \in DOMAIN queue : queue[m] = "end"
    BY <2>1, PushFacts
  <2> QED
    BY <2>1, <2>2 DEF EndInv, Signalled
<1>3. CASE GetSample
  <2>1. queue # <<>> /\ queue' = Tail(queue) /\ UNCHANGED <<ppc, ended>>
    BY <1>3 DEF GetSample, procVars
  <2>2. \A n \in DOMAIN queue' : queue'[n] = "end" => \E m \in DOMAIN queue : queue[m] = "end"
    BY <2>1, PopFacts
  <2> QED
    BY <2>1, <2>2 DEF EndInv, Signalled
<1>4. CASE GetEnd
  <2>1. queue # <<>> /\ Head(queue) = "end" /\ queue' = Tail(queue) /\ UNCHANGED ppc
    BY <1>4 DEF GetEnd, procVars
  <2>2. \E m \in DOMAIN queue : queue[m] = "end"
    BY <2>1, PopFacts
  <2> QED
    BY <2>1, <2>2 DEF EndInv, Signalled
<1>5. CASE \/ Take \/ TakeEnd \/ ReadStatistics \/ DecidePause \/ SetPaused \/ AwaitSlot
           \/ Submit \/ AwaitEnd \/ DrainWake \/ Reap \/ ReapFailure \/ Resume \/ StopRunning
  <2>1. UNCHANGED <<queue, ended>>
    BY <1>5 DEF Take, TakeEnd, ReadStatistics, DecidePause, SetPaused, AwaitSlot, Submit, AwaitEnd,
                DrainWake, Reap, ReapFailure, Resume, StopRunning, queueVars, trainVars
  <2>2. Signalled = 1 => Signalled' = 1
    BY <1>5 DEF Signalled, Take, TakeEnd, ReadStatistics, DecidePause, SetPaused, AwaitSlot,
                Submit, AwaitEnd, DrainWake, Reap, ReapFailure, Resume, StopRunning
  <2> QED
    BY <2>1, <2>2 DEF EndInv
<1>6. CASE \/ Done \/ Fail \/ Reset \/ Monitor \/ Train \/ UNCHANGED vars
  <2>1. UNCHANGED <<queue, ended, ppc>>
    BY <1>6 DEF Done, Fail, Reset, ResetCall, ResetCount, ResetSize, ResetEnd, Monitor, MonitorTop,
                MonitorWakes, MonitorDecide, MonitorResume, Train, vars, procVars, queueVars, trainVars
  <2> QED
    BY <2>1 DEF EndInv, Signalled
<1> QED
  BY <1>1, <1>2, <1>3, <1>4, <1>5, <1>6
  DEF Next, Processor, Trainer, Terminating

\* A step that submits nothing, and one that does: what they mean for DropInv.
LEMMA DropQuiet ==
  ASSUME TypeOK, TypeOK', DropInv, Outstanding' <= Outstanding, staleness' = staleness,
         Signalled = 1 => Signalled' = 1, UNCHANGED <<dropped, version, ended>>,
         \/ tpc' = tpc
         \/ /\ tpc \in {"sync", "resetting", "counting", "sized"}
            /\ tpc' \in {"sync", "resetting", "counting", "sized"}
  PROVE  DropInv'
<1>1. MaxRequired \in Nat /\ Outstanding \in Nat /\ Outstanding' \in Nat /\ staleness \in Nat
  BY Limits, OutstandingType
<1>2. Within => Within'
  BY <1>1 DEF Within
<1> QED
  BY <1>2 DEF DropInv

\* A step after which the rollouter is not ahead, and no update is under way.
LEMMA DropWithin ==
  ASSUME Within', dropped' <= version',
         tpc' \in {"sync", "resetting", "counting", "sized"} /\ ~ended' => dropped' < version'
  PROVE  DropInv'
BY DEF DropInv

\* Sums of four counts that differ in some of them.
LEMMA SumsOfCounts ==
  ASSUME NEW a \in Nat, NEW b \in Nat, NEW c \in Nat, NEW d \in Nat,
         NEW e \in Nat, NEW f \in Nat, NEW g \in Nat, NEW h \in Nat
  PROVE  /\ c = g /\ a + b + d <= e + f + h => a + b + c + d <= e + f + g + h
         /\ b = f /\ a + d = e + h - 1 => a + b + c + d = e + f + g + h + (c - g) - 1
OBVIOUS

\* put_sample drops only when the rollouter is ahead, and it is not after that.
LEMMA DropOnPush ==
  ASSUME TypeOK, TypeOK', DropInv, StaleInv, OutstandingBound, NEW x \in {"sample", "end"},
         Push(x), UNCHANGED <<staleness, version, ended, tpc, failed>>,
         NEW h \in Nat, NEW i \in Nat, InHand = h, InHand' = i,
         NEW r \in Nat, running' = r, r + i = running + h - 1, Signalled = 1 => Signalled' = 1
  PROVE  DropInv'
<1> DEFINE l == Len(queue)
           m == Len(queue')
           o == Outstanding
           p == Outstanding'
<1>1. /\ l \in Nat /\ m \in Nat /\ dropped \in Nat /\ version \in Nat
      /\ \/ m = l + 1 /\ dropped' = dropped
         \/ l >= MaxRequired /\ m = l /\ dropped' = dropped + 1
  BY PushFacts DEF TypeOK
<1>2. /\ running \in Nat /\ failed \in Nat /\ staleness \in Nat /\ MaxRequired \in Nat
  BY Limits DEF TypeOK
<1>3. r + i = running + h - 1
  OBVIOUS
<1>4. o = running + failed + l + h /\ p = r + failed + m + i
  BY DEF Outstanding, Submitted
<1>5. o <= staleness + 1 /\ o <= MaxRequired + 1
  BY DEF StaleInv, OutstandingBound
<1>6. o \in Nat /\ p \in Nat
  BY OutstandingType
<1> HIDE DEF l, m, o, p
<1>7. CASE m = l + 1 /\ dropped' = dropped
  <2>1. p = o + (m - l) - 1
    BY <1>1, <1>2, <1>3, <1>4, SumsOfCounts
  <2>2. p = o
    BY <1>1, <1>6, <1>7, <2>1
  <2> QED
    BY <1>7, <2>2, <1>6, DropQuiet DEF o, p
<1>8. CASE l >= MaxRequired /\ m = l /\ dropped' = dropped + 1
  <2>0. p = o + (m - l) - 1
    BY <1>1, <1>2, <1>3, <1>4, SumsOfCounts
  <2>1. running + h >= 1 /\ p = o - 1
    BY <1>1, <1>2, <1>3, <1>6, <1>8, <2>0
  <2>2. o = MaxRequired + 1
    BY <1>1, <1>2, <1>3, <1>4, <1>5, <1>6, <1>8, <2>1
  <2>3. p <= MaxRequired /\ p <= staleness /\ ~(o <= MaxRequired)
    BY <1>2, <1>5, <1>6, <2>1, <2>2
  <2>4. Within' /\ ~Within
    BY <2>3 DEF Within, o, p
  <2>5. tpc = "collect" /\ dropped < version
    BY <2>4 DEF DropInv
  <2>6. dropped' <= version'
    BY <1>1, <1>8, <2>5
  <2> QED
    BY <2>4, <2>5, <2>6, DropWithin
<1> QED
  BY <1>1, <1>7, <1>8

LEMMA DropKept ==
  ASSUME TypeOK, TypeOK', DueInv, StaleInv, OutstandingBound, EndInv, DropInv, [Next]_vars
  PROVE  DropInv'
<1>0. /\ MaxRequired \in Nat /\ Outstanding \in Nat /\ Outstanding' \in Nat
      /\ staleness \in Nat /\ staleness' \in Nat
  BY Limits, OutstandingType DEF TypeOK
<1>1. CASE Take \/ TakeEnd
  <2>1. /\ staleness < MaxRequired /\ staleness' = staleness + 1
        /\ UNCHANGED <<tpc, dropped, version, ended, queue, running, failed>>
        /\ ppc = "answered" /\ ppc' \in {"full", "submitting", "ended", "ending"}
    BY <1>1, <1>0 DEF Take, TakeEnd, ShouldPause, taskVars, queueVars, trainVars
  <2>2. InHand = 0 /\ InHand' = 1 /\ Signalled = 0
    BY <2>1 DEF InHand, Signalled
  <2>3. running + failed + Len(queue) \in Nat
    BY LengthType DEF TypeOK
  <2>4. Outstanding' = Outstanding + 1
    BY <2>1, <2>2, <2>3 DEF Outstanding, Submitted
  <2>5. Within => Within'
    BY <1>0, <2>1, <2>2, <2>4 DEF Within
  <2> QED
    BY <2>1, <2>5 DEF DropInv
<1>2. CASE Put
  <2>1. /\ Push("sample") /\ running' = running - 1
        /\ UNCHANGED <<staleness, version, ended, tpc, failed, ppc>>
    BY <1>2 DEF Put, procVars, trainVars
  <2>2. InHand' = InHand /\ InHand \in {0, 1} /\ Signalled' = Signalled
    BY <2>1 DEF InHand, Signalled
  <2>3. PICK h \in Nat, i \in Nat, r \in Nat :
           InHand = h /\ InHand' = i /\ running' = r /\ r + i = running + h - 1
    BY <2>1, <2>2 DEF TypeOK
  <2> QED
    BY <2>1, <2>2, <2>3, DropOnPush
<1>3. CASE EndSignal
  <2>1. /\ Push("end") /\ ppc \in {"ended", "failed"} /\ ppc' = "stopping"
        /\ UNCHANGED <<staleness, version, ended, tpc, failed, running>>
    BY <1>3 DEF EndSignal, taskVars, trainVars
  <2>2. InHand' = 0 /\ InHand = 1 /\ Signalled' = 1
    BY <2>1 DEF InHand, Signalled
  <2>3. PICK h \in Nat, i \in Nat, r \in Nat :
           InHand = h /\ InHand' = i /\ running' = r /\ r + i = running + h - 1
    BY <2>1, <2>2 DEF TypeOK
  <2> QED
    BY <2>1, <2>2, <2>3, DropOnPush
<1>4. CASE GetSample \/ GetEnd
  <2>1. /\ queue # <<>> /\ queue' = Tail(queue) /\ tpc = "collect"
        /\ UNCHANGED <<staleness, version, dropped, running, failed, ppc>>
        /\ ended' \/ tpc' \in {"collect", "train"}
    BY <1>4 DEF GetSample, GetEnd, taskVars, procVars
  <2>2. InHand' = InHand /\ InHand \in {0, 1}
    BY <2>1 DEF InHand
  <2>3. Len(queue) \in Nat /\ Len(queue') = Len(queue) - 1
    BY <2>1, PopFacts
  <2>4. running \in Nat /\ failed \in Nat
    BY DEF TypeOK
  <2>5. Outstanding' = Outstanding - 1
    BY <2>1, <2>2, <2>3, <2>4 DEF Outstanding, Submitted
  <2>6. Within'
    BY <1>0, <2>1, <2>5 DEF Within, StaleInv, OutstandingBound
  <2>7. dropped' <= version'
    BY <2>1 DEF DropInv
  <2> QED
    BY <2>1, <2>6, <2>7, DropWithin
<1>5. CASE Train
  <2>1. /\ tpc = "train" /\ dropped' = dropped
        /\ \/ version' = version + 1
           \/ version' = version /\ tpc' = "collect"
        /\ UNCHANGED <<staleness, running, failed, queue, ppc>>
    BY <1>5 DEF Train, taskVars, procVars, queueVars
  <2>2. UNCHANGED <<Outstanding, Signalled>>
    BY <2>1 DEF Outstanding, Submitted, InHand, Signalled
  <2>3. Within'
    BY <2>1, <2>2 DEF Within, DropInv
  <2>4. dropped <= version /\ dropped \in Nat /\ version \in Nat
    BY DEF DropInv, TypeOK
  <2>5. /\ dropped' <= version'
        /\ tpc' \in {"sync", "resetting", "counting", "sized"} => dropped' < version'
    BY <2>1, <2>4
  <2> QED
    BY <2>3, <2>5, DropWithin
<1>6. CASE ResetEnd
  <2>1. /\ tpc = "sized" /\ tpc' = IF ended THEN "done" ELSE "collect"
        /\ UNCHANGED <<version, dropped, ended, running, failed, queue, ppc>>
    BY <1>6 DEF ResetEnd, taskVars, procVars, queueVars
  <2>2. UNCHANGED <<Outstanding, Signalled>>
    BY <2>1 DEF Outstanding, Submitted, InHand, Signalled
  <2>3. CASE ended
    <3>1. Signalled = 1 /\ Outstanding <= MaxRequired /\ dropped <= version
      BY <2>1, <2>3 DEF EndInv, DropInv, Within
    <3>2. Within'
      BY <2>2, <3>1 DEF Within
    <3> QED
      BY <2>1, <2>3, <3>1, <3>2, DropWithin
  <2>4. CASE ~ended
    BY <2>1, <2>4 DEF DropInv
  <2> QED
    BY <2>3, <2>4
<1>7. CASE ResetCall \/ ResetCount \/ ResetSize
  <2>1. /\ tpc \in {"sync", "resetting", "counting", "sized"}
        /\ tpc' \in {"sync", "resetting", "counting", "sized"}
        /\ UNCHANGED <<version, dropped, ended, running, failed, queue, ppc, staleness>>
    BY <1>7 DEF ResetCall, ResetCount, ResetSize, taskVars, procVars, queueVars
  <2>2. UNCHANGED <<Outstanding, Signalled>>
    BY <2>1 DEF Outstanding, Submitted, InHand, Signalled
  <2> QED
    BY <1>0, <2>1, <2>2, DropQuiet
<1>8. CASE Submit \/ AwaitSlot \/ AwaitEnd \/ Reap \/ ReapFailure \/ StopRunning
  <2>1. /\ UNCHANGED <<version, dropped, ended, tpc, staleness, queue>>
        /\ Signalled = 1 => Signalled' = 1
    BY <1>8 DEF Submit, AwaitSlot, AwaitEnd, Reap, ReapFailure, StopRunning, queueVars, trainVars,
                Signalled
  <2>2. Len(queue) \in Nat /\ running \in Nat /\ failed \in Nat /\ running' \in Nat /\ failed' \in Nat
    BY LengthType DEF TypeOK
  <2>3. InHand \in Nat /\ InHand' \in Nat
    BY DEF InHand
  <2>4. running' + failed' + InHand' <= running + failed + InHand
    <3>1. CASE Submit
      BY <2>2, <3>1 DEF Submit, InHand
    <3>2. CASE AwaitSlot
      BY <2>2, <3>2 DEF AwaitSlot, ReapAll, InHand
    <3>3. CASE AwaitEnd
      BY <2>2, <3>3 DEF AwaitEnd, ReapAll, InHand
    <3>4. CASE Reap
      BY <2>2, <3>4 DEF Reap, InHand
    <3>5. CASE ReapFailure
      BY <2>2, <3>5 DEF ReapFailure, InHand
    <3>6. CASE StopRunning
      BY <2>2, <3>6 DEF StopRunning, InHand, taskVars
    <3> QED
      BY <1>8, <3>1, <3>2, <3>3, <3>4, <3>5, <3>6
  <2>5. PICK l \in Nat, h \in Nat, i \in Nat, r \in Nat, f \in Nat :
           l = Len(queue) /\ h = InHand /\ i = InHand' /\ r = running' /\ f = failed'
    BY <2>2, <2>3
  <2>6. /\ Outstanding = running + failed + l + h
        /\ Outstanding' = r + f + l + i
    BY <2>1, <2>5 DEF Outstanding, Submitted
  <2>7. r + f + i <= running + failed + h
    BY <2>4, <2>5
  <2>8. Outstanding' <= Outstanding
    BY <2>2, <2>6, <2>7
  <2> QED
    BY <2>1, <2>8, DropQuiet
<1>9. CASE \/ ReadStatistics \/ DecidePause \/ SetPaused \/ DrainWake \/ Resume
           \/ Done \/ Monitor \/ UNCHANGED vars
  <2>1. /\ UNCHANGED <<version, dropped, ended, tpc, staleness, queue, running, failed>>
        /\ InHand' = InHand /\ Signalled' = Signalled
    BY <1>9 DEF ReadStatistics, DecidePause, SetPaused, DrainWake, Resume, Done, Monitor, MonitorTop,
                MonitorWakes, MonitorDecide, MonitorResume, vars, taskVars, procVars, queueVars,
                trainVars, InHand, Signalled
  <2>2. Outstanding' = Outstanding
    BY <2>1 DEF Outstanding, Submitted
  <2> QED
    BY <1>0, <2>1, <2>2, DropQuiet
<1>10. CASE Fail
  <2>1. /\ UNCHANGED <<version, dropped, ended, tpc, staleness, queue, ppc>>
        /\ running' + failed' = running + failed
    BY <1>10 DEF Fail, procVars, queueVars, trainVars, TypeOK
  <2>2. UNCHANGED <<Outstanding, Signalled>>
    BY <2>1 DEF Outstanding, Submitted, InHand, Signalled
  <2> QED
    BY <1>0, <2>1, <2>2, DropQuiet
<1> QED
  BY <1>1, <1>2, <1>3, <1>4, <1>5, <1>6, <1>7, <1>8, <1>9, <1>10
  DEF Next, Processor, Reset, Trainer, Terminating

\* put_sample drops at most one sample per parameter update: after a drop the
\* rollouter is within its limit, and only the next reset_staleness can set it
\* ahead again.
THEOREM DropsAreFew == Spec => []DropsBoundedByUpdates
<1> DEFINE Inv == EndInv /\ DropInv
<1>1. Init => Inv
  <2> SUFFICES ASSUME Init PROVE Inv
    OBVIOUS
  <2>1. EndInv
    BY DEF Init, EndInv
  <2>2. Outstanding = 0 /\ staleness = 0 /\ dropped = 0 /\ version = 0 /\ tpc = "collect"
    BY DEF Init, Outstanding, Submitted, InHand
  <2>3. Within
    BY <2>2, Limits DEF Within
  <2> QED
    BY <2>1, <2>2, <2>3 DEF DropInv
<1>2. Inv /\ IInv /\ [Next]_vars => Inv'
  BY Typed, EndKept, DropKept DEF IInv
<1>3. Inv => DropsBoundedByUpdates
  BY DEF DropInv, DropsBoundedByUpdates
<1> QED
  BY <1>1, <1>2, <1>3, Invariance, PTL DEF Spec
-----------------------------------------------------------------------------
(***************************************************************************)
(* What becomes of the samples when no generation fails.  Every sample     *)
(* taken from the feed is in exactly one place: the processor's hand, a    *)
(* running task, the queue, the batch being collected, the trained ones or *)
(* the dropped ones (CountInv).  The end marker is sent after the last     *)
(* task has put its sample (LastInv), so it is the last of the queue       *)
(* (MarkInv), and what the trainer discards with it is less than a batch   *)
(* (BatchInv).                                                             *)
(***************************************************************************)
NoneFailed == failed = 0 /\ due.failed = 0 /\ ppc # "failed"

AtEnd == ppc \in {"ending", "ended", "stopping", "stopped"}

LastInv ==
  /\ AtEnd <=> (next = Total + 2)
  /\ ppc \in {"ended", "stopping", "stopped"} => running = 0

MarkInv ==
  /\ \A n \in DOMAIN queue : queue[n] = "end" => n = Len(queue) /\ Signalled = 1
  /\ ended => queue = <<>> /\ Signalled = 1
  /\ Signalled = 1 /\ ~ended => queue # <<>> /\ queue[Len(queue)] = "end"

BatchInv ==
  /\ tpc = "done" => ended
  /\ tpc \in {"collect", "train"} => ~ended
  /\ tpc # "train" => got < Required
  /\ tpc = "train" => got = Required
  /\ tpc \notin {"collect", "train"} => got = 0
  /\ \E k \in Nat : trained = k * Required

\* The sample in the processor's hand, and the samples taken from the feed.
Held == IF ppc \in {"full", "submitting"} THEN 1 ELSE 0
Fed == IF AtEnd THEN Total ELSE next - 1

CountInv ==
  /\ ~ended => trained + got + dropped + running + Len(queue) + Held = Fed + Signalled
  /\ ended => trained + dropped <= Total /\ Total < trained + dropped + Required

FlowInv == failures = 0 => NoneFailed /\ LastInv /\ MarkInv /\ CountInv

LEMMA RequiredType == Required \in Nat /\ Required >= 1 /\ Total \in Nat
BY ConstantsAssumption

\* The trainer collects and trains whole batches, and fit() ends after the end.
LEMMA BatchKept ==
  ASSUME TypeOK, BatchInv, [Next]_vars
  PROVE  BatchInv'
<1>0. got \in Nat /\ trained \in Nat
  BY DEF TypeOK
<1>1. CASE GetSample
  <2>1. /\ tpc = "collect" /\ got' = got + 1 /\ UNCHANGED <<trained, ended>>
        /\ tpc' = IF got + 1 = Required THEN "train" ELSE "collect"
    BY <1>1 DEF GetSample
  <2>2. got + 1 <= Required
    BY <1>0, <2>1, RequiredType DEF BatchInv
  <2> QED
    BY <1>0, <2>1, <2>2, RequiredType DEF BatchInv
<1>2. CASE GetEnd
  <2>1. /\ tpc' \in {"sync", "done"} /\ got' = 0 /\ ended' = TRUE /\ UNCHANGED trained
    BY <1>2 DEF GetEnd
  <2> QED
    BY <2>1, RequiredType DEF BatchInv
<1>3. CASE Train
  <2>1. /\ tpc = "train" /\ tpc' \in {"collect", "sync"} /\ got' = 0 /\ UNCHANGED ended
        /\ trained' = trained + got
    BY <1>3 DEF Train
  <2>2. PICK k \in Nat : trained = k * Required
    BY DEF BatchInv
  <2>3. trained' = (k + 1) * Required /\ k + 1 \in Nat
    BY <2>1, <2>2, RequiredType DEF BatchInv
  <2> QED
    BY <2>1, <2>3, RequiredType DEF BatchInv
<1>4. CASE Reset
  <2>1. /\ UNCHANGED <<got, trained, ended>>
        /\ tpc' \in {"resetting", "counting", "sized"} \/ tpc' = IF ended THEN "done" ELSE "collect"
        /\ tpc \notin {"collect", "train"}
    BY <1>4 DEF Reset, ResetCall, ResetCount, ResetSize, ResetEnd
  <2> QED
    BY <2>1 DEF BatchInv
<1>5. CASE Processor \/ Put \/ Done \/ Fail \/ Monitor \/ UNCHANGED vars
  <2>1. UNCHANGED <<tpc, got, trained, ended>>
    BY <1>5 DEF Processor, Take, TakeEnd, ReadStatistics, DecidePause, SetPaused, AwaitSlot, Submit,
                AwaitEnd, DrainWake, Reap, ReapFailure, Resume, EndSignal, StopRunning, Put, Done,
                Fail, Monitor, MonitorTop, MonitorWakes, MonitorDecide, MonitorResume, vars, trainVars
  <2> QED
    BY <2>1 DEF BatchInv
<1> QED
  BY <1>1, <1>2, <1>3, <1>4, <1>5 DEF Next, Trainer, Terminating

\* Without a failed generation no task and no reap fails.
LEMMA NoneFailedKept ==
  ASSUME TypeOK, NoneFailed, failures = 0, failures' = 0, [Next]_vars
  PROVE  NoneFailed'
<1>1. CASE AwaitSlot \/ AwaitEnd
  BY <1>1 DEF AwaitSlot, AwaitEnd, ReapAll, NoneFailed
<1>2. CASE DrainWake
  BY <1>2 DEF DrainWake, taskVars, NoneFailed
<1>3. CASE Reap
  BY <1>3 DEF Reap, NoneFailed
<1>4. CASE ReapFailure
  BY <1>4 DEF ReapFailure, NoneFailed, TypeOK
<1>5. CASE Fail
  BY <1>5 DEF Fail
<1>6. CASE \/ Take \/ TakeEnd \/ ReadStatistics \/ DecidePause \/ SetPaused \/ Submit \/ Resume
           \/ EndSignal \/ StopRunning
  BY <1>6 DEF Take, TakeEnd, ReadStatistics, DecidePause, SetPaused, Submit, Resume, EndSignal,
              StopRunning, taskVars, NoneFailed
<1>7. CASE Put \/ Done \/ Reset \/ Monitor \/ Trainer \/ UNCHANGED vars
  BY <1>7 DEF Put, Done, Reset, ResetCall, ResetCount, ResetSize, ResetEnd, Monitor, MonitorTop,
              MonitorWakes, MonitorDecide, MonitorResume, Trainer, GetSample, GetEnd, Train, vars,
              procVars, taskVars, NoneFailed
<1> QED
  BY <1>1, <1>2, <1>3, <1>4, <1>5, <1>6, <1>7 DEF Next, Processor, Terminating

\* The end marker waits for the tasks.
LEMMA LastKept ==
  ASSUME TypeOK, NoneFailed, LastInv, failures' = 0, failures = 0, [Next]_vars
  PROVE  LastInv'
<1>0. /\ next \in Int /\ running \in Nat /\ acking \in Nat /\ finished \in Nat /\ failed \in Nat
      /\ Total \in Nat
  BY Limits DEF TypeOK
<1>1. CASE Take
  <2>1. /\ next <= Total /\ next' = next + 1 /\ ppc' \in {"full", "submitting"}
    BY <1>1 DEF Take
  <2> QED
    BY <1>0, <2>1 DEF LastInv, AtEnd
<1>2. CASE TakeEnd
  <2>1. /\ next = Total + 1 /\ next' = next + 1 /\ running' = running
        /\ (ppc' = "ended" /\ Active = 0) \/ ppc' = "ending"
    BY <1>2 DEF TakeEnd, taskVars
  <2>2. Active = 0 => running = 0
    BY <1>0 DEF Active
  <2> QED
    BY <1>0, <2>1, <2>2 DEF LastInv, AtEnd
<1>3. CASE AwaitEnd
  <2>1. ppc = "ending" /\ next' = next /\ ReapAll /\ failed = 0
    BY <1>3 DEF AwaitEnd, NoneFailed
  <2>2. ppc' = "ending" \/ (ppc' = "ended" /\ Active' = 0)
    BY <1>3, <2>1 DEF AwaitEnd
  <2>3. Active' = 0 => running' = 0
    BY <1>0, <2>1 DEF Active, ReapAll
  <2> QED
    BY <1>0, <2>1, <2>2, <2>3 DEF LastInv, AtEnd
<1>4. CASE \/ ReadStatistics \/ DecidePause \/ SetPaused \/ DrainWake \/ Resume \/ StopRunning
           \/ EndSignal
  <2>1. UNCHANGED <<next, running>>
    BY <1>4 DEF ReadStatistics, DecidePause, SetPaused, DrainWake, Resume, StopRunning, EndSignal,
                taskVars
  <2>2. /\ AtEnd' <=> AtEnd
        /\ ppc' \in {"ended", "stopping", "stopped"} => ppc \in {"ended", "stopping", "stopped"}
    BY <1>4 DEF ReadStatistics, DecidePause, SetPaused, DrainWake, Resume, StopRunning, EndSignal,
                AtEnd, NoneFailed
  <2> QED
    BY <2>1, <2>2 DEF LastInv
<1>5. CASE AwaitSlot \/ Submit \/ Reap \/ ReapFailure
  <2>1. next' = next /\ ~AtEnd /\ ppc' \in {"check", "drain", "submitting"}
    BY <1>5 DEF AwaitSlot, Submit, Reap, ReapFailure, AtEnd, NoneFailed, TypeOK
  <2> QED
    BY <2>1 DEF LastInv, AtEnd
<1>6. CASE Put \/ Fail
  <2>1. UNCHANGED <<next, ppc>> /\ running # 0
    BY <1>0, <1>6 DEF Put, Fail, procVars
  <2> QED
    BY <2>1 DEF LastInv, AtEnd
<1>7. CASE Done \/ Reset \/ Monitor \/ Trainer \/ UNCHANGED vars
  <2>1. UNCHANGED <<next, ppc, running>>
    BY <1>7 DEF Done, Reset, ResetCall, ResetCount, ResetSize, ResetEnd, Monitor, MonitorTop,
                MonitorWakes, MonitorDecide, MonitorResume, Trainer, GetSample, GetEnd, Train, vars,
                procVars, taskVars
  <2> QED
    BY <2>1 DEF LastInv, AtEnd
<1> QED
  BY <1>1, <1>2, <1>3, <1>4, <1>5, <1>6, <1>7 DEF Next, Processor, Terminating

\* The end marker is the last of the queue, and the trainer's get of it empties
\* the queue for good.
LEMMA MarkKept ==
  ASSUME TypeOK, LastInv, NoneFailed, MarkInv, failures' = 0, failures = 0, [Next]_vars
  PROVE  MarkInv'
<1>1. CASE Put
  <2>1. Push("sample") /\ UNCHANGED <<ppc, ended>> /\ running # 0
    BY <1>1 DEF Put, procVars, trainVars, TypeOK
  <2>2. Signalled = 0 /\ Signalled' = 0
    BY <2>1 DEF LastInv, Signalled
  <2>3. \A n \in DOMAIN queue : queue[n] # "end"
    BY <2>2 DEF MarkInv
  <2>4. \A n \in DOMAIN queue' : queue'[n] # "end"
    BY <2>1, <2>3, PushFacts
  <2> QED
    BY <2>1, <2>2, <2>4 DEF MarkInv
<1>2. CASE EndSignal
  <2>1. Push("end") /\ ppc \in {"ended", "failed"} /\ ppc' = "stopping" /\ UNCHANGED ended
    BY <1>2 DEF EndSignal, trainVars
  <2>2. Signalled = 0 /\ Signalled' = 1 /\ ~ended
    BY <2>1 DEF MarkInv, Signalled
  <2>3. \A n \in DOMAIN queue : queue[n] # "end"
    BY <2>2 DEF MarkInv
  <2>4. /\ \A n \in DOMAIN queue' : queue'[n] = "end" => n = Len(queue')
        /\ queue' # <<>> /\ queue'[Len(queue')] = "end"
    BY <2>1, <2>3, PushFacts
  <2> QED
    BY <2>1, <2>2, <2>4 DEF MarkInv
<1>3. CASE GetSample
  <2>1. queue # <<>> /\ Head(queue) = "sample" /\ queue' = Tail(queue) /\ UNCHANGED <<ppc, ended>>
    BY <1>3 DEF GetSample, procVars
  <2>2. Signalled' = Signalled /\ ~ended
    BY <2>1 DEF MarkInv, Signalled
  <2>3. \A n \in DOMAIN queue' : queue'[n] = "end" => n = Len(queue') /\ Signalled = 1
    BY <2>1, PopFacts DEF MarkInv
  <2>4. ASSUME Signalled = 1 PROVE queue' # <<>> /\ queue'[Len(queue')] = "end"
    <3>1. queue[Len(queue)] = "end" /\ queue[1] = "sample"
      BY <2>1, <2>2, <2>4, PopFacts DEF MarkInv
    <3>2. Len(queue) # 1
      BY <3>1
    <3>3. Len(queue') \in DOMAIN queue' /\ Len(queue') + 1 = Len(queue)
      BY <2>1, <3>2, PopFacts
    <3>4. queue'[Len(queue')] = "end"
      BY <2>1, <3>1, <3>3, PopFacts
    <3> QED
      BY <3>3, <3>4, EmptySeq
  <2> QED
    BY <2>1, <2>2, <2>3, <2>4 DEF MarkInv
<1>4. CASE GetEnd
  <2>1. queue # <<>> /\ Head(queue) = "end" /\ queue' = Tail(queue) /\ ppc' = ppc /\ ended' = TRUE
    BY <1>4 DEF GetEnd, procVars
  <2>2. Len(queue) = 1 /\ Signalled = 1
    BY <2>1, PopFacts DEF MarkInv
  <2>3. Len(queue') = 0
    BY <2>1, <2>2, PopFacts
  <2>4. queue' = <<>>
    <3>1. queue' \in Seq({"sample", "end"})
      BY <2>1, TailLength DEF TypeOK
    <3> QED
      BY <2>3, <3>1, EmptySeq
  <2> QED
    BY <2>1, <2>2, <2>4 DEF MarkInv, Signalled
<1>5. CASE \/ Take \/ TakeEnd \/ ReadStatistics \/ DecidePause \/ SetPaused \/ AwaitSlot
           \/ Submit \/ AwaitEnd \/ DrainWake \/ Reap \/ ReapFailure \/ Resume \/ StopRunning
  <2>1. UNCHANGED <<queue, ended>>
    BY <1>5 DEF Take, TakeEnd, ReadStatistics, DecidePause, SetPaused, AwaitSlot, Submit, AwaitEnd,
                DrainWake, Reap, ReapFailure, Resume, StopRunning, queueVars, trainVars
  <2>2. Signalled' = Signalled
    BY <1>5 DEF Signalled, Take, TakeEnd, ReadStatistics, DecidePause, SetPaused, AwaitSlot,
                Submit, AwaitEnd, DrainWake, Reap, ReapFailure, Resume, StopRunning
  <2> QED
    BY <2>1, <2>2 DEF MarkInv
<1>6. CASE \/ Done \/ Fail \/ Reset \/ Monitor \/ Train \/ UNCHANGED vars
  <2>1. UNCHANGED <<queue, ended, ppc>>
    BY <1>6 DEF Done, Fail, Reset, ResetCall, ResetCount, ResetSize, ResetEnd, Monitor, MonitorTop,
                MonitorWakes, MonitorDecide, MonitorResume, Train, vars, procVars, queueVars, trainVars
  <2> QED
    BY <2>1 DEF MarkInv, Signalled
<1> QED
  BY <1>1, <1>2, <1>3, <1>4, <1>5, <1>6
  DEF Next, Processor, Trainer, Terminating

\* The counts are numbers.
LEMMA CountTypes ==
  ASSUME TypeOK
  PROVE  /\ trained \in Nat /\ got \in Nat /\ dropped \in Nat /\ running \in Nat
         /\ Len(queue) \in Nat /\ Held \in Nat /\ Fed \in Int /\ Signalled \in Nat
         /\ version \in Nat /\ Total \in Nat /\ next \in Int
BY LengthType, Limits DEF TypeOK, Held, Fed, Signalled

\* A sample moves from one place to another, or in from the feed.
LEMMA CountKept ==
  ASSUME TypeOK, TypeOK', BatchInv, LastInv, NoneFailed, MarkInv, CountInv,
         failures' = 0, failures = 0, [Next]_vars
  PROVE  CountInv'
<1>0. /\ trained \in Nat /\ got \in Nat /\ dropped \in Nat /\ running \in Nat
      /\ Len(queue) \in Nat /\ Held \in Nat /\ Fed \in Int /\ Signalled \in Nat
      /\ Total \in Nat /\ next \in Int
  BY CountTypes
<1>1. CASE Take
  <2>1. /\ UNCHANGED <<trained, got, dropped, running, queue, ended>>
        /\ ppc = "answered" /\ ppc' \in {"full", "submitting"} /\ next' = next + 1
    BY <1>1 DEF Take, taskVars, queueVars, trainVars
  <2>2. /\ Held = 0 /\ Held' = 1 /\ Fed = next - 1 /\ Fed' = next /\ Signalled = 0 /\ Signalled' = 0
    BY <1>0, <2>1 DEF Held, Fed, Signalled, AtEnd
  <2>3. ~ended
    BY <2>2 DEF MarkInv
  <2> QED
    BY <1>0, <2>1, <2>2, <2>3 DEF CountInv
<1>2. CASE TakeEnd
  <2>1. /\ UNCHANGED <<trained, got, dropped, running, queue, ended>>
        /\ ppc = "answered" /\ ppc' \in {"ended", "ending"} /\ next = Total + 1
    BY <1>2 DEF TakeEnd, taskVars, queueVars, trainVars
  <2>2. /\ Held = 0 /\ Held' = 0 /\ Fed = Total /\ Fed' = Total /\ Signalled = 0 /\ Signalled' = 0
    BY <1>0, <2>1 DEF Held, Fed, Signalled, AtEnd
  <2> QED
    BY <2>1, <2>2 DEF CountInv
<1>3. CASE Submit
  <2>1. /\ UNCHANGED <<trained, got, dropped, queue, ended, next>>
        /\ ppc = "submitting" /\ ppc' = "check" /\ running' = running + 1
    BY <1>3 DEF Submit, queueVars, trainVars
  <2>2. /\ Held = 1 /\ Held' = 0 /\ Fed' = Fed /\ Signalled = 0 /\ Signalled' = 0
    BY <2>1 DEF Held, Fed, Signalled, AtEnd
  <2>3. ~ended
    BY <2>2 DEF MarkInv
  <2> QED
    BY <1>0, <2>1, <2>2, <2>3 DEF CountInv
<1>4. CASE Put
  <2>1. /\ UNCHANGED <<trained, got, ended, next, ppc>> /\ Push("sample")
        /\ running # 0 /\ running' = running - 1
    BY <1>0, <1>4 DEF Put, procVars, trainVars
  <2>2. /\ Held' = Held /\ Fed' = Fed /\ Signalled = 0 /\ Signalled' = 0
    BY <2>1 DEF LastInv, Held, Fed, Signalled, AtEnd
  <2>3. ~ended
    BY <2>2 DEF MarkInv
  <2>4. \/ Len(queue') = Len(queue) + 1 /\ dropped' = dropped
        \/ Len(queue') = Len(queue) /\ dropped' = dropped + 1
    BY <2>1, PushFacts
  <2>5. trained + got + dropped + running + Len(queue) + Held = Fed + Signalled
    BY <2>3 DEF CountInv
  <2>6. /\ trained' = trained /\ got' = got /\ ended' = ended
        /\ running' = running - 1
    BY <1>0, <2>1
  <2>7. trained' + got' + dropped' + running' + Len(queue') + Held' = Fed' + Signalled'
    <3>1. CASE Len(queue') = Len(queue) + 1 /\ dropped' = dropped
      BY <1>0, <2>2, <2>5, <2>6, <3>1
    <3>2. CASE Len(queue') = Len(queue) /\ dropped' = dropped + 1
      BY <1>0, <2>2, <2>5, <2>6, <3>2
    <3> QED
      BY <2>4, <3>1, <3>2
  <2> QED
    BY <2>3, <2>6, <2>7 DEF CountInv
<1>5. CASE EndSignal
  <2>1. /\ UNCHANGED <<trained, got, ended, next, running>> /\ Push("end")
        /\ ppc = "ended" /\ ppc' = "stopping"
    BY <1>5 DEF EndSignal, taskVars, trainVars, NoneFailed
  <2>2. /\ Held' = Held /\ Fed' = Fed /\ Signalled = 0 /\ Signalled' = 1
    BY <2>1 DEF Held, Fed, Signalled, AtEnd
  <2>3. ~ended
    BY <2>2 DEF MarkInv
  <2>4. \/ Len(queue') = Len(queue) + 1 /\ dropped' = dropped
        \/ Len(queue') = Len(queue) /\ dropped' = dropped + 1
    BY <2>1, PushFacts
  <2>5. trained + got + dropped + running + Len(queue) + Held = Fed + Signalled
    BY <2>3 DEF CountInv
  <2>6. /\ trained' = trained /\ got' = got /\ ended' = ended
        /\ running' = running
    BY <1>0, <2>1
  <2>7. trained' + got' + dropped' + running' + Len(queue') + Held' = Fed' + Signalled'
    <3>1. CASE Len(queue') = Len(queue) + 1 /\ dropped' = dropped
      BY <1>0, <2>2, <2>5, <2>6, <3>1
    <3>2. CASE Len(queue') = Len(queue) /\ dropped' = dropped + 1
      BY <1>0, <2>2, <2>5, <2>6, <3>2
    <3> QED
      BY <2>4, <3>1, <3>2
  <2> QED
    BY <2>3, <2>6, <2>7 DEF CountInv
<1>6. CASE GetSample
  <2>1. /\ UNCHANGED <<trained, dropped, running, ended, next, ppc>>
        /\ queue # <<>> /\ queue' = Tail(queue) /\ got' = got + 1
    BY <1>6 DEF GetSample, procVars, taskVars
  <2>2. Held' = Held /\ Fed' = Fed /\ Signalled' = Signalled
    BY <2>1 DEF Held, Fed, Signalled, AtEnd
  <2>3. ~ended
    BY <2>1 DEF MarkInv
  <2>4. Len(queue') = Len(queue) - 1
    BY <2>1, PopFacts
  <2> QED
    BY <1>0, <2>1, <2>2, <2>3, <2>4 DEF CountInv
<1>7. CASE GetEnd
  <2>1. /\ UNCHANGED <<trained, dropped>> /\ tpc = "collect"
        /\ queue # <<>> /\ Head(queue) = "end" /\ ended' = TRUE
    BY <1>7 DEF GetEnd
  <2>2. ~ended /\ got < Required
    BY <2>1 DEF BatchInv
  <2>a. 1 \in DOMAIN queue /\ queue[1] = "end"
    BY <2>1, TailLength, ElementOfSeq, HeadTailProperties DEF TypeOK
  <2>3. Len(queue) = 1 /\ Signalled = 1
    BY <2>a DEF MarkInv
  <2>4. ppc \in {"stopping", "stopped"}
    BY <2>3 DEF Signalled
  <2>5. Held = 0 /\ running = 0 /\ Fed = Total
    BY <2>4 DEF Held, LastInv, Fed, AtEnd
  <2>6. trained + got + dropped = Total
    BY <1>0, <2>2, <2>3, <2>5 DEF CountInv
  <2> QED
    BY <1>0, <2>1, <2>2, <2>6, RequiredType DEF CountInv
<1>8. CASE Train
  <2>1. /\ UNCHANGED <<dropped, running, ended, next, ppc, queue>>
        /\ trained' = trained + got /\ got' = 0 /\ tpc = "train"
    BY <1>8 DEF Train, procVars, taskVars, queueVars
  <2>2. Held' = Held /\ Fed' = Fed /\ Signalled' = Signalled
    BY <2>1 DEF Held, Fed, Signalled, AtEnd
  <2>3. ~ended
    BY <2>1 DEF BatchInv
  <2> QED
    BY <1>0, <2>1, <2>2, <2>3 DEF CountInv
<1>9. CASE \/ ReadStatistics \/ DecidePause \/ SetPaused \/ DrainWake \/ Resume \/ StopRunning
           \/ AwaitSlot \/ AwaitEnd \/ Reap \/ ReapFailure
  <2>1. UNCHANGED <<trained, got, dropped, running, ended, next, queue>>
    BY <1>9 DEF ReadStatistics, DecidePause, SetPaused, DrainWake, Resume, StopRunning, AwaitSlot,
                AwaitEnd, Reap, ReapFailure, ReapAll, taskVars, queueVars, trainVars
  <2>2. AtEnd' = AtEnd /\ Held' = Held /\ Signalled' = Signalled
    <3>1. CASE AwaitSlot \/ AwaitEnd
      BY <3>1 DEF AwaitSlot, AwaitEnd, NoneFailed, AtEnd, Held, Signalled
    <3>2. CASE Reap \/ ReapFailure
      BY <3>2 DEF Reap, ReapFailure, NoneFailed, AtEnd, Held, Signalled
    <3>3. CASE \/ ReadStatistics \/ DecidePause \/ SetPaused \/ DrainWake \/ Resume
               \/ StopRunning
      BY <3>3 DEF ReadStatistics, DecidePause, SetPaused, DrainWake, Resume, StopRunning,
                  AtEnd, Held, Signalled
    <3> QED
      BY <1>9, <3>1, <3>2, <3>3
  <2> QED
    BY <2>1, <2>2 DEF CountInv, Fed
<1>10. CASE Done \/ Reset \/ Monitor \/ UNCHANGED vars
  <2>1. UNCHANGED <<trained, got, dropped, running, ended, next, queue, ppc>>
    BY <1>10 DEF Done, Reset, ResetCall, ResetCount, ResetSize, ResetEnd, Monitor, MonitorTop,
                 MonitorWakes, MonitorDecide, MonitorResume, vars, procVars, taskVars, queueVars,
                 trainVars
  <2> QED
    BY <2>1 DEF CountInv, Fed, AtEnd, Held, Signalled
<1>11. CASE Fail
  BY <1>11 DEF Fail
<1> QED
  BY <1>1, <1>2, <1>3, <1>4, <1>5, <1>6, <1>7, <1>8, <1>9, <1>10, <1>11
  DEF Next, Processor, Trainer, Terminating

\* Exceptions are counted, never forgotten.
LEMMA FailuresGrow ==
  ASSUME TypeOK, [Next]_vars
  PROVE  failures' = 0 => failures = 0
<1>1. CASE Fail
  BY <1>1 DEF Fail, TypeOK
<1>2. CASE Processor
  BY <1>2 DEF Processor, Take, TakeEnd, ReadStatistics, DecidePause, SetPaused, AwaitSlot, Submit,
              AwaitEnd, DrainWake, Reap, ReapFailure, Resume, EndSignal, StopRunning, ReapAll,
              taskVars
<1>3. CASE Put \/ Done \/ Reset \/ Monitor \/ Trainer \/ UNCHANGED vars
  BY <1>3 DEF Put, Done, Reset, ResetCall, ResetCount, ResetSize, ResetEnd, Monitor, MonitorTop,
              MonitorWakes, MonitorDecide, MonitorResume, Trainer, GetSample, GetEnd, Train, vars,
              taskVars
<1> QED
  BY <1>1, <1>2, <1>3 DEF Next, Terminating

LEMMA WholeQuotient ==
  ASSUME NEW k \in Nat, NEW x \in Nat, NEW r \in Nat, r >= 1, k * r <= x, x < k * r + r
  PROVE  x \div r = k
BY SMTT(20)

\* When no generation failed, the trainer has used every sample the queue did
\* not drop, up to the last whole batch, when fit() ends.
THEOREM BatchesAreTrained == Spec => []WholeBatchesTrained
<1> DEFINE Inv == BatchInv /\ FlowInv
<1>1. Init => Inv
  <2> SUFFICES ASSUME Init PROVE Inv
    OBVIOUS
  <2>1. BatchInv
    <3>1. 0 = 0 * Required /\ 0 \in Nat
      BY RequiredType
    <3> QED
      BY <3>1, RequiredType DEF Init, BatchInv
  <2>2. NoneFailed /\ MarkInv
    BY DEF Init, NoneFailed, MarkInv, Signalled
  <2>3. LastInv
    BY Limits DEF Init, LastInv, AtEnd
  <2>4. CountInv
    BY Limits DEF Init, CountInv, Held, Fed, AtEnd, Signalled
  <2> QED
    BY <2>1, <2>2, <2>3, <2>4 DEF FlowInv
<1>2. Inv /\ IInv /\ [Next]_vars => Inv'
  BY Typed, BatchKept, NoneFailedKept, LastKept, MarkKept, CountKept, FailuresGrow
  DEF IInv, FlowInv
<1>3. Inv /\ IInv => WholeBatchesTrained
  <2> SUFFICES ASSUME Inv, TypeOK, tpc = "done", failures = 0
               PROVE  trained = ((Total - dropped) \div Required) * Required
    BY DEF WholeBatchesTrained, IInv
  <2>1. PICK k \in Nat : trained = k * Required
    BY DEF BatchInv
  <2>2. trained + dropped <= Total /\ Total < trained + dropped + Required
    BY DEF BatchInv, FlowInv, CountInv
  <2>3. trained \in Nat /\ dropped \in Nat
    BY CountTypes
  <2>4. PICK x \in Nat : x = Total - dropped
    BY <2>2, <2>3, RequiredType
  <2>5. trained <= x /\ x < trained + Required
    BY <2>2, <2>3, <2>4, RequiredType
  <2>6. x \div Required = k
    BY <2>1, <2>5, RequiredType, WholeQuotient
  <2> QED
    BY <2>1, <2>4, <2>6
<1> QED
  BY <1>1, <1>2, <1>3, Invariance, PTL DEF Spec
=============================================================================
