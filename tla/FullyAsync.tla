----------------------------- MODULE FullyAsync -----------------------------
(***************************************************************************)
(* The streaming protocol of the fully async policy: the FullyAsync-       *)
(* Rollouter, the MessageQueue actor and the FullyAsyncTrainer of          *)
(* verl/experimental/fully_async_policy, from the first sample fed to the  *)
(* end of fit().                                                           *)
(*                                                                         *)
(* The rollouter is one asyncio event loop: what happens between two await *)
(* points that can yield is one action.  Its coroutines are the processor, *)
(* one task per sample, the monitor loop and reset_staleness, which the    *)
(* trainer calls by RPC.  They share an asyncio.Lock, which is first come  *)
(* first served; the holder is the head of lockq.  The queue is an actor   *)
(* of its own whose methods are atomic; its answers travel, so a size is   *)
(* stale when it is used.                                                  *)
(*                                                                         *)
(* Samples are counted, not named: the protocol only counts them.  The     *)
(* feeder runs ahead of the processor, whose pending_queue.get() therefore *)
(* never has to wait; the pending queue is the number of the next sample.  *)
(* The paused flag and _resume_event are one variable (they only change    *)
(* together).                                                              *)
(***************************************************************************)
EXTENDS Integers, Sequences, FiniteSets

CONSTANTS Required,       \* required_samples: samples of one trainer step
          Trigger,        \* trigger_parameter_sync_step
          MaxRequired,    \* max_required_samples, also max_queue_size
          MaxConcurrent,  \* max_concurrent_samples
          Total,          \* total_rollout_steps: samples fed in all
          TestFreq,       \* trainer.test_freq
          MaxFailures     \* bound: generations that raise an exception

ASSUME ConstantsAssumption ==
  /\ Required \in Nat \ {0} /\ Trigger \in Nat \ {0} /\ TestFreq \in Nat \ {0}
  /\ MaxRequired \in Nat /\ MaxRequired >= Required * Trigger
  /\ MaxConcurrent \in 1 .. MaxRequired
  /\ Total \in Nat /\ MaxFailures \in Nat

VARIABLES
  \* FullyAsyncRollouter
  ppc,        \* where the processor, and the generation task after it, is
  next,       \* number of the next item of the pending queue; Total + 1 is None
  running,    \* active tasks that are generating
  acking,     \* active tasks whose put_sample has happened, the answer travels
  finished,   \* active tasks that are done but still in active_tasks
  failed,     \* active tasks that ended with an exception
  failures,   \* history: exceptions raised so far
  due,        \* the finished and failed tasks the drain loop is about to reap
  staleness,  \* staleness_samples
  paused,     \* paused, and not _resume_event.is_set()
  answer,     \* the queue size the processor was told
  lockq,      \* holder and waiters of self.lock, in order
  mpc,        \* where the monitor loop is
  manswer,    \* the queue size the monitor was told
  \* MessageQueue
  queue,      \* the deque, oldest first
  dropped,    \* dropped_samples
  \* FullyAsyncTrainer
  tpc,        \* where fit() is; "counting" and "sized" are inside reset_staleness
  got,        \* len(queue_samples) in _get_samples_from_queue
  localStep,  \* local_trigger_step
  version,    \* current_param_version
  trained,    \* history: samples used in a step
  ended,      \* fit_step raised TrainingStopException
  tally       \* the sum reset_staleness is computing

taskVars == <<running, acking, finished, failed, failures>>
procVars == <<ppc, next, due, answer>>
monVars == <<mpc, manswer>>
queueVars == <<queue, dropped>>
trainVars == <<tpc, got, localStep, version, trained, ended, tally>>
vars == <<taskVars, procVars, monVars, queueVars, trainVars, staleness, paused, lockq>>

\* len(self.active_tasks)
Active == running + acking + finished + failed
\* Tasks asyncio.wait reports as done.
Settled == finished + failed

\* async with self.lock, first come first served.  Taking a free lock is a step
\* of its own: what others can do in between commutes with what follows.
HasLock(who) == lockq # <<>> /\ Head(lockq) = who
Queue(who) == lockq' = Append(lockq, who)
Release == lockq' = Tail(lockq)
Requeue(who) == lockq' = Append(Tail(lockq), who)

\* Mutant: the staleness limit is forgotten.
ShouldPauseQueueOnly(size) == size >= MaxRequired

ShouldPause(size) == size >= MaxRequired \/ staleness >= MaxRequired

\* put_sample: a full deque loses its oldest element.
Push(x) ==
  IF Len(queue) >= MaxRequired
  THEN queue' = Append(Tail(queue), x) /\ dropped' = dropped + 1
  ELSE queue' = Append(queue, x) /\ UNCHANGED dropped

Init ==
  /\ ppc = "check" /\ next = 1 /\ due = [finished |-> 0, failed |-> 0] /\ answer = 0
  /\ running = 0 /\ acking = 0 /\ finished = 0 /\ failed = 0 /\ failures = 0
  /\ staleness = 0 /\ paused = FALSE /\ lockq = <<"monitor">>
  /\ mpc = "top" /\ manswer = 0
  /\ queue = <<>> /\ dropped = 0
  /\ tpc = "collect" /\ got = 0 /\ localStep = 1 /\ version = 0
  /\ trained = 0 /\ ended = FALSE /\ tally = 0

-----------------------------------------------------------------------------
(* _processor_worker *)

\* The size of the queue is read now, and used when the answer has travelled.
ReadStatistics ==
  /\ ppc = "check"
  /\ ppc' = "answered" /\ answer' = Len(queue)
  /\ UNCHANGED <<next, due, taskVars, staleness, paused, lockq, monVars, queueVars, trainVars>>

DecidePause ==
  /\ ppc = "answered" /\ ShouldPause(answer)
  /\ ppc' = "pausing" /\ answer' = 0 /\ Queue("processor")
  /\ UNCHANGED <<next, due, taskVars, staleness, paused, monVars, queueVars, trainVars>>

SetPaused ==
  /\ ppc = "pausing" /\ HasLock("processor")
  /\ paused' = TRUE /\ ppc' = "drain" /\ Release
  /\ UNCHANGED <<next, due, answer, taskVars, staleness, monVars, queueVars, trainVars>>

\* Mutant: one task too many.
TakeOneMore ==
  /\ ppc = "answered" /\ ~ShouldPause(answer) /\ next <= Total
  /\ next' = next + 1 /\ staleness' = staleness + 1 /\ answer' = 0
  /\ ppc' = IF Active > MaxConcurrent THEN "full" ELSE "submitting"
  /\ Queue("processor")
  /\ UNCHANGED <<due, taskVars, paused, monVars, queueVars, trainVars>>

\* A sample is in hand from here until its task is created.
Take ==
  /\ ppc = "answered" /\ ~ShouldPause(answer) /\ next <= Total
  /\ next' = next + 1 /\ staleness' = staleness + 1 /\ answer' = 0
  /\ ppc' = IF Active >= MaxConcurrent THEN "full" ELSE "submitting"
  /\ Queue("processor")
  /\ UNCHANGED <<due, taskVars, paused, monVars, queueVars, trainVars>>

\* Mutant: the end signal does not wait for the active tasks.
TakeEndAtOnce ==
  /\ ppc = "answered" /\ ~ShouldPause(answer) /\ next = Total + 1
  /\ next' = next + 1 /\ staleness' = staleness + 1 /\ answer' = 0
  /\ ppc' = "ended"
  /\ UNCHANGED <<lockq, due, taskVars, paused, monVars, queueVars, trainVars>>

\* The None that ends the feed is counted as stale like a sample.
TakeEnd ==
  /\ ppc = "answered" /\ ~ShouldPause(answer) /\ next = Total + 1
  /\ next' = next + 1 /\ staleness' = staleness + 1 /\ answer' = 0
  /\ IF Active = 0
     THEN ppc' = "ended" /\ UNCHANGED lockq
     ELSE ppc' = "ending" /\ Queue("processor")
  /\ UNCHANGED <<due, taskVars, paused, monVars, queueVars, trainVars>>

\* asyncio.wait on all the active tasks, holding the lock.  The settled ones
\* leave active_tasks; awaiting a failed one raises.
ReapAll ==
  /\ Settled > 0
  /\ finished' = 0 /\ failed' = 0
  /\ UNCHANGED <<running, acking, failures>>

AwaitSlot ==
  /\ ppc = "full" /\ HasLock("processor")
  /\ ReapAll
  /\ IF failed > 0
     THEN ppc' = "failed" /\ Release
     ELSE ppc' = "submitting" /\ Requeue("processor")
  /\ UNCHANGED <<next, due, answer, staleness, paused, monVars, queueVars, trainVars>>

Submit ==
  /\ ppc = "submitting" /\ HasLock("processor")
  /\ running' = running + 1 /\ ppc' = "check" /\ Release
  /\ UNCHANGED <<acking, finished, failed, failures>>
  /\ UNCHANGED <<next, due, answer, staleness, paused, monVars, queueVars, trainVars>>

AwaitEnd ==
  /\ ppc = "ending" /\ HasLock("processor")
  /\ ReapAll
  /\ \/ failed > 0 /\ ppc' = "failed" /\ Release
     \/ failed = 0 /\ Active' = 0 /\ ppc' = "ended" /\ Release
     \/ failed = 0 /\ Active' > 0 /\ UNCHANGED ppc /\ Requeue("processor")
  /\ UNCHANGED <<next, due, answer, staleness, paused, monVars, queueVars, trainVars>>

\* The drain loop waits without the lock, for a settled task or for the resume
\* signal.  What it reaps is fixed when it wakes up.
DrainWake ==
  /\ ppc = "drain" /\ Settled > 0
  /\ ppc' = "reaping" /\ Queue("processor")
  /\ due' = [finished |-> finished, failed |-> failed]
  /\ UNCHANGED <<next, answer, taskVars, staleness, paused, monVars, queueVars, trainVars>>

Reap ==
  /\ ppc = "reaping" /\ HasLock("processor") /\ due.failed = 0
  /\ finished' = finished - due.finished
  /\ ppc' = IF paused THEN "drain" ELSE "check"
  /\ due' = [finished |-> 0, failed |-> 0] /\ Release
  /\ UNCHANGED <<running, acking, failed, failures>>
  /\ UNCHANGED <<next, answer, staleness, paused, monVars, queueVars, trainVars>>

\* The tasks are discarded one by one until awaiting a failed one raises.
ReapFailure ==
  /\ ppc = "reaping" /\ HasLock("processor") /\ due.failed > 0
  /\ \E k \in 0 .. due.finished : finished' = finished - k
  /\ failed' = failed - 1
  /\ ppc' = "failed"
  /\ due' = [finished |-> 0, failed |-> 0] /\ Release
  /\ UNCHANGED <<running, acking, failures>>
  /\ UNCHANGED <<next, answer, staleness, paused, monVars, queueVars, trainVars>>

Resume ==
  /\ ppc = "drain" /\ ~paused /\ Settled = 0
  /\ ppc' = "check"
  /\ UNCHANGED <<next, due, answer, taskVars, staleness, paused, lockq, monVars, queueVars, trainVars>>

\* The finally block of _streaming_generation_main: on success and on failure.
EndSignal ==
  /\ ppc \in {"ended", "failed"}
  /\ Push("end") /\ ppc' = "stopping" /\ Queue("processor")
  /\ UNCHANGED <<next, due, answer, taskVars, staleness, paused, monVars, trainVars>>

\* self.running = False; the monitor loop looks at it.
StopRunning ==
  /\ ppc = "stopping" /\ HasLock("processor")
  /\ ppc' = "stopped" /\ Release
  /\ UNCHANGED <<next, due, answer, taskVars, staleness, paused, monVars, queueVars, trainVars>>

-----------------------------------------------------------------------------
(* _process_single_sample_streaming, one of the running tasks *)

Put ==
  /\ running > 0
  /\ running' = running - 1 /\ acking' = acking + 1
  /\ Push("sample")
  /\ UNCHANGED <<finished, failed, failures>>
  /\ UNCHANGED <<procVars, staleness, paused, lockq, monVars, trainVars>>

Done ==
  /\ acking > 0
  /\ acking' = acking - 1 /\ finished' = finished + 1
  /\ UNCHANGED <<running, failed, failures>>
  /\ UNCHANGED <<procVars, staleness, paused, lockq, monVars, queueVars, trainVars>>

Fail ==
  /\ running > 0 /\ failures < MaxFailures
  /\ running' = running - 1 /\ failed' = failed + 1 /\ failures' = failures + 1
  /\ UNCHANGED <<acking, finished>>
  /\ UNCHANGED <<procVars, staleness, paused, lockq, monVars, queueVars, trainVars>>

-----------------------------------------------------------------------------
(* reset_staleness, on the rollouter's loop, called by the trainer *)

ResetCall ==
  /\ tpc = "sync"
  /\ tpc' = "resetting" /\ Queue("reset")
  /\ UNCHANGED <<got, localStep, version, trained, ended, tally>>
  /\ UNCHANGED <<procVars, taskVars, staleness, paused, monVars, queueVars>>

\* len(active_tasks) is read before the await, the size of the queue in it.
ResetCount ==
  /\ tpc = "resetting" /\ HasLock("reset")
  /\ paused' = FALSE
  /\ tally' = Active /\ tpc' = "counting"
  /\ UNCHANGED <<got, localStep, version, trained, ended>>
  /\ UNCHANGED <<procVars, taskVars, staleness, lockq, monVars, queueVars>>

ResetSize ==
  /\ tpc = "counting"
  /\ tally' = tally + Len(queue) /\ tpc' = "sized"
  /\ UNCHANGED <<got, localStep, version, trained, ended>>
  /\ UNCHANGED <<procVars, taskVars, staleness, paused, lockq, monVars, queueVars>>

ResetEnd ==
  /\ tpc = "sized"
  /\ staleness' = tally /\ tally' = 0 /\ Release
  /\ tpc' = IF ended THEN "done" ELSE "collect"
  /\ UNCHANGED <<got, localStep, version, trained, ended>>
  /\ UNCHANGED <<procVars, taskVars, paused, monVars, queueVars>>

-----------------------------------------------------------------------------
(* _async_monitor_loop *)

MonitorTop ==
  /\ mpc = "top" /\ HasLock("monitor")
  /\ mpc' = IF ppc = "stopped" THEN "exited" ELSE "sleep"
  /\ Release
  /\ UNCHANGED <<manswer, procVars, taskVars, staleness, paused, queueVars, trainVars>>

\* Mutant: a monitor that only prints.
MonitorIdles ==
  /\ mpc = "sleep" /\ mpc' = "top" /\ Queue("monitor")
  /\ UNCHANGED <<manswer, procVars, taskVars, staleness, paused, queueVars, trainVars>>

\* After check_interval.
MonitorWakes ==
  /\ mpc = "sleep"
  /\ IF paused
     THEN mpc' = "answered" /\ manswer' = Len(queue) /\ UNCHANGED lockq
     ELSE mpc' = "top" /\ Queue("monitor") /\ UNCHANGED manswer
  /\ UNCHANGED <<procVars, taskVars, staleness, paused, queueVars, trainVars>>

MonitorDecide ==
  /\ mpc = "answered"
  /\ mpc' = IF ShouldPause(manswer) THEN "top" ELSE "resuming"
  /\ manswer' = 0 /\ Queue("monitor")
  /\ UNCHANGED <<procVars, taskVars, staleness, paused, queueVars, trainVars>>

MonitorResume ==
  /\ mpc = "resuming" /\ HasLock("monitor")
  /\ paused' = FALSE /\ mpc' = "top" /\ Requeue("monitor")
  /\ UNCHANGED <<manswer, procVars, taskVars, staleness, queueVars, trainVars>>

-----------------------------------------------------------------------------
(* FullyAsyncTrainer.fit *)

GetSample ==
  /\ tpc = "collect" /\ queue # <<>> /\ Head(queue) = "sample"
  /\ queue' = Tail(queue) /\ got' = got + 1
  /\ tpc' = IF got + 1 = Required THEN "train" ELSE "collect"
  /\ UNCHANGED <<localStep, version, trained, ended, tally, dropped>>
  /\ UNCHANGED <<procVars, taskVars, staleness, paused, lockq, monVars>>

\* A batch cut short by the end signal is discarded and fit() leaves its loop;
\* _fit_update_weights returns at once unless local_trigger_step is 1.
GetEnd ==
  /\ tpc = "collect" /\ queue # <<>> /\ Head(queue) = "end"
  /\ queue' = Tail(queue) /\ got' = 0 /\ ended' = TRUE
  /\ tpc' = IF localStep = 1 /\ version % TestFreq # 0 THEN "sync" ELSE "done"
  /\ UNCHANGED <<localStep, version, trained, tally, dropped>>
  /\ UNCHANGED <<procVars, taskVars, staleness, paused, lockq, monVars>>

Train ==
  /\ tpc = "train"
  /\ trained' = trained + got /\ got' = 0
  /\ IF localStep < Trigger
     THEN localStep' = localStep + 1 /\ UNCHANGED version /\ tpc' = "collect"
     ELSE localStep' = 1 /\ version' = version + 1 /\ tpc' = "sync"
  /\ UNCHANGED <<ended, tally>>
  /\ UNCHANGED <<procVars, taskVars, staleness, paused, lockq, monVars, queueVars>>

\* Both fit() calls have returned.
Terminating == tpc = "done" /\ mpc = "exited" /\ UNCHANGED vars

-----------------------------------------------------------------------------

Processor ==
  \/ ReadStatistics \/ DecidePause \/ SetPaused \/ Take \/ TakeEnd
  \/ AwaitSlot \/ Submit \/ AwaitEnd
  \/ DrainWake \/ Reap \/ ReapFailure \/ Resume
  \/ EndSignal \/ StopRunning

Reset == ResetCall \/ ResetCount \/ ResetSize \/ ResetEnd
Monitor == MonitorTop \/ MonitorWakes \/ MonitorDecide \/ MonitorResume
Trainer == GetSample \/ GetEnd \/ Train

Next ==
  \/ Processor \/ Put \/ Done \/ Fail \/ Reset \/ Monitor \/ Trainer
  \/ Terminating

Spec == Init /\ [][Next]_vars

\* Every coroutine is scheduled by its event loop, and every generation ends;
\* none has to fail.
Fairness ==
  /\ WF_vars(Processor) /\ WF_vars(Put) /\ WF_vars(Done)
  /\ WF_vars(Reset) /\ WF_vars(Monitor) /\ WF_vars(Trainer)

FairSpec == Spec /\ Fairness

-----------------------------------------------------------------------------
(* What the protocol promises *)

\* Every variable has its type.
TypeOK ==
  /\ ppc \in {"check", "answered", "pausing", "drain", "reaping", "full", "submitting",
              "ending", "ended", "failed", "stopping", "stopped"}
  /\ next \in 1 .. Total + 2 /\ answer \in Nat
  /\ due \in [finished : Nat, failed : Nat]
  /\ running \in Nat /\ acking \in Nat /\ finished \in Nat /\ failed \in Nat
  /\ failures \in Nat
  /\ staleness \in Nat /\ paused \in BOOLEAN
  /\ lockq \in Seq({"processor", "monitor", "reset"})
  /\ mpc \in {"top", "sleep", "answered", "resuming", "exited"} /\ manswer \in Nat
  /\ queue \in Seq({"sample", "end"}) /\ dropped \in Nat
  /\ tpc \in {"collect", "train", "sync", "resetting", "counting", "sized", "done"}
  /\ got \in Nat /\ localStep \in 1 .. Trigger /\ version \in Nat
  /\ trained \in Nat /\ ended \in BOOLEAN /\ tally \in Nat

\* The sample, or the end marker, the processor holds and no task owns yet.
InHand == IF ppc \in {"full", "submitting", "ending", "ended", "failed"} THEN 1 ELSE 0
\* Generated or being generated, and not yet consumed.
Submitted == running + failed + Len(queue)
Outstanding == Submitted + InHand

\* The rollouter runs ahead of the trainer by at most one sample more than
\* max_required_samples, whatever reset_staleness counted while samples moved
\* from a task to the queue and from the processor's hand to a task.
OutstandingBound == Outstanding <= MaxRequired + 1

\* Never more than max_concurrent_samples tasks in active_tasks, although the
\* processor checks before it queues for the lock.
ConcurrencyBound == Active <= MaxConcurrent

\* put_sample drops the oldest sample at most once per parameter update: the
\* queue overflows only by the sample reset_staleness missed.
DropsBoundedByUpdates == dropped <= version

\* When no generation failed, the trainer has used every sample that the queue
\* did not drop, up to the last whole batch, when fit() ends.
WholeBatchesTrained ==
  tpc = "done" /\ failures = 0 =>
    trained = ((Total - dropped) \div Required) * Required

\* Both fit() calls return.  Needs a queue that exceeds the samples of one
\* update by max_concurrent_samples (see TrainerContinues).
TrainingEnds == <>(tpc = "done" /\ mpc = "exited")

\* The stream as the documentation describes it: a trainer that waits for
\* samples gets them.  Not so when reset_staleness counted samples twice (in
\* active_tasks and in the queue): the rollouter then pauses for a limit it has
\* not reached, until an update that waits for its samples.
TrainerContinues == tpc = "collect" ~> tpc # "collect"
=============================================================================
