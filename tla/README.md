# Specifications of GUI-RL

GUI-RL is a reinforcement learning framework for GUI agents on top of verl. The
bulk of the repository is numerical code (losses, engines, models) driven
sequentially. What is hard to test is around it: processes and coroutines that
feed, throttle, stop and restart each other. This directory specifies those
parts in TLA+, model-checks them with TLC on small instances and proves the
properties that matter most with TLAPS for every instance.

## The system's parts

| Part | State | Operations | Hard behaviour | What makes it correct |
|---|---|---|---|---|
| Shared job queue, `scripts/shared_queue/` | job files in `pending/ running/ done/ failed/`, heartbeats, one process group per job | submit, claim (rename), run, time out, kill, finish (write, rename) | workers race for files; a worker dies anywhere, its command does not | one owner, at most one start, nothing lost, true verdicts, every job served |
| Fully async policy, `verl/experimental/fully_async_policy/` | pending samples, active tasks, `staleness_samples`, `paused`, the message queue, the trainer's step and version | feed, submit, pause, drain, resume, put, get, `reset_staleness`, end signal | four coroutines under one lock, answers that are stale on arrival, RPCs between three actors, tasks that fail | bounded staleness, bounded concurrency, whole batches trained, no loss beyond the documented drop, the run ends |
| Message queue actor, `message_queue.py` | deque, condition, counters | put (drops the oldest), get, clear, shutdown | waiting consumers, shutdown | bounded, no loss beyond the documented drop |
| Load balancer of the LLM servers, `agent_loop/agent_loop.py` | in-flight counts, LRU cache of sticky requests | acquire, release | releases nobody awaits | counts return to zero, stickiness |
| Tool agent loop, `tool_agent_loop.py`, and the partial rollout of the fully async policy | agent state, turn counts, response mask; what the manager has generated so far | generate, call tools, resume an interrupted generation | limits reached in any order; an abort at any token; weights replaced meanwhile | nothing lost, mask and response agree, labels cover the versions that generated, it terminates |
| Weight synchronisation, `checkpoint_engine/`, `vllm_rollout/` | servers' phases and versions; buckets and buffers in transit | abort, transfer by buckets, load, resume | two buffers reused on both sides, copies that lag behind, engines at their own pace | every engine loads every weight whole, once, in order; no token of half-replaced weights |
| Checkpoints, `utils/checkpoint/`, `trainer/ppo/ray_trainer.py` | shards per rank, dataloader state, tracker file; paths saved by this process | resume, make room, write, register, remove the oldest, write the tracker | ranks between barriers, a crash between any two steps, a restart that has forgotten | the tracker names a checkpoint that loads and is of one save; the limit holds |
| Replay buffer of the synchronous trainer, `trainer/main_ppo_sync.py` | metadata copied from the transfer queue, states of prompts | dispatch, put, end a prompt, poll, sample, pad, clear | a polling thread whose snapshot is old when it is merged; sessions that fail alone | a batch is whole, its own, still stored, and used |
| Batch balancing and micro-batches, `seqlen_balancing.py`, `workers/engine/utils.py` | partitions, permutations, one number of micro-batches | partition, reorder, all-reduce, compute, restore | two permutations and their inverses, a number the ranks must share | balanced, none empty, every output in its place |
| Reward rate limiting, `limited.py` | tokens, semaphore, executor threads | acquire, refill, call, time out | sleepers racing for tokens, debts, threads that outlive their timeout | the rate and the concurrency are kept, the batch arrives |
| Reward router, `naive_router.py`, `reward_loop.py` | requests per server | select, forward, release, retry | servers that die, counts an exception leaves as they are | dead servers are passed over |
| GUI reward; PPO trainers, algorithms, workers, engines, models, single controller, examples, docs | | | | not modelled, see below |

`PROJECT.json` lists the same parts with their files, and the hazards at their
lines.

How they interact: the rollouter (a Ray actor with one event loop) submits a
task per sample; a task generates through the agent loop, whose requests go
through the load balancer to the LLM servers, is scored through the reward loop
and router, and puts its sample into the message queue (another actor). The
trainer (a third actor) takes samples, trains, and after
`trigger_parameter_sync_step` steps synchronises the weights and calls the
rollouter's `reset_staleness`. The shared queue is separate: it runs whole
training jobs on shared machines. Checkpoints are written by the driver of the
synchronous trainer and its workers, and read by the next start of the job.

## Modules

| Module | What it is |
|---|---|
| `JobLedger` | abstract specification of the shared queue |
| `SharedQueue`, `SharedQueueRefinement` | the queue as the code implements it, and its mapping to the ledger |
| `FullyAsync` | the streaming protocol of rollouter, message queue and trainer |
| `CheckpointStore` | saving, pruning and resuming of the synchronous trainer |
| `LoadBalancer` | the balancer actor and the turns of conversations that call it |
| `PartialRollout` | tool agent loops, servers and updates of the weights, composed |
| `WeightStream` | abstract specification of a transfer: each engine is given the weights in order |
| `WeightTransfer` | one transfer by buckets, from the trainer's buffers into the engines |
| `ReplayBuffer` | rollout, polling thread and trainer over the transfer queue |
| `KarmarkarKarp` | the partitioning algorithm: sets, states, merges, the order of its heap |
| `BatchPath` | a batch on its way over the data-parallel ranks and back |
| `RewardLoop` | scoring a batch: rate limits, timeouts, threads; router, servers, retries |
| `<module>MC` | instances of a module for TLC |
| `<module>Proofs` | theorems about a module |
| `BalancingProofs` | theorems about the two balancers, `LoadBalancer` and `BatchPath` |

Definitions commented "Mutant" are faulty variants of the definition that
follows them, used to see that a property notices the fault. They are in no
specification.

### SharedQueue

`files[d][j]` is the `status` field of the file of job `j` in directory `d`, or
absent. `pc[w]` says where worker `w` is in `main()` and `run_job()`; one action
is one system call that others can see: listing, `os.replace`,
`atomic_write_json`, `Popen`, `poll`, `killpg`. Jobs are numbers so that the
order of the numbers is the order of the sorted listing. The process group of a
command is a set with at most its leader (`bash -lc`, the process that is
polled) and a child; the command may fork, exit with either outcome at any time,
and leaves its child behind if it likes. A crash stops a worker between any two
actions and leaves files and processes as they are; a restarted worker is a new
process with the same id. Validation of a job is a choice (`Reject` or
`Accept`); paths, environments, tokens and logs are left out.

`JobLedger` is what a user of the queue relies on: unsubmitted, pending,
running, then done or failed, never back, and at most one start, while running.
It does not promise that a running job ends: a crash strands it in `running/`,
where nothing looks for it.

### FullyAsync

What happens on the rollouter's loop between two await points is one action.
The processor coroutine is `ppc`: it asks for the queue's statistics
(`ReadStatistics`), decides on the answer (`DecidePause`, `Take`, `TakeEnd`),
waits for the lock, waits for tasks while holding it (`AwaitSlot`, `AwaitEnd`)
or without it (`DrainWake`, `Reap`, `Resume`). `lockq` is the `asyncio.Lock`:
first come first served, its head is the holder. Tasks are counted by stage:
generating, putting (the sample is in the queue, the answer is not back),
settled but not yet reaped. `reset_staleness` is three actions, because
`len(active_tasks) + await get_queue_size()` reads its two terms at different
times. The monitor loop is `mpc`, the trainer `tpc`. The message queue is a
sequence of `"sample"` and `"end"`: samples are counted, never told apart.

The feeder is not an action: it runs ahead of the processor, so the pending
queue is the number of the next sample, after `Total` samples the end marker.
The first parameter synchronisation happens before both `fit()` calls and is
part of the initial state. Left out: the weight transfer, validation,
checkpoints, timing and metrics.

### CheckpointStore

`file`, `data` and `tracker` are on disk and survive a crash; `step`, the
driver's `pc`, the stage `at[r]` of every rank and the paths rank 0 has `saved`
are gone with the process. A save of a worker group is `enter`, (rank 0 makes
room: `EnsureCapacity`, `RemoveShard`), `barrier1`, the shard, `barrier2`, and
for rank 0 `Register` and the removal of what is beyond the limit. A barrier is
one step of all ranks together (`Barrier`): it needs every rank to have called
one, and cannot tell at which of the two places a rank is. A rank that skips a
barrier therefore leaves the others waiting at their next one, for which
`SaveEnds` looks. The driver
collects the actor, then the critic, writes `data.pt`, then the tracker.

Opening a file for writing truncates it, so a write is two actions with `Torn`
between them; a whole file holds the number of the life (start of the job) that
wrote it, which is what tells a mixture of two saves from one save. The model,
optimizer and extra file of a rank are one shard. Training between two saves is
`BeginSave`, which picks any later step: `save_freq`, the last step and the
early save before the end of the machine's time all fall under it. `Keep[p]` is
the limit of part `p`, 0 for none; `remove_previous_ckpt_in_save` makes both
limits 1 in the code and is that here.

Left out: the Megatron and asynchronous managers, the Hugging Face copy of rank
0, the `resume_mode`s other than `auto`, errors of `rmtree` (ignored by the
code), and a restart with another number of ranks.

### LoadBalancer

A conversation takes turns; a turn is `Ask` (the call leaves), `Acquire` (the
actor serves it), `Finish` (the answer or an error, and the release leaves) and
`Release`. The calls of one conversation arrive in the order they are made, so
`Acquire` waits for the release of the turn before; those of different
conversations in any order. The LRU cache is a function `cached` and the order
of its keys, `recency`. `others` is a history variable: who took a turn since.
Left out: cancelled turns, servers that die with requests, and the servers
themselves.

### PartialRollout

`state[c]` is the `AgentState` of trajectory `c`; one action is one handler of
`ToolAgentLoop.run` (`HandlePending`, `HandleGenerated`, `HandleTools`,
`Finalize`) with all its limits. A token is the version of the weights that
generated it, or a mark for prompt and tool tokens, so that a trajectory is
simply a sequence and a property can say which version is where. A generation
(`Generate`, `Submit`, `Start`, `Decode`, `Finish`) is a request to any server;
`AbortAll` ends the running requests of one server, at any token, and the
manager sends an aborted one again with what it has so far. The update
(`BeginUpdate`, `AbortAll`, `BeginTransfer`, `Load`, `Resume`) is
`CheckpointEngineManager.update_weights`: servers abort in any order, all have
aborted before the transfer begins, servers load in any order, and all have
loaded before the first resumes. `PausesGeneration` is what a vLLM of 0.12 or
later does: an abort also blocks new requests.

The transfer of one server's weights is one action here and a module of its own
in `WeightTransfer`. Left out: images, interactions, the reward of a tool, the
parsing of calls; several calls of one turn are one joint response.

### WeightTransfer

The trainer is a generator of chunks (`gen`) that fills one buffer (`Fill`,
`Flush`) while the other is being broadcast (`op`). A receiver is one chain of
generators, pulled from the end: the bucketed sender asks
`merge_weight_chunks`, which asks `_receive_weight_chunks`, which swaps buffers
and starts the next broadcast when it has yielded all of a bucket. Memory is
bytes that know their weight and position; a copy on the GPU is queued
(`copies`) and made later, so a buffer that is reused too early shows. An engine
answers each request after it has loaded it. `WeightStream` is what remains from
outside: `loaded[e]` grows by one whole weight at a time and ends complete.

Left out: the hccl, nixl, kimi and mooncake engines, which are other transports
behind the same interface, building process groups, the shared memory variant.

### ReplayBuffer

`session`, `ended` and `stored` are what the workers' background tasks have put
into the queue, `status` and `listed` what the buffer knows. The polling thread
is two actions: `List` takes a snapshot outside the lock, `Add` merges it under
the lock, any time later. The trainer is `Generate`, `Sample`, `Balance`,
`Clear`, `Remove`. A session may fail alone; `asyncio.gather` reports the first
failure of a prompt while its other sessions go on and put outputs nobody asks
for. An agent loop may return an empty list: its session ends normally and puts
nothing (`PutNothing`), and its prompt can be finished without it. A session has
one key at most: a list of outputs that is not empty fails where
`_agent_loop_postprocess` reads `output.prompt_ids` of the list, and `None` fails
earlier; both are sessions that raise. One partition is modelled at a time: "train", whose batches have
different `global_steps`, or "val", whose batches share one.

### KarmarkarKarp and BatchPath

The heap is the set of its states, and popping takes the one no other state
precedes, in the order the code compares them, ties included. Sorting is by rank:
the place of an element is the number of those before it (`Ranked`, `Arranged`),
which says what `sorted` and `list.sort` return, and not how. `BatchPath` runs
karmarkar_karp one merge at a time for the trainer (equal sizes) and for each rank, so that
its invariant can be stated about every intermediate state. The way of a batch is
`Balance`, `Dispatch`, `Plan`, `AllReduce`, `Arrange`, `Forward`, `Restore`,
`Collect`; all-reduce and forward are collectives, steps of all ranks together.
`Plan` begins with the assertion that no sample is longer than `max_token_len`.
With nested `input_ids` it looks at the rank's own samples, so one rank may raise
while the others go on to the all-reduce and wait there. (Padded inputs have one
width, and then all ranks raise or none does.) That the exception reaches the trainer
through Ray, which ends the job, is not modelled.
A module about both balancers extends this one and `LoadBalancer`, so its
initial state, steps and types carry its name (`BatchInit`, `BatchTypeOK`).
Left out: groups (`force_group_size`), a minimal number of micro-batches,
and `greedy_partition`, which nothing calls.

### RewardLoop

Both ways of scoring an item, chosen in the initial state. "custom":
decoding in an executor thread, the limiters one after the other, the semaphore,
`wait_for` around a call that is a coroutine or runs in a thread. "disrm": a
post to the router, which selects the least loaded server, tries it
`max_attempts` times and raises; the worker posts again. A bucket gains one token
a tick; its level is what a refill would make of it, so `last_update` is no
variable. `meter` is a history variable, the mirror image of a bucket: it rises by what
has passed and falls by one a tick. A bound on it bounds what passes in every
stretch of time, at once. A thread cannot be cancelled: it stays in `busy` after
its timeout. A result is a float, whose only key is `acc`, or a dict with keys of
its own (`DictKeys`); `default_compute_score` returns one or the other by the
item's data source, a custom function as it likes, so `Answer` may do either. Ticks wait for sleepers whose time has come: the event loop is fast
against the rate.

## Runs

| Run | What it shows | Instance and why it is enough |
|---|---|---|
| `queue` | the safety of the queue, that it implements the ledger, and that every job is served | two workers and two jobs suffice for every race on a file and for a worker with a next job; two crashes let both workers die, or one die twice; one job has a timeout, one has none; `--max-jobs` 2, so that one worker may serve all jobs and then stop. No deadlock check: all workers may stop |
| `stream` | limits, drops, whole batches; the run ends | batches of 2, update every 2 batches, `max_required_samples` 6 (threshold 0.5), 2 concurrent tasks: exactly the samples of one update plus `max_concurrent_samples`, and yet the queue can overflow; 11 samples, so that there are two updates and a last batch cut short by the end signal; one failing generation |
| `stream_starve` | violation: the stream stops for ever | batches of 1, `max_required_samples` 3: one sample less of slack than `stream` has |
| `checkpoints` | what the tracker names loads and is of one save, the limit holds, a save ends | two ranks that meet at the barriers; actor and critic with limits of two, 3 steps, so that the third save makes room first; 2 crashes: a life that resumes on what a crashed one left, and dies. No deadlock check: training may be over, and a job that cannot resume stays down |
| `ckpt_keep_one` | violation: nothing to resume from | limits 1, 2 steps: the second save removes what the first wrote |
| `balancer` | exact counts that return to zero, sticky conversations | three conversations on two servers collide; cache of 2, so that a key is dropped; 3 turns, so that a conversation returns after it was dropped |
| `rollout` | labels, order of versions, alignment, nothing lost; trajectories and updates end | two trajectories on two servers, one update: one server aborts, loads and resumes before or after the other, with a request on either; response length 4 with tool responses of 1 or 2, so that a turn ends by itself, by its room, or by the limits; 2 user turns, so that labels are merged over turns |
| `replay` | batches are whole, own and stored; all are trained on | two batches of two prompts with two sessions: a late output of the first batch meets the second; padding to multiples of 3; one failing session, which may meet a late output; two sessions without output, of one prompt or of both: a finished prompt may lack one session or all, and a batch whose other prompt failed is then empty |
| `replay_val` | violation: a cleared key listed again | one prompt and session, two batches of one `global_steps` |
| `batch_path` | balance, no empty partition, outputs in place; the batch ends, or all refuse, or the rank of a long sample raises | 8 samples on two ranks, 1, 2, 4 or 5 tokens each, at most 4 in a micro-batch, so that those of 5 fit none and are with one rank or with both: every multiset of lengths, in two orders, as the algorithm sorts first; ranks that need different numbers of micro-batches, from 1 to 4; numbers divisible by 1 or 3, so that some are refused |
| `weights` | the refinement of `WeightStream`; buffers intact; chunks meet | buckets of 2 bytes and weights of 1, 1, 5, 1, 3, 2: full buckets, chunks with and without company, a last one of any size; two engines at different paces |
| `reward` | rates, concurrency; a live server is found; the batch arrives | three items of one worker; a bucket that requests fit and one they exceed; one permit and two threads, so that timed out threads can fill the executor; floats and the dicts of `math_dapo` in one batch; two servers of which both may die, one HTTP error; six retries, one more than a post can need while a server lives |

Safety and liveness of a component are checked on the same instance, without
symmetry reduction, which liveness does not allow.

### Three disagreements with the documentation

*Starvation.* A task whose sample is in the queue, or already trained, stays in
`active_tasks` until the processor reaps it, so a reset may count a sample
twice, up to `max_concurrent_samples` of them. The rollouter then pauses while
fewer than `max_required_samples` samples exist. If these are fewer than the
trainer needs for its next update, there will be no update, and nothing else
lowers the counter: the monitor sees a counter at its limit. It takes an
acknowledgement slower than a training step, or an update in the moment tasks
finish, and `staleness_threshold` close to 0. `stream` shows that a slack
of `max_concurrent_samples` rules it out.

*A limit of one keeps none.* "With `max_ckpt_to_keep=1`, we keep the existing
checkpoint until the new save completes successfully"
(`checkpoint_manager.py:148`). A manager does so for its own part. But the save
of the trainer goes on after the actor has registered its new shards and removed
the old ones: critic, dataloader and tracker are still to be written. A crash
then leaves a tracker that names a step without an actor, and the new step is
without a critic. Limits of two or more, or none, are safe: that is
`Resumable`, proved below for all of them.

*A cleared key comes back.* `_validate` clears a batch in the queue and then in
the buffer. The polling thread lists the queue without the buffer's lock, so a
snapshot from before the first may be merged after the second: the buffer lists
keys without data. Validation batches share one `global_steps`, so the next
`sample` hands them out. Training batches do not, which is `OwnAndPresent` for
every instance (`TrainsOnItsOwn`).

### Other things a reader of the code should know

These came up while modelling and have no run of their own.

- *One sample too many.* The processor takes a sample, finds all slots busy, and
  waits for a task while it holds the lock. `reset_staleness` queues behind it
  and counts active tasks and queued samples, but not the sample in hand. From
  then on the rollouter runs `max_required_samples + 1` ahead, and the message
  queue may drop a sample. `OutstandingBound` and `DropsBoundedByUpdates` say that it does
  not get worse than that.
- *The tracker is not atomic.* It is opened with `"w"` and then written; a crash
  in between leaves it empty, and a restarted job fails on `int("")`. The
  properties of `CheckpointStore` speak of a tracker that names a step.
- *The limit is per life.* The list of saved paths starts empty with the process,
  so a restarted job never removes what the lives before it left.
- *An interruption can lengthen a generation.* The server computes `max_tokens`
  anew for every request, from what the request carries: with a prompt shorter
  than `prompt_length`, the pieces of an interrupted generation may add up to more
  than `response_length`, which no uninterrupted one does. The agent loop then
  ends the trajectory and cuts it.
- *An empty answer.* Without `partial_rollout` a request that is aborted before its
  first token is answered with no token at all. If that is the first turn, the mask is empty,
  and `prompt_ids[-len(response_mask):]` (`tool_agent_loop.py:158`) is
  `prompt_ids[0:]`: the prompt is returned as the response, with a mask of
  another length. `OutputAligned` is violated then; the run and
  `OutputsAreAligned` have `partial_rollout` on, with which the manager asks again.
- *Micro-batches may pass `max_token_len`.* Their number is what the total of tokens
  needs, they are balanced by workload, and nothing checks a single one.
- *Rate limiters are per process.* They are class attributes, so with several
  reward workers the rate is multiplied, although the docstring speaks of
  enforcing it "across multiple workers in distributed training". `RateKept` and
  `ConcurrencyKept` speak of one worker.
- *A client error is retried.* The router raises it and so answers 500: the worker's
  test for 4xx never holds behind this router.
- *No timeout on a post.* The comment over `ClientTimeout(total=None)` says that a
  timeout is safer. `RewardsArrive` has to except a server that never answers.
- *A timeout, or a mixture of data sources, may crash the batch.* `compute_rm_score`
  takes the keys of `reward_extra_info` from the first item and requires them of
  all. A timeout adds "timeout", so a batch whose first item timed out and whose
  second did not ends in a `KeyError`. So does one whose first item is scored by
  `math_dapo`, which returns a dict, and whose second by `gsm8k`, which returns a
  float; the other way round it works. `RewardsArrive` says that a crash needs a
  call that failed, or two results with different keys.
- *The router remembers failures.* A failed request is never released. That
  looks like a leak, and it is what keeps posts away from a dead server:
  releasing it (the mutant of `NobodyGivesUp`) makes all retries go to the same
  server. While a server lives, a post fails at most
  `(NumServers - 1) * (Batch + MaxErrors) + MaxErrors` times, whatever `MaxRetries`
  is. The code has 16 retries, so this keeps every post of a batch of at most 15
  items if one of two servers dies. In larger batches a post that is unlucky every
  time may be given up, which ends the batch, although other servers are alive.
- *A batch without outputs.* If all agent loops of a batch return empty lists,
  its prompts are finished and the batch is empty: the trainer does not pad it
  and fails when it partitions it, as it does when all prompts failed.
- *A long sample stops one rank.* See `Plan` above: with nested `input_ids` the
  assertion on `max_token_len` is each rank's own, and comes before the all-reduce.
- *A timed out call may run on.* Its permit is free, so more threads may be in
  `compute_score` than there are permits; `ConcurrencyKept` counts the calls that
  are still waited for.
- *A command outlives its worker.* A worker that dies leaves its command alone, and
  a restarted one may start its next job beside it. `SharedQueue` has this
  behaviour, and no property denies it.

### Fairness

`SharedQueue`: a live worker goes on executing its loop (weak fairness of its
actions together); a worker whose claim is possible again and again eventually
succeeds, that is, `OSError`s other than losing the race are not for ever
(strong fairness of `Claim`); a command without a timeout ends by itself. A dead
worker need not be restarted, a command with a timeout need not end, forked
children need not end.

`FullyAsync`: each coroutine that can go on is scheduled by its event loop
(processor, reset, monitor, trainer), a generation ends and its answer arrives.
No generation has to fail.

`CheckpointStore`: a live job goes on with a save it has begun (weak fairness of
its steps together). A job need not be restarted, nor train on.

`LoadBalancer`: calls that were made are served and generations end or fail,
for each conversation. No conversation has to take another turn.

`PartialRollout`: servers that were told to abort, load or resume do so, each
for itself; an agent loop and its request go on. No update has to begin. That a
generation ends is not assumed: it does by its limit, and only if requests are
not blocked for ever.

`WeightTransfer`: the trainer, each receiver, its copies and its engine go on.
`ReplayBuffer`: sessions and prompts end, the trainer goes on, the polling
thread polls. `BatchPath`: as long as a sequential program, or a collective that
all ranks have entered, can go on, one of them does (`BatchFairness`). Every step
takes a batch forward, so that no fairness between the ranks is needed.

`RewardLoop`: time goes by, event loops and executors run. No call of
`compute_score` and no answer of a server is assumed: `RewardsArrive` names the
two situations in which a batch waits for one of them.

## Proofs

`SharedQueueProofs`, for every set of jobs and workers, any limit and any number
of crashes. The inductive invariant `IInv` adds to the safety properties: a
worker past its claim holds a file that is in `running/` (`HolderInv`), nothing
of a command exists before its launch (`LaunchInv`), the exit is recorded when
and only when the leader is gone (`LeaderInv`), and a verdict to be stored is
true already (`TruthInv`). It is needed because exclusive claims follow from
where the file is, and verdicts from what happened to the process, several
steps earlier. From it: `TypeCorrect`, `QueueSafe`, `OnlyCrashesStrand`, the
action properties `NoJobLost` and `FinalForGood`, and `Refinement`, where each
action maps to one step of `JobLedger` or a stutter.

`FullyAsyncProofs`, for every configuration the assumptions allow
(`max_required_samples` at least the samples of one update,
`max_concurrent_samples` at most that). `OutstandingBound` is not inductive: it
rests on `staleness_samples`, which is rewritten by a reset in three steps while
samples move. `StaleInv` says that the counter is at most one short;
`TallyInv`, that the sum being computed misses at most the sample in hand or the
end marker; `ResetHolds`, that the lock keeps the processor from creating tasks
meanwhile; `DueInv` and `SlotInv` are the facts a coroutine remembers across its
wait for the lock. From it: `TypeCorrect`, `AheadByOne`, `BoundedConcurrency`.

For `DropsAreFew`: the queue overflows only when the rollouter is ahead by
`max_required_samples + 1`, and the sample that is then given away or dropped
brings it back `Within` its limit, where it stays until the next reset. `DropInv`
says when one more sample may be dropped: before the first `get_sample` after a
reset, and only one per version. For `BatchesAreTrained`, under the condition of
that property that nothing fails: every sample taken from the feed is in one
place (`CountInv`), the end marker enters the queue after the last sample
(`LastInv`, `MarkInv`), so that what is thrown away with it is less than a batch
(`BatchInv`).

`CheckpointStoreProofs`, for any number of ranks, steps and crashes. The
ranks move alone between two barriers, so `IInv` says that all of them are
before, between or behind the barriers (`BarrierInv`; hence the ranks at a
barrier are all at the same one), which stages the driver's place allows
(`StageInv`), what
is whole by then (`WrittenInv`, `DoneInv`), that the listed paths ascend and end
with the step the tracker names or, once registered, the step being saved
(`StepInv`, `ListInv`), and that what is being removed is neither listed nor, if no limit is 1, the step the
tracker names (`DoomedInv`). From it: `TypeCorrect` and `ListedIsComplete`
for all limits; `TrackerNamesLoadable` and `TrackerNamesOneSave` under
`KeepsSpare`, that no limit is 1, which `ckpt_keep_one` shows to be necessary.

`BalancingProofs` on `LoadBalancer`, for any finite set of conversations, any number of servers
and any size of the cache. `CountsExact` is not inductive: a turn that finishes while its last
release is on its way would lose one. `TurnInv` says that this cannot be,
because the release of a turn arrives before the next acquire. From it:
`ExactCounts`, and `ReleasesSucceed`: no release finds a count at zero. For
`TurnsStick`, `KeyInv` speaks of the cache's order: the key of a conversation is
there with its server, and all keys used later are of conversations that have
acquired a server since (`others`), or there have been as many of those as the
cache holds. The cache has each key once and at most `CacheSize` of them
(`CacheInv`), so a key that is dropped has `CacheSize` others behind it.

`ReplayBufferProofs`, for any prompts, sessions, batches and failures. That a
batch is whole is decided by a snapshot: `IInv` says that what a snapshot or the
buffer tells of a prompt has happened, and that a finished prompt comes with all
its outputs in the same snapshot (`EndsInv`, `WholeInv`), and what may be left of
a batch that has been cleared (`LeftInv`). `OwnInv` adds, for training, that what
the buffer or a snapshot lists of a batch that is not yet cleared is still stored
(`ListedInv`): an old snapshot only brings back keys of earlier `global_steps`. From them: `TypeCorrect`, `WholePrompts`, `OnlyFailuresLeave`,
`TrainsOnItsOwn`, and `FailsWithoutOutputsOnly`, the safety half of
`AllBatchesTrained`.

`PartialRolloutProofs`, for any trajectories, servers, lengths, limits and updates.
Every step extends a trajectory by one sampled token, by tokens nobody
generated, or not at all (`TrajectoryStep`); `NothingIsLost` is that lemma.
If an abort blocks new requests, `PausedInv` says that servers which serve have
one version (`ServersInv`), that only those run requests (`RunsInv`), and that
the labels cover what each part of the trajectory holds, with every label and
token below what a serving server has (`LabelsInv`). From it `TokensAreLabelled`
and, with `OrderInv`, `VersionsNeverGoBack`. The condition is needed: without
it an aborted request runs while the weights are replaced.

`OutputsAreAligned`: at every stage the mask labels the end of the trajectory
token by token and what comes before is the prompt (`AlignInv`), so that the
split of `run` falls between them. The split is right only if something was
generated; `AlignInv` says so of every trajectory that processes tools or has
terminated. With `partial_rollout` that holds, as an aborted request is sent
again until it has a token; without it, see "An empty answer" above.

`RewardLoopProofs`, for any batch, workers, buckets, permits, threads, servers
and numbers of attempts. `IInv` says that free permits and the items that have
one add up to `MaxConcurrent` (`PermitInv`), that who waits for a permit waits
once and nowhere else (`WaitersInv`), and that a job is queued or in a thread,
never both, and belongs to an item that waits for it or was given up
(`JobsInv`, `BusyInv`). From it: `TypeCorrect` and `ConcurrencyIsKept`. For
`RateIsKept`, `RateInv` adds: where a request fits the bucket, tokens are never
owed, and the meter and the tokens add up to a bucket at most (`SmallInv`);
where it does not, whoever sleeps after paying sleeps at least as long as the
meter needs to run dry and as the debt lasts (`PayerInv`), and two such sleeps
are a whole request apart (`ApartInv`), so that they end one by one. For
`PostsFailFewTimes`: a failed request stays counted, so as long as a server lives,
every failure of a post can be charged to a count that a dead server has for
good, or to one of the HTTP errors (`BlameInv`). A live server's count is at
most the posts it has now and the errors (`AliveInv`), and no count exceeds what
a live server's may be (`HighestInv`), because the router takes the least; there
are `(NumServers - 1) * (Batch + MaxErrors)` counts of dead servers at most, which
is where `MostFailures` comes from. The bound does not depend on `MaxRetries`; that a
post is given up only if `MaxRetries` does not exceed it follows.

`WeightTransferProofs`, for every list of sizes, every size of the buckets and
every number of engines. What one component relies on has been arranged by
another some steps before, so `IInv` follows the bytes. The chunks made and not yet
pulled by a receiver (its items, the bucket it has received, the broadcast under
way, the trainer's bucket) are one chain without a gap from the chunk it pulls next to
the one the trainer makes next (`LinkInv`). Every bucket on that way is intact in the
buffer it names, and the trainer does not fill the one being broadcast, nor the
receiver receive into the one it yields (`SendInv`, `OpInv`, `BufferInv`).
Copies are made later and in any order, so of a weight merged, handed over, in the
IPC buffer or named in a message `IInv` says that the area `Holds` it: each byte is
right already or will be written by a pending copy, and no pending copy writes
anything else on it; this is what survives a step of the copies, and what the
synchronisations before a buffer is used again are for (`CopyInv`). The weights an
engine has loaded, those in its message, in its IPC buffer and in hand, and the
next to be pulled follow each other (`OrderInv`). From it: `BucketsStayIntact`,
`ChunksAlwaysMeet`, and `StreamIsSafe`: every step of a transfer is a step of
`WeightStream` or a stutter.

`BalancingProofs` on `BatchPath`, for any number of ranks and of samples, any set
of batches, samples longer than the limit included, any limit of tokens and any
divisors. The inductive invariant
`BatchIInv` has a part for the trainer (`TrainerInv`) and one for each rank
(`RankInv`), which say for each stage what has been computed by then; TLC finds it
to hold in `batch_path`'s instance. Its steps rest on four groups of lemmas.

- Sorting. Of a strict order, no two positions have equally many before them, so
  `Ranked` is a permutation (a pigeonhole argument) and `Arranged` has the elements
  of its list, in order. That the comparisons of Sets, of items by load and of
  micro-batches are strict orders is proved for each; the last only because no two
  micro-batches have their first sample in common.
- Differencing. A State is fair (`FairState`) if the sums of two of its Sets differ by
  no more than the load of one item. Merging the largest Set of one State with the
  smallest of the other cannot make the difference larger than the larger of the
  two, but only while the Sets of both descend (`GoodState`), which is what sorting
  after each merge is for. From it: `BatchesStayBalanced`.
- Counting. The heap has every item at exactly one place (`GoodHeap`), so the State that
  is left in the end has them all. With equal sizes the Sets of a State have
  one length throughout. Without, either no Set of a State is empty or none has more than one
  item, since the largest is merged with the smallest; a last State of the
  second kind with an empty Set would hold fewer items than it has Sets (a
  pigeonhole argument), and `EnoughSamples` has compared these numbers. From it:
  `NoPartitionEmpty`.
- Lists of lists. What the code does to a list of partitions (`s[::2]`, `s[1::2]`,
  reversing, one after the other) moves its elements and loses none, so that the
  batch that is dispatched has each sample once, and a rank's micro-batches each
  position once. `FlattenSeq` is recursive, so its lemmas are inductions on the number of
  lists: `FlattenPermutes`, `FlattenMaps` (outputs are in the place of their
  inputs), `FlattenRows` (lists of one length). With them `Restore` is the inverse
  of what `Arrange` did, and the shares in a row are the batch: `OutputsComeBack`.

The library's induction rules take an operator, which no installed prover
instantiates. The lemma `Induction` is a rule about a set of numbers instead, and
follows from the library's theorem that `<` on the naturals is well-founded. To use it,
one names the set of the numbers of which a statement holds.

The proofs assume the named assumptions of the modules, which TLC evaluates for
each instance, and nothing else.

Only model-checked: the liveness properties `EventuallyServed`, `TrainingEnds`,
`SaveEnds`, `Drains`, `EverythingEnds`, `AllBatchesTrained`, `BatchEnds` and
`RewardsArrive`, and the liveness half of `ImplementsStream`, which are out of the
prover's reach. Every invariant and every action property that a run expects to
hold is a theorem.

## Not modelled

- PPO trainers, algorithms, workers, engines and models: numerical code that one
  process drives sequentially; it is most of the repository's lines. What of it is a
  protocol (saving, balancing, weights, the replay buffer) is above.
- Single controller: how batches are split and put together, data layout.
- GUI reward: comparisons of strings and numbers on one response.
- The sandbox tools' `TokenBucketWorker`, a semaphore in an actor.
- Message queue: shutdown, `clear_queue`, the validation queue, named samples.
- Fully async: validation, checkpoints. `save_checkpoint` stores the position of
  the dataloader while samples are in hand and in the queue; a restart loses them.
- The Megatron and asynchronous checkpoint managers, the other checkpoint
  engines, the sglang and TensorRT-LLM servers and routers.
- LoRA adapters sent in several buckets, and the PUB/SUB channel of the bucket
  metadata, which may drop what is published before a subscription arrives.

## Plan

1. Done: the modules above, with runs for all, and theorems for every invariant and
   action property.
2. Next, the protocols that are only partly modelled: checkpoints of the fully
   async trainer, whose dataloader runs ahead of what has been trained, and groups
   of samples in the batch balancing (`force_group_size`).
3. Then the remaining workers: the asynchronous checkpoint manager, whose save may
   still be under way when the next begins.
