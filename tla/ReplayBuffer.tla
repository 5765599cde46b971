----------------------------- MODULE ReplayBuffer -----------------------------
(***************************************************************************)
(* Rollout and training of the synchronous trainer over TransferQueue:      *)
(*   - AgentLoopManagerTQ.generate_sequences and the workers' background    *)
(*     tasks (_run_prompt, _agent_loop_postprocess), which put outputs and  *)
(*     the end of each prompt into the queue;                               *)
(*   - ReplayBuffer, whose polling thread copies the queue's metadata;      *)
(*   - PPOTrainer.step / fit (or _validate): generate, sample, pad, use,    *)
(*     clean up.                                                            *)
(* The queue is external: keys with data, and kv_list, a snapshot of all    *)
(* tags.  One partition is modelled: "train", whose batches have one        *)
(* global_steps each, or "val", whose batches share one.                    *)
(***************************************************************************)
EXTENDS Integers, FiniteSets

CONSTANTS
    BatchSize,    \* prompts of a batch
    N,            \* rollout.n: sessions of a prompt
    Batches,      \* bound: batches of the run
    Multiple,     \* _get_required_batch_multiple
    Partition,    \* "train" or "val"
    MaxFailures,  \* bound: sessions that raise
    MaxEmpty      \* bound: sessions without any output

ASSUME SizesAssumption ==
    /\ BatchSize \in Nat \ {0} /\ N \in Nat \ {0} /\ Batches \in Nat \ {0}
    /\ Multiple \in Nat \ {0} /\ MaxFailures \in Nat /\ MaxEmpty \in Nat
ASSUME PartitionAssumption == Partition \in {"train", "val"}

Prompts == 1 .. BatchSize * Batches
Sessions == 1 .. N
BatchOf(p) == ((p - 1) \div BatchSize) + 1

\* Keys of outputs, and those of the padding of batch b, of a prompt of its own.
Outputs == Prompts \X Sessions
Padding(b) == {<<-b, i>> : i \in 1 .. Multiple - 1}
Keys == Outputs \union UNION {Padding(b) : b \in 1 .. Batches}
BatchOfKey(k) == IF k[1] < 0 THEN -k[1] ELSE BatchOf(k[1])

\* Mutant: all batches carry the same global_steps.
LabelConstant(b) == 1

\* The global_steps of a batch.
Label(b) == IF Partition = "train" THEN b ELSE 1

VARIABLES
    batch,     \* the trainer's current batch
    stage,     \* and where it is with it
    holding,   \* keys of its KVBatchMeta
    session,   \* agent loop of each output
    ended,     \* what _run_prompt put for each prompt
    stored,    \* keys with data in the queue
    status,    \* ReplayBuffer: status of the prompts' entries
    listed,    \* ReplayBuffer: keys of outputs (status "success")
    snapshot   \* polling thread: kv_list on its way to add, or <<>>

trainer == <<batch, stage, holding>>
workers == <<session, ended, stored>>
buffer == <<status, listed>>
vars == <<trainer, workers, buffer, snapshot>>

Ends == {"finished", "failure"}

TypeOK ==
    /\ batch \in 1 .. Batches
    /\ stage \in {"idle", "sampling", "sampled", "using", "cleared", "over", "crashed"}
    /\ holding \subseteq Keys
    /\ session \in [Outputs -> {"none", "running", "put", "empty", "failed"}]
    /\ ended \in [Prompts -> {"none"} \union Ends]
    /\ stored \subseteq Keys
    /\ status \in [Prompts -> {"none", "running"} \union Ends]
    /\ listed \subseteq Keys
    /\ \/ snapshot = <<>>
       \/ snapshot \in [ended : [Prompts -> {"none"} \union Ends], keys : SUBSET Keys]

Init ==
    /\ batch = 1
    /\ stage = "idle"
    /\ holding = {}
    /\ session = [k \in Outputs |-> "none"]
    /\ ended = [p \in Prompts |-> "none"]
    /\ stored = {}
    /\ status = [p \in Prompts |-> "none"]
    /\ listed = {}
    /\ snapshot = <<>>

------------------------------------------------------------------------------
(* The trainer *)

\* The prompts are marked as running in the buffer, then dispatched; the
\* workers have created their tasks when the call returns.
Generate ==
    /\ stage = "idle"
    /\ stage' = "sampling"
    /\ status' = [p \in Prompts |-> IF BatchOf(p) = batch THEN "running" ELSE status[p]]
    /\ session' = [k \in Outputs |-> IF BatchOf(k[1]) = batch THEN "running" ELSE session[k]]
    /\ UNCHANGED <<batch, holding, ended, stored, listed, snapshot>>

Waiting == {p \in Prompts : status[p] = "running" /\ Label(BatchOf(p)) = Label(batch)}

\* ReplayBuffer.sample, under the lock: everything of these global_steps, once
\* nothing of them is running.
Sample ==
    /\ stage = "sampling"
    /\ Waiting = {}
    /\ holding' = {k \in listed : Label(BatchOfKey(k)) = Label(batch)}
    /\ stage' = "sampled"
    /\ UNCHANGED <<batch, workers, buffer, snapshot>>

Remainder == Cardinality(holding) % Multiple

\* upsample_batch_to_divisible_size: the padding's keys.
Pads == IF Remainder = 0 THEN {} ELSE {<<-batch, i>> : i \in 1 .. Multiple - Remainder}

\* Padding goes into the queue and the batch; _validate reads its batch as it
\* is.  An empty batch is not padded, and cannot be partitioned over the ranks.
Balance ==
    /\ stage = "sampled"
    /\ \/ /\ Partition = "train" => holding # {}
          /\ LET pads == IF Partition = "train" THEN Pads ELSE {}
             IN  /\ holding' = holding \union pads
                 /\ stored' = stored \union pads
          /\ stage' = "using"
       \/ /\ Partition = "train" /\ holding = {}
          /\ stage' = "crashed"
          /\ UNCHANGED <<holding, stored>>
    /\ UNCHANGED <<batch, session, ended, buffer, snapshot>>

\* Mutant: the padding is forgotten.
ClearOutputs ==
    /\ stage = "using"
    /\ stored' = stored \ (holding \intersect Outputs)
    /\ stage' = "cleared"
    /\ UNCHANGED <<batch, holding, session, ended, buffer, snapshot>>

\* The batch has been trained on (or its metrics taken): kv_clear.
Clear ==
    /\ stage = "using"
    /\ stored' = stored \ holding
    /\ stage' = "cleared"
    /\ UNCHANGED <<batch, holding, session, ended, buffer, snapshot>>

\* ReplayBuffer.remove, and on to the next batch.
Remove ==
    /\ stage = "cleared"
    /\ listed' = listed \ holding
    /\ holding' = {}
    /\ IF batch = Batches
       THEN stage' = "over" /\ batch' = batch
       ELSE stage' = "idle" /\ batch' = batch + 1
    /\ UNCHANGED <<workers, status, snapshot>>

------------------------------------------------------------------------------
(* The workers' background tasks *)

\* _agent_loop_postprocess: one put with the output of a session.
PutOutputs(k) ==
    /\ session[k] = "running"
    /\ session' = [session EXCEPT ![k] = "put"]
    /\ stored' = stored \union {k}
    /\ UNCHANGED <<trainer, ended, buffer, snapshot>>

\* An agent loop that returns an empty list: nothing is put, and nothing raised.
PutNothing(k) ==
    /\ session[k] = "running"
    /\ Cardinality({o \in Outputs : session[o] = "empty"}) < MaxEmpty
    /\ session' = [session EXCEPT ![k] = "empty"]
    /\ UNCHANGED <<trainer, ended, stored, buffer, snapshot>>

Failures == {k \in Outputs : session[k] = "failed"}

\* A session raises: in the agent loop, its score or the put.
Raise(k) ==
    /\ session[k] = "running"
    /\ Cardinality(Failures) < MaxFailures
    /\ session' = [session EXCEPT ![k] = "failed"]
    /\ UNCHANGED <<trainer, ended, stored, buffer, snapshot>>

\* Mutant: the prompt is finished with its first session.
FinishPromptEarly(p) ==
    /\ ended[p] = "none"
    /\ \E s \in Sessions : session[<<p, s>>] = "put"
    /\ ended' = [ended EXCEPT ![p] = "finished"]
    /\ UNCHANGED <<trainer, session, stored, buffer, snapshot>>

\* gather returns: all sessions have put their outputs, if they had any.
FinishPrompt(p) ==
    /\ ended[p] = "none"
    /\ \A s \in Sessions : session[<<p, s>>] \in {"put", "empty"}
    /\ ended' = [ended EXCEPT ![p] = "finished"]
    /\ UNCHANGED <<trainer, session, stored, buffer, snapshot>>

\* Mutant: a failure is reported when no session is left.
FailPromptIfAll(p) ==
    /\ ended[p] = "none"
    /\ \A s \in Sessions : session[<<p, s>>] = "failed"
    /\ ended' = [ended EXCEPT ![p] = "failure"]
    /\ UNCHANGED <<trainer, session, stored, buffer, snapshot>>

\* gather raises with the first failure; the other sessions go on.
FailPrompt(p) ==
    /\ ended[p] = "none"
    /\ \E s \in Sessions : session[<<p, s>>] = "failed"
    /\ ended' = [ended EXCEPT ![p] = "failure"]
    /\ UNCHANGED <<trainer, session, stored, buffer, snapshot>>

------------------------------------------------------------------------------
(* The polling thread *)

List ==
    /\ snapshot = <<>>
    /\ snapshot' = [ended |-> ended, keys |-> stored]
    /\ UNCHANGED <<trainer, workers, buffer>>

\* ReplayBuffer.add merges the snapshot's tags, under the lock.
Add ==
    /\ snapshot # <<>>
    /\ status' = [p \in Prompts |->
           IF snapshot.ended[p] \in Ends THEN snapshot.ended[p] ELSE status[p]]
    /\ listed' = listed \union snapshot.keys
    /\ snapshot' = <<>>
    /\ UNCHANGED <<trainer, workers>>

------------------------------------------------------------------------------
Train == Generate \/ Sample \/ Balance \/ Clear \/ Remove
Session(k) == PutOutputs(k) \/ PutNothing(k) \/ Raise(k)
Prompt(p) == FinishPrompt(p) \/ FailPrompt(p)
Poll == List \/ Add

Next ==
    \/ Train
    \/ \E k \in Outputs : Session(k)
    \/ \E p \in Prompts : Prompt(p)
    \/ Poll

\* Agent loops end (PartialRollout), the trainer is a sequential program and
\* the polling thread sleeps for poll_interval at most.
Fairness ==
    /\ WF_vars(Train) /\ WF_vars(Poll)
    /\ \A k \in Outputs : WF_vars(Session(k))
    /\ \A p \in Prompts : WF_vars(Prompt(p))

Spec == Init /\ [][Next]_vars /\ Fairness

------------------------------------------------------------------------------
(* Properties *)

\* A batch in use has every session of every prompt that finished, but those
\* whose agent loop had no output: no prompt counts as finished before all its
\* outputs are listed.
FinishedIsWhole ==
    stage \in {"sampled", "using"} =>
        \A p \in Prompts : BatchOf(p) = batch /\ status[p] = "finished" =>
            \A s \in Sessions : <<p, s>> \in holding \/ session[<<p, s>>] = "empty"

\* A batch in use consists of outputs and padding of this batch alone, their
\* data are in the queue, and it divides evenly over ranks and mini-batches.
OwnAndPresent ==
    /\ stage \in {"sampled", "using"} =>
          /\ holding \subseteq stored
          /\ \A k \in holding : BatchOfKey(k) = batch
    /\ stage = "using" /\ Partition = "train" => Remainder = 0

\* What an earlier batch leaves in the queue are outputs that came after a
\* failure of their prompt: they are neither trained on nor cleared.
LeftoversOfFailures ==
    \A k \in stored :
        BatchOfKey(k) < batch \/ stage = "over" => k \in Outputs /\ ended[k[1]] = "failure"

\* A prompt that ended without any output: it failed, or no agent loop had one.
Fruitless(p) ==
    \/ ended[p] = "failure"
    \/ ended[p] = "finished" /\ \A s \in Sessions : session[<<p, s>>] = "empty"

\* The trainer gets through all batches, however the poll and the sessions
\* interleave, unless every prompt of a batch has failed or had no output.
AllBatchesTrained ==
    /\ <>(stage \in {"over", "crashed"})
    /\ [](stage = "crashed" => \A p \in Prompts : BatchOf(p) = batch => Fruitless(p))

\* "5. cleanup transfer queue and replay buffer": once a batch is cleaned up,
\* the buffer lists none of its keys that the queue no longer has.
CleanedUp ==
    \A k \in listed : BatchOfKey(k) < batch => k \in stored
=============================================================================
