---------------------------- MODULE PartialRollout ----------------------------
(***************************************************************************)
(* Agent loops that generate while the trainer replaces the weights:        *)
(*   - ToolAgentLoop.run, the state machine of one trajectory (PENDING,     *)
(*     GENERATING, PROCESSING_TOOLS, TERMINATED);                           *)
(*   - FullyAsyncLLMServerManager.generate, which sends an aborted request  *)
(*     again with what it has generated so far (partial rollout);           *)
(*   - the LLM servers (vLLM), which abort and block their requests;        *)
(*   - CheckpointEngineManager.update_weights, the trainer's update:        *)
(*     abort all, load everywhere, resume all.                              *)
(*                                                                          *)
(* A token is the version of the weights that generated it, or PromptToken  *)
(* or ToolToken.  The engine's wake-up of an answered request and the read  *)
(* of its version label are one step: the label changes only after a        *)
(* transfer of the weights, long after the event loop has run the waiting   *)
(* coroutine.  The server of a call is any server (LoadBalancer models the  *)
(* choice).                                                                 *)
(***************************************************************************)
EXTENDS Integers, Sequences, FiniteSets

CONSTANTS
    Sessions,          \* agent loops
    Servers,           \* replicas, one server each
    PromptLength,      \* rollout.prompt_length
    ResponseLength,    \* rollout.response_length
    PromptLens,        \* lengths of the prompts of the dataset
    ToolLens,          \* lengths of tool responses, in tokens
    MaxAssistantTurns, \* multi_turn.max_assistant_turns, 0 for none
    MaxUserTurns,      \* multi_turn.max_user_turns, 0 for none
    PartialRollout,    \* async_training.partial_rollout
    PausesGeneration,  \* vLLM >= 0.12: an abort blocks new requests
    MaxVersion,        \* bound: updates of the weights
    NoServer

ASSUME LengthsAssumption ==
    /\ PromptLength \in Nat /\ ResponseLength \in Nat \ {0}
    /\ PromptLens \subseteq 1 .. PromptLength
    /\ ToolLens \subseteq Nat
ASSUME TurnsAssumption ==
    /\ MaxAssistantTurns \in Nat /\ MaxUserTurns \in Nat /\ MaxVersion \in Nat
ASSUME ServersAssumption == NoServer \notin Servers
ASSUME ModesAssumption == PartialRollout \in BOOLEAN /\ PausesGeneration \in BOOLEAN

Torn == -1         \* a token generated while the weights were half replaced
ToolToken == -2
PromptToken == -3

Versions == 0 .. MaxVersion
Generated == Versions \union {Torn}
Tokens == Generated \union {ToolToken, PromptToken}

VARIABLES
    version,   \* current_param_version of the trainer
    weights,   \* version of each server's weights
    label,     \* each server's global_steps
    phase,     \* where each server is in update_weights
    state,     \* AgentState of each session, and "DONE" after run returns
    prompt,    \* agent_data.prompt_ids
    mask,      \* agent_data.response_mask
    logprobs,  \* length of agent_data.response_logprobs
    fields,    \* extra_fields: <<min_global_steps, max_global_steps>>, or <<>>
    turns,     \* assistant_turns and user_turns
    call,      \* the generate() of a session: where it is
    server,    \* the server of the request, or NoServer
    budget,    \* max_tokens of the request
    fresh,     \* tokens of the request
    final,     \* final_output.token_ids of the manager
    span,      \* the manager's <<min_global_steps, max_global_steps>>, or <<>>
    output     \* AgentLoopOutput: [prompt, response, mask, logprobs], or <<>>

serverVars == <<version, weights, label, phase>>
loopVars == <<state, prompt, mask, logprobs, fields, turns, output>>
callVars == <<call, server, budget, fresh, final, span>>
vars == <<serverVars, loopVars, callVars>>

Spans == {<<>>} \union (Versions \X Versions)

TypeOK ==
    /\ version \in Versions
    /\ weights \in [Servers -> Versions]
    /\ label \in [Servers -> Versions]
    /\ phase \in [Servers -> {"serving", "aborted", "loading", "loaded"}]
    /\ state \in [Sessions ->
           {"PENDING", "GENERATING", "PROCESSING_TOOLS", "TERMINATED", "DONE"}]
    /\ prompt \in [Sessions -> Seq(Tokens)]
    /\ mask \in [Sessions -> Seq({0, 1})]
    /\ logprobs \in [Sessions -> Nat]
    /\ fields \in [Sessions -> Spans]
    /\ turns \in [Sessions -> [assistant : Nat, user : Nat]]
    /\ call \in [Sessions -> {"none", "ready", "sent", "running", "answered"}]
    /\ server \in [Sessions -> Servers \union {NoServer}]
    /\ budget \in [Sessions -> 0 .. ResponseLength]
    /\ fresh \in [Sessions -> Seq(Generated)]
    /\ final \in [Sessions -> Seq(Generated)]
    /\ span \in [Sessions -> Spans]

Init ==
    /\ version = 0
    /\ weights = [s \in Servers |-> 0]
    /\ label = [s \in Servers |-> 0]
    /\ phase = [s \in Servers |-> "serving"]
    /\ state = [c \in Sessions |-> "PENDING"]
    /\ prompt = [c \in Sessions |-> <<>>]
    /\ mask = [c \in Sessions |-> <<>>]
    /\ logprobs = [c \in Sessions |-> 0]
    /\ fields = [c \in Sessions |-> <<>>]
    /\ turns = [c \in Sessions |-> [assistant |-> 0, user |-> 0]]
    /\ output = [c \in Sessions |-> <<>>]
    /\ call = [c \in Sessions |-> "none"]
    /\ server = [c \in Sessions |-> NoServer]
    /\ budget = [c \in Sessions |-> 0]
    /\ fresh = [c \in Sessions |-> <<>>]
    /\ final = [c \in Sessions |-> <<>>]
    /\ span = [c \in Sessions |-> <<>>]

Repeat(x, n) == [i \in 1 .. n |-> x]
Least(a, b) == IF a <= b THEN a ELSE b

------------------------------------------------------------------------------
(* The trainer: CheckpointEngineManager.update_weights *)

AllIn(phases) == \A s \in Servers : phase[s] \in phases

\* A parameter update is due; the calls of abort_all_requests go out.
BeginUpdate ==
    /\ AllIn({"serving"})
    /\ version < MaxVersion
    /\ \A s \in Servers : label[s] = version
    /\ version' = version + 1
    /\ UNCHANGED <<weights, label, phase, loopVars, callVars>>

\* The manager's merge of an answer with label g.
Merged(sp, g) == IF sp = <<>> THEN <<g, g>> ELSE <<sp[1], g>>

Running(s) == {c \in Sessions : call[c] = "running" /\ server[c] = s}

\* Mutant: the tokens of an aborted request are dropped.
AbortAllDropping(s) ==
    LET hit == Running(s) IN
        /\ version > label[s]
        /\ phase[s] = "serving"
        /\ phase' = [phase EXCEPT ![s] = "aborted"]
        /\ span' = [c \in Sessions |-> IF c \in hit THEN Merged(span[c], label[s]) ELSE span[c]]
        /\ fresh' = [c \in Sessions |-> IF c \in hit THEN <<>> ELSE fresh[c]]
        /\ call' = [c \in Sessions |->
               IF c \notin hit THEN call[c]
               ELSE IF PartialRollout THEN "ready" ELSE "answered"]
        /\ server' = [c \in Sessions |-> IF c \in hit THEN NoServer ELSE server[c]]
        /\ budget' = [c \in Sessions |-> IF c \in hit THEN 0 ELSE budget[c]]
        /\ UNCHANGED <<version, weights, label, loopVars, final>>

\* abort_all_requests of one server: it blocks new requests (vLLM >= 0.12) and
\* answers those it runs with what they have, "aborted".  The manager merges
\* the answer and, on partial rollout, goes round its loop.
AbortAll(s) ==
    LET hit == Running(s) IN
        /\ version > label[s]
        /\ phase[s] = "serving"
        /\ phase' = [phase EXCEPT ![s] = "aborted"]
        /\ final' = [c \in Sessions |-> IF c \in hit THEN final[c] \o fresh[c] ELSE final[c]]
        /\ span' = [c \in Sessions |-> IF c \in hit THEN Merged(span[c], label[s]) ELSE span[c]]
        /\ fresh' = [c \in Sessions |-> IF c \in hit THEN <<>> ELSE fresh[c]]
        /\ call' = [c \in Sessions |->
               IF c \notin hit THEN call[c]
               ELSE IF PartialRollout THEN "ready" ELSE "answered"]
        /\ server' = [c \in Sessions |-> IF c \in hit THEN NoServer ELSE server[c]]
        /\ budget' = [c \in Sessions |-> IF c \in hit THEN 0 ELSE budget[c]]
        /\ UNCHANGED <<version, weights, label, loopVars>>

\* All have aborted; sleep_replicas waits for their requests to drain, the
\* process group is built and every replica starts to receive.
BeginTransfer ==
    /\ AllIn({"aborted"})
    /\ \A s \in Servers : Running(s) = {}
    /\ phase' = [s \in Servers |-> "loading"]
    /\ UNCHANGED <<version, weights, label, loopVars, callVars>>

\* Mutant: a replica loads as soon as it has aborted, whatever the others do.
LoadUnsynchronised(s) ==
    /\ phase[s] \in {"aborted", "loading"}
    /\ weights' = [weights EXCEPT ![s] = version]
    /\ label' = [label EXCEPT ![s] = version]
    /\ phase' = [phase EXCEPT ![s] = "loaded"]
    /\ UNCHANGED <<version, loopVars, callVars>>

\* update_weights of one replica ends: new weights, cache reset, new label.
Load(s) ==
    /\ phase[s] = "loading"
    /\ weights' = [weights EXCEPT ![s] = version]
    /\ label' = [label EXCEPT ![s] = version]
    /\ phase' = [phase EXCEPT ![s] = "loaded"]
    /\ UNCHANGED <<version, loopVars, callVars>>

\* Mutant: a replica resumes only while no other has.
ResumeTogether(s) ==
    /\ AllIn({"loaded"})
    /\ phase' = [phase EXCEPT ![s] = "serving"]
    /\ UNCHANGED <<version, weights, label, loopVars, callVars>>

\* All are loaded and finalized: resume_generation of one replica.
Resume(s) ==
    /\ phase[s] = "loaded"
    /\ AllIn({"loaded", "serving"})
    /\ phase' = [phase EXCEPT ![s] = "serving"]
    /\ UNCHANGED <<version, weights, label, loopVars, callVars>>

------------------------------------------------------------------------------
(* The server manager and the servers *)

\* max_tokens of a request with n tokens of prompt.
MaxTokens(n) ==
    LET room == Least(ResponseLength, PromptLength + ResponseLength - n)
    IN  IF room < 0 THEN 0 ELSE room

\* A request for prompt_ids + final_output.token_ids reaches a server.  The
\* sampling parameters of the agent loops carry no max_tokens: the server
\* computes the limit from the length of the prompt it gets.
Submit(c) ==
    /\ call[c] = "ready"
    /\ call' = [call EXCEPT ![c] = "sent"]
    /\ \E s \in Servers : server' = [server EXCEPT ![c] = s]
    /\ budget' = [budget EXCEPT ![c] = MaxTokens(Len(prompt[c]) + Len(final[c]))]
    /\ UNCHANGED <<serverVars, loopVars, fresh, final, span>>

\* The engine takes the request, unless it is paused.
Start(c) ==
    /\ call[c] = "sent"
    /\ PausesGeneration => phase[server[c]] = "serving"
    /\ call' = [call EXCEPT ![c] = "running"]
    /\ UNCHANGED <<serverVars, loopVars, server, budget, fresh, final, span>>

Sampled(s) == IF phase[s] = "loading" THEN Torn ELSE weights[s]

\* The engine generates one token and goes on.
Decode(c) ==
    /\ call[c] = "running"
    /\ Len(fresh[c]) + 1 < budget[c]
    /\ fresh' = [fresh EXCEPT ![c] = Append(@, Sampled(server[c]))]
    /\ UNCHANGED <<serverVars, loopVars, call, server, budget, final, span>>

\* The engine generates a last token, an end of sequence or the one at the
\* limit; the server answers with its label and the manager merges the answer.
Finish(c) ==
    /\ call[c] = "running"
    /\ final' = [final EXCEPT ![c] = (@ \o fresh[c]) \o <<Sampled(server[c])>>]
    /\ span' = [span EXCEPT ![c] = Merged(@, label[server[c]])]
    /\ fresh' = [fresh EXCEPT ![c] = <<>>]
    /\ call' = [call EXCEPT ![c] = "answered"]
    /\ server' = [server EXCEPT ![c] = NoServer]
    /\ budget' = [budget EXCEPT ![c] = 0]
    /\ UNCHANGED <<serverVars, loopVars>>

------------------------------------------------------------------------------
(* ToolAgentLoop *)

\* generate() of the manager begins: an empty final_output.
Generate(c) ==
    /\ state' = [state EXCEPT ![c] = "GENERATING"]
    /\ call' = [call EXCEPT ![c] = "ready"]
    /\ UNCHANGED <<server, budget, fresh, final, span>>

HandlePending(c) ==
    /\ state[c] = "PENDING"
    /\ \E n \in PromptLens : prompt' = [prompt EXCEPT ![c] = Repeat(PromptToken, n)]
    /\ Generate(c)
    /\ UNCHANGED <<serverVars, mask, logprobs, fields, turns, output>>

\* Mutant: a later turn replaces both labels.
UpdatedWhole(f, sp) == sp

\* extra_fields after an answer: all of it the first time, then the maximum
\* (a 0 is falsy and changes nothing).
Updated(f, sp) ==
    IF f = <<>> THEN sp
    ELSE IF sp[2] # 0 THEN <<f[1], sp[2]>> ELSE f

\* The end of _handle_generating_state: the answer joins the trajectory, then
\* the limits, then the tool calls found in the answer (none in an empty one).
HandleGenerated(c) ==
    LET length == Len(mask[c]) + Len(final[c])
        over == \/ length >= ResponseLength
                \/ MaxAssistantTurns # 0 /\ turns[c].assistant + 1 >= MaxAssistantTurns
                \/ MaxUserTurns # 0 /\ turns[c].user >= MaxUserTurns
    IN  /\ state[c] = "GENERATING" /\ call[c] = "answered"
        /\ fields' = [fields EXCEPT ![c] = Updated(@, span[c])]
        /\ turns' = [turns EXCEPT ![c].assistant = @ + 1]
        /\ prompt' = [prompt EXCEPT ![c] = @ \o final[c]]
        /\ mask' = [mask EXCEPT ![c] = @ \o Repeat(1, Len(final[c]))]
        /\ logprobs' = [logprobs EXCEPT ![c] = @ + Len(final[c])]
        /\ \E tools \in BOOLEAN :
              /\ tools => ~over /\ final[c] # <<>>
              /\ state' = [state EXCEPT ![c] =
                     IF tools THEN "PROCESSING_TOOLS" ELSE "TERMINATED"]
        /\ call' = [call EXCEPT ![c] = "none"]
        /\ final' = [final EXCEPT ![c] = <<>>]
        /\ span' = [span EXCEPT ![c] = <<>>]
        /\ UNCHANGED <<serverVars, output, server, budget, fresh>>

\* Mutant: tool tokens are masked as generated ones.
HandleToolsTrained(c) ==
    /\ state[c] = "PROCESSING_TOOLS"
    /\ \E n \in ToolLens :
          IF Len(mask[c]) + n >= ResponseLength
          THEN /\ state' = [state EXCEPT ![c] = "TERMINATED"]
               /\ UNCHANGED <<prompt, mask, logprobs, turns, callVars>>
          ELSE /\ prompt' = [prompt EXCEPT ![c] = @ \o Repeat(ToolToken, n)]
               /\ mask' = [mask EXCEPT ![c] = @ \o Repeat(1, n)]
               /\ logprobs' = [logprobs EXCEPT ![c] = IF @ = 0 THEN 0 ELSE @ + n]
               /\ turns' = [turns EXCEPT ![c].user = @ + 1]
               /\ Generate(c)
    /\ UNCHANGED <<serverVars, fields, output>>

\* _handle_processing_tools_state: the tools (which answer errors too with a
\* text) have answered n tokens; if they do not fit the trajectory ends.
HandleTools(c) ==
    /\ state[c] = "PROCESSING_TOOLS"
    /\ \E n \in ToolLens :
          IF Len(mask[c]) + n >= ResponseLength
          THEN /\ state' = [state EXCEPT ![c] = "TERMINATED"]
               /\ UNCHANGED <<prompt, mask, logprobs, turns, callVars>>
          ELSE /\ prompt' = [prompt EXCEPT ![c] = @ \o Repeat(ToolToken, n)]
               /\ mask' = [mask EXCEPT ![c] = @ \o Repeat(0, n)]
               /\ logprobs' = [logprobs EXCEPT ![c] = IF @ = 0 THEN 0 ELSE @ + n]
               /\ turns' = [turns EXCEPT ![c].user = @ + 1]
               /\ Generate(c)
    /\ UNCHANGED <<serverVars, fields, output>>

\* s[-n:] of Python: the last n elements, but all of them if n is 0.
LastOf(s, n) == IF n = 0 THEN s ELSE SubSeq(s, Len(s) - n + 1, Len(s))
Cut(s) == SubSeq(s, 1, Least(Len(s), ResponseLength))

\* The end of run: the trajectory is split and cut.
Finalize(c) ==
    /\ state[c] = "TERMINATED"
    /\ state' = [state EXCEPT ![c] = "DONE"]
    /\ output' = [output EXCEPT ![c] =
           [prompt |-> SubSeq(prompt[c], 1, Len(prompt[c]) - Len(mask[c])),
            response |-> Cut(LastOf(prompt[c], Len(mask[c]))),
            mask |-> Cut(mask[c]),
            logprobs |-> Least(logprobs[c], ResponseLength)]]
    /\ UNCHANGED <<serverVars, prompt, mask, logprobs, fields, turns, callVars>>

------------------------------------------------------------------------------
Update == BeginUpdate \/ BeginTransfer \/ \E s \in Servers : AbortAll(s) \/ Load(s) \/ Resume(s)
Request(c) == Submit(c) \/ Start(c) \/ Decode(c) \/ Finish(c)
Loop(c) == HandlePending(c) \/ HandleGenerated(c) \/ HandleTools(c) \/ Finalize(c)

Next == Update \/ \E c \in Sessions : Request(c) \/ Loop(c)

\* The trainer's coroutine, the engines and the agent loops all run on.  The
\* engine ends every request at its limit.  That BeginUpdate is weakly fair is
\* not assumed: the trainer may never update again.
Fairness ==
    /\ WF_vars(BeginTransfer)
    /\ \A s \in Servers : WF_vars(AbortAll(s)) /\ WF_vars(Load(s)) /\ WF_vars(Resume(s))
    /\ \A c \in Sessions : WF_vars(Request(c)) /\ WF_vars(Loop(c))

Spec == Init /\ [][Next]_vars /\ Fairness

------------------------------------------------------------------------------
(* Properties *)

GeneratedIn(s) == {i \in DOMAIN s : s[i] \in Generated}

\* What a session has generated, and the prompts and tool responses between.
Trajectory(c) == (prompt[c] \o final[c]) \o fresh[c]

\* The versions that a trajectory is labelled with (min_global_steps and
\* max_global_steps, from which the trainer computes staleness) cover every
\* version that generated one of its tokens, over all turns and interruptions.
LabelsCoverTokens ==
    \A c \in Sessions : fields[c] # <<>> =>
        \A i \in GeneratedIn(prompt[c]) :
            fields[c][1] <= prompt[c][i] /\ prompt[c][i] <= fields[c][2]

\* No token comes from weights that are being replaced, and along a
\* trajectory the versions never go back: update_weights resumes no server
\* while another still has, or is still loading, other weights.
VersionsInOrder ==
    \A c \in Sessions : LET t == Trajectory(c) IN
        \A i, j \in GeneratedIn(t) : i <= j => t[i] # Torn /\ t[i] <= t[j]

\* The output of a trajectory: response and mask (and log probabilities) are
\* of one length, the mask is 1 on exactly the generated tokens, and the
\* prompt is what was asked.
OutputAligned ==
    \A c \in Sessions : state[c] = "DONE" =>
        LET o == output[c] IN
        /\ Len(o.response) = Len(o.mask)
        /\ o.logprobs \in {0, Len(o.mask)}
        /\ \A i \in DOMAIN o.mask : (o.mask[i] = 1) <=> (o.response[i] \in Generated)
        /\ \A i \in DOMAIN o.prompt : o.prompt[i] = PromptToken

\* An interruption loses nothing: what a trajectory consists of is only ever
\* extended ("rather than starting over", README of fully_async_policy).
NothingLost ==
    [][\A c \in Sessions :
          /\ Len(Trajectory(c)) <= Len(Trajectory(c)')
          /\ SubSeq(Trajectory(c)', 1, Len(Trajectory(c))) = Trajectory(c)]_vars

\* Every trajectory ends however updates interrupt it, and every update of
\* the weights reaches all servers and lets them serve again.
EverythingEnds ==
    /\ \A c \in Sessions : <>(state[c] = "DONE")
    /\ \A v \in Versions : version = v ~>
           \A s \in Servers : phase[s] = "serving" /\ weights[s] >= v
=============================================================================
