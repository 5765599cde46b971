------------------------------ MODULE RewardLoop ------------------------------
(***************************************************************************)
(* Scoring a batch with reward loop workers:                                *)
(*   - RewardLoopManager.compute_rm_score splits the batch over workers and *)
(*     collects what they answer;                                           *)
(*   - RateLimitedRewardManager.run_single decodes an item, goes through    *)
(*     the token buckets and the semaphore and calls compute_score, which   *)
(*     has a timeout (flow "custom");                                       *)
(*   - RewardLoopWorker._post_request posts to the reward model's router    *)
(*     and retries (flow "disrm");                                          *)
(*   - NaiveRouter forwards to the reward servers and retries, too.         *)
(* compute_score and the servers are external: they answer, fail or do      *)
(* neither.  Limiters are class attributes: one set in each worker process. *)
(*                                                                          *)
(* Time goes by in ticks, in which a bucket gains one token.  last_update   *)
(* is not a variable: level is what tokens is after the refill that every   *)
(* acquire begins with.                                                     *)
(***************************************************************************)
EXTENDS Integers, Sequences, FiniteSets

CONSTANTS
    Batch,         \* items of the batch
    Workers,       \* reward.num_workers
    Buckets,       \* rpm and tpm limiter: max_tokens and tokens of a request
    MaxConcurrent, \* permits of a worker's semaphore
    Timeout,       \* ticks until wait_for gives up
    Threads,       \* threads of a worker's default executor
    DictKeys,      \* kinds of dicts compute_score returns, and their keys
    NumServers,    \* reward model replicas
    MaxAttempts,   \* of the router
    MaxRetries,    \* of _post_request
    MaxErrors      \* bound: HTTP errors of the servers

ASSUME BatchAssumption ==
    /\ Batch \in Nat \ {0} /\ Workers \in Nat \ {0} /\ Batch % Workers = 0
ASSUME LimitsAssumption ==
    /\ Buckets \in Seq([max : Nat \ {0}, need : Nat \ {0}])
    /\ MaxConcurrent \in Nat \ {0} /\ Threads \in Nat \ {0} /\ Timeout \in Nat
ASSUME RouterAssumption ==
    /\ NumServers \in Nat \ {0} /\ MaxErrors \in Nat
    /\ MaxAttempts \in Nat \ {0} /\ MaxRetries \in Nat \ {0}

Items == 1 .. Batch
Pool == 1 .. Workers
Limiters == DOMAIN Buckets
Servers == 1 .. NumServers
NoServer == 0

\* DataProto.chunk: consecutive items go to the same worker.
WorkerOf(i) == ((i - 1) \div (Batch \div Workers)) + 1

VARIABLES
    flow,     \* "custom" or "disrm": which rewards are configured
    sync,     \* compute_score is a plain function, run in a thread
    pc,       \* where each item is
    stage,    \* the limiter it is at
    sleep,    \* ticks it still sleeps there
    age,      \* ticks since its call began
    score,    \* how it got its score
    level,    \* tokens of the buckets
    permits,  \* value of the semaphores
    waiters,  \* and who waits for one
    jobs,     \* queue of the executors
    busy,     \* items in their threads
    url,      \* worker_url of the router for each item
    tries,    \* the router's attempts
    retries,  \* the worker's attempts
    counts,   \* request_counts of the router
    dead,     \* servers that refuse connections
    errors,   \* HTTP errors so far
    batch,    \* of compute_rm_score
    meter     \* history: what each limiter has let pass, leaking a token a tick

config == <<flow, sync>>
items == <<pc, stage, sleep, age, score>>
limits == <<level, permits, waiters, meter>>
threads == <<jobs, busy>>
router == <<url, tries, retries, counts, dead, errors>>
vars == <<config, items, limits, threads, router, batch>>

FailedScores == {"timeout", "error", "raised"}
Dicts == DOMAIN DictKeys

ASSUME ResultsAssumption == Dicts \intersect (FailedScores \union {"none", "float", "reward"}) = {}

Places == {"new", "decoding", "limited", "short", "paying", "queued", "granted", "calling",
           "posting", "forwarding", "settled"}
Scores == {"none", "float", "reward"} \union Dicts \union FailedScores

TypeOK ==
    /\ flow \in {"custom", "disrm"} /\ sync \in BOOLEAN
    /\ pc \in [Items -> Places]
    /\ stage \in [Items -> 1 .. Len(Buckets) + 1]
    /\ sleep \in [Items -> Nat]
    /\ age \in [Items -> 0 .. Timeout]
    /\ score \in [Items -> Scores]
    /\ level \in [Pool -> [Limiters -> Int]]
    /\ meter \in [Pool -> [Limiters -> Nat]]
    /\ permits \in [Pool -> 0 .. MaxConcurrent]
    /\ waiters \in [Pool -> Seq(Items)]
    /\ jobs \in [Pool -> Seq(Items)]
    /\ busy \in [Pool -> SUBSET Items]
    /\ url \in [Items -> Servers \union {NoServer}]
    /\ tries \in [Items -> 0 .. MaxAttempts - 1]
    /\ retries \in [Items -> 0 .. MaxRetries - 1]
    /\ counts \in [Servers -> Nat]
    /\ dead \subseteq Servers
    /\ errors \in 0 .. MaxErrors
    /\ batch \in {"open", "collected", "crashed"}

Init ==
    /\ flow \in {"custom", "disrm"}
    /\ sync \in BOOLEAN /\ (flow = "disrm" => ~sync)
    /\ pc = [i \in Items |-> "new"]
    /\ stage = [i \in Items |-> 1]
    /\ sleep = [i \in Items |-> 0]
    /\ age = [i \in Items |-> 0]
    /\ score = [i \in Items |-> "none"]
    /\ level = [w \in Pool |-> [b \in Limiters |-> Buckets[b].max]]
    /\ meter = [w \in Pool |-> [b \in Limiters |-> 0]]
    /\ permits = [w \in Pool |-> MaxConcurrent]
    /\ waiters = [w \in Pool |-> <<>>]
    /\ jobs = [w \in Pool |-> <<>>]
    /\ busy = [w \in Pool |-> {}]
    /\ url = [i \in Items |-> NoServer]
    /\ tries = [i \in Items |-> 0]
    /\ retries = [i \in Items |-> 0]
    /\ counts = [s \in Servers |-> 0]
    /\ dead = {}
    /\ errors = 0
    /\ batch = "open"

Goto(i, place) == pc' = [pc EXCEPT ![i] = place]

------------------------------------------------------------------------------
(* Time *)

Down(n) == IF n > 0 THEN n - 1 ELSE 0

Sleeping == {i \in Items : pc[i] \in {"short", "paying"} /\ sleep[i] > 0}
Calling == {i \in Items : pc[i] = "calling" /\ age[i] < Timeout}
Refilling == {w \in Pool : \E b \in Limiters : level[w][b] < Buckets[b].max \/ meter[w][b] > 0}

\* The event loop wakes a sleeper before the next tick: a tick is long.
Tick ==
    /\ \A i \in Items : pc[i] \in {"short", "paying"} => sleep[i] > 0
    /\ Sleeping \union Calling # {} \/ Refilling # {}
    /\ sleep' = [i \in Items |-> IF i \in Sleeping THEN sleep[i] - 1 ELSE sleep[i]]
    /\ age' = [i \in Items |-> IF i \in Calling THEN age[i] + 1 ELSE age[i]]
    /\ level' = [w \in Pool |-> [b \in Limiters |->
           IF level[w][b] < Buckets[b].max THEN level[w][b] + 1 ELSE level[w][b]]]
    /\ meter' = [w \in Pool |-> [b \in Limiters |-> Down(meter[w][b])]]
    /\ UNCHANGED <<config, pc, stage, score, permits, waiters, threads, router, batch>>

------------------------------------------------------------------------------
(* The executor: a queue of jobs and a limited number of threads *)

StartJob(w) ==
    /\ jobs[w] # <<>>
    /\ Cardinality(busy[w]) < Threads
    /\ busy' = [busy EXCEPT ![w] = @ \union {Head(jobs[w])}]
    /\ jobs' = [jobs EXCEPT ![w] = Tail(@)]
    /\ UNCHANGED <<config, items, limits, router, batch>>

\* run_single: the response is decoded in a thread; compute_score_disrm
\* decodes by itself.
Begin(i) ==
    /\ pc[i] = "new"
    /\ IF flow = "custom"
       THEN Goto(i, "decoding") /\ jobs' = [jobs EXCEPT ![WorkerOf(i)] = Append(@, i)]
       ELSE Goto(i, "posting") /\ UNCHANGED jobs
    /\ UNCHANGED <<config, stage, sleep, age, score, limits, busy, router, batch>>

Decoded(i) ==
    /\ pc[i] = "decoding" /\ i \in busy[WorkerOf(i)]
    /\ busy' = [busy EXCEPT ![WorkerOf(i)] = @ \ {i}]
    /\ Goto(i, "limited")
    /\ UNCHANGED <<config, stage, sleep, age, score, limits, jobs, router, batch>>

------------------------------------------------------------------------------
(* AsyncTokenBucket.acquire and the semaphore *)

Level(i) == level[WorkerOf(i)][stage[i]]
Bucket(i) == Buckets[stage[i]]
AtLimiter(i) == pc[i] = "limited" /\ stage[i] \in Limiters
Pay(i) == level' = [level EXCEPT ![WorkerOf(i)][stage[i]] = @ - Bucket(i).need]

\* acquire returns: the request may go on to the next limiter.
Admit(i) ==
    /\ stage' = [stage EXCEPT ![i] = @ + 1]
    /\ meter' = [meter EXCEPT ![WorkerOf(i)][stage[i]] = @ + Bucket(i).need]

\* A request that fits the bucket takes its tokens if they are there.
Acquire(i) ==
    /\ AtLimiter(i)
    /\ Bucket(i).need <= Bucket(i).max /\ Bucket(i).need <= Level(i)
    /\ Pay(i) /\ Admit(i)
    /\ UNCHANGED <<config, pc, sleep, age, score, permits, waiters, threads, router, batch>>

\* Otherwise it sleeps until they would be, and tries again.
AcquireLater(i) ==
    /\ AtLimiter(i)
    /\ Bucket(i).need <= Bucket(i).max /\ Bucket(i).need > Level(i)
    /\ sleep' = [sleep EXCEPT ![i] = Bucket(i).need - Level(i)]
    /\ Goto(i, "short")
    /\ UNCHANGED <<config, stage, age, score, limits, threads, router, batch>>

\* Mutant: a large request empties the bucket, and owes nothing.
AcquireLargeFree(i) ==
    /\ AtLimiter(i)
    /\ Bucket(i).need > Bucket(i).max
    /\ level' = [level EXCEPT ![WorkerOf(i)][stage[i]] = 0]
    /\ sleep' = [sleep EXCEPT ![i] = Bucket(i).need - Level(i)]
    /\ Goto(i, "paying")
    /\ UNCHANGED <<config, stage, age, score, permits, waiters, meter, threads, router, batch>>

\* A request larger than the bucket pays at once, into debt, then sleeps.
AcquireLarge(i) ==
    /\ AtLimiter(i)
    /\ Bucket(i).need > Bucket(i).max
    /\ Pay(i)
    /\ sleep' = [sleep EXCEPT ![i] = Bucket(i).need - Level(i)]
    /\ Goto(i, "paying")
    /\ UNCHANGED <<config, stage, age, score, permits, waiters, meter, threads, router, batch>>

\* asyncio.sleep is over.
Wake(i) ==
    /\ pc[i] \in {"short", "paying"} /\ sleep[i] = 0
    /\ Goto(i, "limited")
    /\ IF pc[i] = "paying" THEN Admit(i) ELSE UNCHANGED <<stage, meter>>
    /\ UNCHANGED <<config, sleep, age, score, level, permits, waiters, threads, router, batch>>

\* async with self._semaphore, past the last limiter.
Enter(i) ==
    LET w == WorkerOf(i) IN
        /\ pc[i] = "limited" /\ stage[i] = Len(Buckets) + 1
        /\ IF permits[w] > 0 /\ waiters[w] = <<>>
           THEN /\ permits' = [permits EXCEPT ![w] = @ - 1]
                /\ Goto(i, "granted")
                /\ UNCHANGED waiters
           ELSE /\ waiters' = [waiters EXCEPT ![w] = Append(@, i)]
                /\ Goto(i, "queued")
                /\ UNCHANGED permits
        /\ UNCHANGED <<config, stage, sleep, age, score, level, meter, threads, router, batch>>

\* asyncio.wait_for(self._compute_reward(...)).
Call(i) ==
    /\ pc[i] = "granted"
    /\ Goto(i, "calling")
    /\ jobs' = IF sync THEN [jobs EXCEPT ![WorkerOf(i)] = Append(@, i)] ELSE jobs
    /\ UNCHANGED <<config, stage, sleep, age, score, limits, busy, router, batch>>

\* Mutant: the permit is handed on and returned.
FinishTwice(i, how) ==
    LET w == WorkerOf(i) IN
        /\ score' = [score EXCEPT ![i] = how]
        /\ permits' = [permits EXCEPT ![w] = @ + 1]
        /\ IF waiters[w] = <<>>
           THEN Goto(i, "settled") /\ UNCHANGED waiters
           ELSE /\ waiters' = [waiters EXCEPT ![w] = Tail(@)]
                /\ pc' = [pc EXCEPT ![i] = "settled", ![Head(waiters[w])] = "granted"]

\* The item has its score; the semaphore's permit goes to the first waiter.
Finish(i, how) ==
    LET w == WorkerOf(i) IN
        /\ score' = [score EXCEPT ![i] = how]
        /\ IF waiters[w] = <<>>
           THEN /\ permits' = [permits EXCEPT ![w] = @ + 1]
                /\ Goto(i, "settled")
                /\ UNCHANGED waiters
           ELSE /\ waiters' = [waiters EXCEPT ![w] = Tail(@)]
                /\ pc' = [pc EXCEPT ![i] = "settled", ![Head(waiters[w])] = "granted"]
                /\ UNCHANGED permits

\* compute_score returns a float or a dict (default_compute_score: by the
\* item's data_source) or raises; in a thread only once it has one.
Answer(i) ==
    LET w == WorkerOf(i) IN
        /\ pc[i] = "calling"
        /\ sync => i \in busy[w]
        /\ busy' = [busy EXCEPT ![w] = @ \ {i}]
        /\ \E how \in {"float", "error"} \union Dicts : Finish(i, how)
        /\ UNCHANGED <<config, stage, sleep, age, level, meter, jobs, router, batch>>

\* A queue without item i, which is in it once at most.
Without(s, i) ==
    IF \E n \in DOMAIN s : s[n] = i
    THEN LET n == CHOOSE n \in DOMAIN s : s[n] = i
         IN  SubSeq(s, 1, n - 1) \o SubSeq(s, n + 1, Len(s))
    ELSE s

\* Mutant: the permit is not given back.
TimeOutKeeping(i) ==
    /\ pc[i] = "calling" /\ age[i] = Timeout
    /\ score' = [score EXCEPT ![i] = "timeout"]
    /\ Goto(i, "settled")
    /\ jobs' = [jobs EXCEPT ![WorkerOf(i)] = Without(@, i)]
    /\ UNCHANGED <<config, stage, sleep, age, limits, busy, router, batch>>

\* wait_for gives up.  A coroutine is cancelled, a job that waits for a thread
\* is taken back, but a thread goes on.
TimeOut(i) ==
    /\ pc[i] = "calling" /\ age[i] = Timeout
    /\ Finish(i, "timeout")
    /\ jobs' = [jobs EXCEPT ![WorkerOf(i)] = Without(@, i)]
    /\ UNCHANGED <<config, stage, sleep, age, level, meter, busy, router, batch>>

\* Such a thread ends; nobody hears of it.
ThreadEnds(i) ==
    /\ pc[i] = "settled" /\ i \in busy[WorkerOf(i)]
    /\ busy' = [busy EXCEPT ![WorkerOf(i)] = @ \ {i}]
    /\ UNCHANGED <<config, items, limits, jobs, router, batch>>

------------------------------------------------------------------------------
(* The router: NaiveRouter, and _post_request in front of it *)

\* The first of the servers with the lowest count.
LeastLoaded(s) ==
    \A t \in Servers : counts[s] < counts[t] \/ (counts[s] = counts[t] /\ s <= t)

\* A post arrives at the router, which selects a server.
Select(i) ==
    /\ pc[i] = "posting"
    /\ \E s \in Servers :
          /\ LeastLoaded(s)
          /\ url' = [url EXCEPT ![i] = s]
          /\ counts' = [counts EXCEPT ![s] = @ + 1]
    /\ tries' = [tries EXCEPT ![i] = 0]
    /\ Goto(i, "forwarding")
    /\ UNCHANGED <<config, stage, sleep, age, score, limits, threads, retries, dead, errors, batch>>

\* A server answers: the router releases it, and the worker has its score.
Serve(i) ==
    /\ pc[i] = "forwarding" /\ url[i] \notin dead
    /\ counts' = [counts EXCEPT ![url[i]] = Down(@)]
    /\ url' = [url EXCEPT ![i] = NoServer]
    /\ score' = [score EXCEPT ![i] = "reward"]
    /\ Goto(i, "settled")
    /\ UNCHANGED <<config, stage, sleep, age, limits, threads, tries, retries, dead, errors, batch>>

\* Mutant: the router releases the server in any case.
FailReleasing(i) ==
    /\ url' = [url EXCEPT ![i] = NoServer]
    /\ counts' = [counts EXCEPT ![url[i]] = Down(@)]
    /\ IF retries[i] + 1 < MaxRetries
       THEN /\ retries' = [retries EXCEPT ![i] = @ + 1]
            /\ Goto(i, "posting")
            /\ UNCHANGED score
       ELSE /\ score' = [score EXCEPT ![i] = "raised"]
            /\ Goto(i, "settled")
            /\ UNCHANGED retries

\* The handler raises: the server's count stays as it is, the worker gets a
\* 500 whatever it was (its own test for 4xx never holds) and retries.
Fail(i) ==
    /\ url' = [url EXCEPT ![i] = NoServer]
    /\ UNCHANGED counts
    /\ IF retries[i] + 1 < MaxRetries
       THEN /\ retries' = [retries EXCEPT ![i] = @ + 1]
            /\ Goto(i, "posting")
            /\ UNCHANGED score
       ELSE /\ score' = [score EXCEPT ![i] = "raised"]
            /\ Goto(i, "settled")
            /\ UNCHANGED retries

\* A dead server: the router tries the same one again, then raises.
Refuse(i) ==
    /\ pc[i] = "forwarding" /\ url[i] \in dead
    /\ IF tries[i] + 1 < MaxAttempts
       THEN /\ tries' = [tries EXCEPT ![i] = @ + 1]
            /\ UNCHANGED <<pc, score, url, retries, counts>>
       ELSE Fail(i) /\ UNCHANGED tries
    /\ UNCHANGED <<config, stage, sleep, age, limits, threads, dead, errors, batch>>

\* A server answers with an error status: raised at once.
HTTPError(i) ==
    /\ pc[i] = "forwarding" /\ url[i] \notin dead
    /\ errors < MaxErrors
    /\ errors' = errors + 1
    /\ Fail(i)
    /\ UNCHANGED <<config, stage, sleep, age, limits, threads, tries, dead, batch>>

\* A server dies for good.
Die(s) ==
    /\ flow = "disrm"
    /\ s \notin dead
    /\ dead' = dead \union {s}
    /\ UNCHANGED <<config, items, limits, threads, url, tries, retries, counts, errors, batch>>

------------------------------------------------------------------------------
(* compute_rm_score *)

Settled(i) == pc[i] = "settled"

\* The keys of reward_extra_info: a float gives acc, a dict all it has.
Keys(i) ==
    CASE flow = "disrm" -> {}
      [] score[i] = "timeout" -> {"timeout", "acc"}
      [] score[i] = "error" -> {"error", "acc"}
      [] score[i] = "float" -> {"acc"}
      [] OTHER -> DictKeys[score[i]]

\* The answers of all workers: each has to have the keys of the first.
Collect ==
    /\ batch = "open"
    /\ \A i \in Items : Settled(i) /\ score[i] # "raised"
    /\ batch' = IF \A i \in Items : Keys(1) \subseteq Keys(i) THEN "collected" ELSE "crashed"
    /\ UNCHANGED <<config, items, limits, threads, router>>

\* gather raises what an item raised.
Raise(i) ==
    /\ batch = "open"
    /\ score[i] = "raised"
    /\ batch' = "crashed"
    /\ UNCHANGED <<config, items, limits, threads, router>>

------------------------------------------------------------------------------
\* What the event loops and the threads' own code do.
Own(i) ==
    \/ Begin(i) \/ Decoded(i) \/ Acquire(i) \/ AcquireLater(i) \/ AcquireLarge(i) \/ Wake(i)
    \/ Enter(i) \/ Call(i) \/ TimeOut(i) \/ Select(i) \/ Refuse(i) \/ Raise(i)

\* What compute_score and the servers do.
External(i) == Answer(i) \/ ThreadEnds(i) \/ Serve(i) \/ HTTPError(i)

Next ==
    \/ Tick
    \/ \E w \in Pool : StartJob(w)
    \/ \E i \in Items : Own(i) \/ External(i)
    \/ \E s \in Servers : Die(s)
    \/ Collect

\* Time goes by and the event loops run.  No call has to end.
Fairness ==
    /\ WF_vars(Tick) /\ WF_vars(Collect)
    /\ \A w \in Pool : WF_vars(StartJob(w))
    /\ \A i \in Items : WF_vars(Own(i))

Spec == Init /\ [][Next]_vars /\ Fairness

------------------------------------------------------------------------------
(* Properties *)

\* No limiter lets more pass than its rate, in any stretch of time: what has
\* passed, leaking at the rate, never exceeds a full bucket or one request.
RateKept ==
    \A w \in Pool, b \in Limiters :
        meter[w][b] <= IF Buckets[b].need <= Buckets[b].max THEN Buckets[b].max ELSE Buckets[b].need

\* Calls that are being executed, those that timed out included.
InFlight(w) == {i \in Items : /\ WorkerOf(i) = w
                              /\ IF sync THEN i \in busy[w] /\ pc[i] # "decoding"
                                         ELSE pc[i] = "calling"}

\* A worker never makes more calls than it has permits, but for threads whose
\* call it has given up: they run on without one.
ConcurrencyKept ==
    \A w \in Pool :
        Cardinality({i \in InFlight(w) : score[i] # "timeout"}) <= MaxConcurrent

\* Posts of an item that failed, and the most that can while a server is alive.
FailedPosts(i) == retries[i] + (IF score[i] = "raised" THEN 1 ELSE 0)
MostFailures == (NumServers - 1) * (Batch + MaxErrors) + MaxErrors

\* While a server is alive, a post fails MostFailures times at most, whichever
\* others die: the router never forgets a failed request, so a dead server is
\* selected only until its count passes what the live ones can have.  Hence a
\* post is given up only if MaxRetries does not exceed that.  The code has 16:
\* with two servers and no errors, enough for batches of fifteen and no more.
NobodyGivesUp ==
    dead # Servers =>
        \A i \in Items :
            /\ FailedPosts(i) <= MostFailures
            /\ score[i] = "raised" => MaxRetries <= MostFailures

\* Where only an external call can go on: threads that do not end, or a
\* server that does not answer, for neither of which there is a timeout.
Outside(i) ==
    \/ Cardinality({j \in busy[WorkerOf(i)] : Settled(j)}) = Threads
    \/ pc[i] = "forwarding" /\ url[i] \notin dead

\* Every batch is collected, calls that never end or not, unless all threads
\* or a server keep an item for ever.  It crashes only if a call failed, or the
\* results of two items, as of two data sources, do not have the same keys.
RewardsArrive ==
    /\ <>(batch # "open") \/ \E i \in Items : <>[]Outside(i)
    /\ [](batch = "crashed" =>
           \/ \E i \in Items : score[i] \in FailedScores
           \/ flow = "custom" /\ \E i, j \in Items : Keys(i) # Keys(j))
=============================================================================
