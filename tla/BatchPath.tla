------------------------------ MODULE BatchPath -------------------------------
(***************************************************************************)
(* The way of a batch over the data-parallel ranks and back:                 *)
(*   - RayPPOTrainer._balance_batch partitions it evenly over the ranks and  *)
(*     reorders it;                                                          *)
(*   - every rank cuts its share into micro-batches (rearrange_micro_batches)*)
(*     as many as the rank with the most tokens needs, and computes them in  *)
(*     step with the other ranks;                                            *)
(*   - postprocess_batch_func and restore_dynamic_batch put the outputs into *)
(*     the order of the share, and the trainer puts the shares together.     *)
(* Actor 0 is the trainer, 1 .. DP are the ranks.  force_group_size is 1 and *)
(* min_num_micro_batch None, as the engines have it for policies.            *)
(***************************************************************************)
EXTENDS KarmarkarKarp, SequencesExt

CONSTANTS
    DP,            \* data-parallel ranks
    PerRank,       \* samples of a rank
    Batches,       \* bound: batches that may come, tokens of each sample
    MaxTokenLen,   \* max_token_len_per_gpu
    Divisors       \* values of num_batches_divided_by (1 for None)

ASSUME SizesAssumption ==
    /\ DP \in Nat \ {0} /\ PerRank \in Nat \ {0}
    /\ MaxTokenLen \in Nat \ {0}
    /\ Batches \subseteq [1 .. DP * PerRank -> Nat \ {0}]
    /\ Divisors \subseteq Nat \ {0}

Ranks == 1 .. DP
Actors == 0 .. DP
Samples == 1 .. DP * PerRank
Items(a) == IF a = 0 THEN Samples ELSE 1 .. PerRank

VARIABLES
    lens,      \* tokens of each sample
    divisor,   \* num_batches_divided_by
    stage,     \* where each actor is
    heap,      \* states_pq of its karmarkar_karp
    order,     \* samples in the batch's order
    count,     \* num_micro_batches of each rank
    micro,     \* its micro-batches: lists of positions in its share
    outputs,   \* output_lst: outputs of its micro-batches, as samples
    answers    \* and of its share, in order

batchVars == <<lens, divisor, stage, heap, order, count, micro, outputs, answers>>

\* calculate_workload
Workload(n) == 24576 * n + n * n
SampleOf(a, i) == IF a = 0 THEN i ELSE order[(a - 1) * PerRank + i]
Load(a, i) == Workload(lens[SampleOf(a, i)])
Parts(a) == IF a = 0 THEN DP ELSE count[a]

Sets == [sum : Nat, items : Seq(Nat)]

BatchTypeOK ==
    /\ lens \in Batches
    /\ divisor \in Divisors
    /\ stage \in [Actors -> {"idle", "raised", "reduce", "partition", "forward",
                             "restored", "refused", "failed", "done"}]
    /\ \A a \in Actors : \A st \in heap[a] : st \in [1 .. Parts(a) -> Sets]
    /\ order \in [Samples -> Samples]
    /\ count \in [Ranks -> 0 .. PerRank]
    /\ \A r \in Ranks :
          /\ \A j \in DOMAIN micro[r] : micro[r][j] \in Seq(1 .. PerRank)
          /\ \A j \in DOMAIN outputs[r] : outputs[r][j] \in Seq(Samples)
          /\ answers[r] \in Seq(Samples)

BatchInit ==
    /\ lens \in Batches
    /\ divisor \in Divisors
    /\ stage = [a \in Actors |-> "idle"]
    /\ heap = [a \in Actors |-> {}]
    /\ order = [s \in Samples |-> s]
    /\ count = [r \in Ranks |-> 0]
    /\ micro = [r \in Ranks |-> <<>>]
    /\ outputs = [r \in Ranks |-> <<>>]
    /\ answers = [r \in Ranks |-> <<>>]

------------------------------------------------------------------------------
(* karmarkar_karp *)

\* sorted_seqlen_list: the items by load and index.
Lighter(a) ==
    {p \in Items(a) \X Items(a) :
        \/ Load(a, p[1]) < Load(a, p[2])
        \/ Load(a, p[1]) = Load(a, p[2]) /\ p[1] < p[2]}
SortedItems(a) == Ranked(Cardinality(Items(a)), Lighter(a))

\* equal_size: every k items in that order make a State.
Group(a, k, g) ==
    [i \in 1 .. k |-> LET x == SortedItems(a)[g * k + i] IN Single(x, Load(a, x))]
EqualStates(a, k) ==
    LET groups == {Group(a, k, g) : g \in 0 .. (Cardinality(Items(a)) \div k) - 1}
    IN  {Sorted(group) : group \in groups}

\* Otherwise every item is a State of its own.
SingleStates(a, k) ==
    {[i \in 1 .. k |-> IF i = 1 THEN Single(x, Load(a, x)) ELSE EmptySet] : x \in Items(a)}

Merge(a) ==
    /\ stage[a] = "partition"
    /\ \E st \in heap[a] :
          /\ Pops(heap[a], st)
          /\ \E other \in heap[a] \ {st} :
                /\ Pops(heap[a] \ {st}, other)
                /\ heap' = [heap EXCEPT ![a] =
                       (@ \ {st, other}) \union {Sorted(MergeStates(st, other))}]
    /\ UNCHANGED <<lens, divisor, stage, order, count, micro, outputs, answers>>

\* get_partitions; the trainer sorts a partition by load, a rank by position.
Precedes(a, s) ==
    {p \in (DOMAIN s) \X (DOMAIN s) :
        IF a = 0 THEN <<s[p[1]], s[p[2]]>> \in Lighter(0) ELSE s[p[1]] < s[p[2]]}
Partitioned(a, st) ==
    [i \in DOMAIN st |-> Arranged(st[i].items, Precedes(a, st[i].items))]

\* The assertions on a partition of n items into k parts.
Partitions(parts, n, equalSize) ==
    /\ \A i \in DOMAIN parts : parts[i] # <<>>
    /\ UNION {ToSet(parts[i]) : i \in DOMAIN parts} = 1 .. n
    /\ equalSize => \A i \in DOMAIN parts : Len(parts[i]) * Len(parts) = n

\* s[::2] and s[1::2]
Evens(s) == [i \in 1 .. (Len(s) + 1) \div 2 |-> s[2 * i - 1]]
Odds(s) == [i \in 1 .. Len(s) \div 2 |-> s[2 * i]]

------------------------------------------------------------------------------
(* The trainer *)

Balance ==
    /\ stage[0] = "idle"
    /\ stage' = [stage EXCEPT ![0] = "partition"]
    /\ heap' = [heap EXCEPT ![0] = EqualStates(0, DP)]
    /\ UNCHANGED <<lens, divisor, order, count, micro, outputs, answers>>

\* Short samples at both ends of a share; the batch is reordered and dispatched.
Dispatch ==
    /\ stage[0] = "partition"
    /\ \E st \in heap[0] :
          /\ heap[0] = {st}
          /\ LET parts == Partitioned(0, st)
                 ends(part) == Evens(part) \o Reverse(Odds(part))
                 reordered == FlattenSeq([i \in 1 .. DP |-> ends(parts[i])])
             IN  IF Partitions(parts, DP * PerRank, TRUE)
                 THEN /\ order' = reordered
                      /\ stage' = [stage EXCEPT ![0] = "forward"]
                 ELSE /\ stage' = [stage EXCEPT ![0] = "failed"]
                      /\ UNCHANGED order
    /\ heap' = [heap EXCEPT ![0] = {}]
    /\ UNCHANGED <<lens, divisor, count, micro, outputs, answers>>

\* The outputs of all ranks, one share after the other.
Result == FlattenSeq(answers)

Collect ==
    /\ stage[0] = "forward"
    /\ \A r \in Ranks : stage[r] = "restored"
    /\ stage' = [stage EXCEPT ![0] = "done"]
    /\ UNCHANGED <<lens, divisor, heap, order, count, micro, outputs, answers>>

------------------------------------------------------------------------------
(* The ranks *)

CeilDiv(a, b) == (a + b - 1) \div b
RoundUp(a, b) == CeilDiv(a, b) * b
Smaller(a, b) == IF a < b THEN a ELSE b
Total(s) ==
    LET sum[i \in 0 .. Len(s)] == IF i = 0 THEN 0 ELSE sum[i - 1] + s[i]
    IN  sum[Len(s)]
Tokens(r) == Total([i \in 1 .. PerRank |-> lens[SampleOf(r, i)]])

\* A sample of the share fits no micro-batch: max_seq_len > max_token_len.
TooLong(r) == \E i \in 1 .. PerRank : lens[SampleOf(r, i)] > MaxTokenLen

\* An assertion on the rank's own samples, which it may fail alone; then the
\* number of micro-batches that its own tokens need.
Plan(r) ==
    /\ stage[0] = "forward" /\ stage[r] = "idle"
    /\ \/ /\ TooLong(r)
          /\ stage' = [stage EXCEPT ![r] = "raised"]
          /\ UNCHANGED count
       \/ /\ ~ TooLong(r)
          /\ stage' = [stage EXCEPT ![r] = "reduce"]
          /\ count' = [count EXCEPT ![r] =
                 Smaller(PerRank, CeilDiv(Tokens(r), MaxTokenLen))]
    /\ UNCHANGED <<lens, divisor, heap, order, micro, outputs, answers>>

Largest == CHOOSE n \in 0 .. PerRank :
               /\ \E r \in Ranks : count[r] = n
               /\ \A r \in Ranks : count[r] <= n

\* Mutant: every rank keeps its own number.
OwnNumber(r) == RoundUp(count[r], divisor)

NumMicroBatches(r) == RoundUp(Largest, divisor)

\* Mutant: any number is accepted.
AnyNumber(r) == NumMicroBatches(r) >= 1

EnoughSamples(r) == NumMicroBatches(r) <= PerRank

\* all_reduce(MAX), a collective: every rank is there.  Then each rounds up and
\* refuses to make more micro-batches than it has samples.
AllReduce ==
    /\ \A r \in Ranks : stage[r] = "reduce"
    /\ stage' = [a \in Actors |->
           IF a = 0 THEN stage[0] ELSE IF EnoughSamples(a) THEN "partition" ELSE "refused"]
    /\ count' = [r \in Ranks |-> IF EnoughSamples(r) THEN NumMicroBatches(r) ELSE count[r]]
    /\ heap' = [a \in Actors |->
           IF a # 0 /\ EnoughSamples(a) THEN SingleStates(a, NumMicroBatches(a)) ELSE heap[a]]
    /\ UNCHANGED <<lens, divisor, order, micro, outputs, answers>>

\* The micro-batches' order: by their workloads, then by their first sample.
Heavier(r, st, parts) ==
    LET load(i) == Total([m \in DOMAIN st[i].items |-> Load(r, st[i].items[m])])
    IN  {p \in (DOMAIN st) \X (DOMAIN st) :
            \/ load(p[1]) > load(p[2])
            \/ load(p[1]) = load(p[2]) /\ parts[p[1]][1] > parts[p[2]][1]}

\* The rest of rearrange_micro_batches: the heaviest micro-batch in the middle.
Arrange(r) ==
    /\ stage[r] = "partition"
    /\ \E st \in heap[r] :
          /\ heap[r] = {st}
          /\ LET parts == Partitioned(r, st)
                 sorted == Arranged(parts, Heavier(r, st, parts))
             IN  IF Partitions(parts, PerRank, FALSE)
                 THEN /\ micro' = [micro EXCEPT ![r] = Reverse(Evens(sorted)) \o Odds(sorted)]
                      /\ stage' = [stage EXCEPT ![r] = "forward"]
                 ELSE /\ stage' = [stage EXCEPT ![r] = "failed"]
                      /\ UNCHANGED micro
    /\ heap' = [heap EXCEPT ![r] = {}]
    /\ UNCHANGED <<lens, divisor, order, count, outputs, answers>>

\* Positions in the share in the order of the micro-batches.
Indices(r) == FlattenSeq(micro[r])

\* forward_step: the ranks gather each other's parameters for every
\* micro-batch, so all of them compute one or none does.
Forward ==
    /\ \A r \in Ranks : stage[r] = "forward" /\ Len(outputs[r]) < Len(micro[r])
    /\ outputs' = [r \in Ranks |->
           LET part == micro[r][Len(outputs[r]) + 1]
           IN  Append(outputs[r], [j \in DOMAIN part |-> SampleOf(r, part[j])])]
    /\ UNCHANGED <<lens, divisor, stage, heap, order, count, micro, answers>>

\* Mutant: the permutation of the micro-batches is applied again.
Applied(r) == Indices(r)

\* get_reverse_idx
ReverseIdx(r) == [i \in 1 .. PerRank |-> CHOOSE j \in 1 .. PerRank : Indices(r)[j] = i]

Restore(r) ==
    /\ stage[r] = "forward" /\ Len(outputs[r]) = Len(micro[r])
    /\ stage' = [stage EXCEPT ![r] = "restored"]
    /\ answers' = [answers EXCEPT ![r] =
           [i \in 1 .. PerRank |-> FlattenSeq(outputs[r])[ReverseIdx(r)[i]]]]
    /\ UNCHANGED <<lens, divisor, heap, order, count, micro, outputs>>

------------------------------------------------------------------------------
Trainer == Balance \/ Merge(0) \/ Dispatch \/ Collect
Rank(r) == Plan(r) \/ Merge(r) \/ Arrange(r) \/ Restore(r)
Together == AllReduce \/ Forward

BatchNext == Trainer \/ Together \/ \E r \in Ranks : Rank(r)

\* As long as a process or a collective that all ranks have entered can go on,
\* one of them does.
BatchFairness == WF_batchVars(BatchNext)

BatchSpec == BatchInit /\ [][BatchNext]_batchVars /\ BatchFairness

------------------------------------------------------------------------------
(* Properties *)

\* Throughout the differencing, the partitions of a State differ by no more
\* than the load of one item: so do the loads of the ranks, and those of the
\* micro-batches of a rank.
Balanced ==
    \A a \in Actors : \A st \in heap[a] : \A i, j \in 1 .. Parts(a) :
        \E x \in Items(a) : st[i].sum - st[j].sum <= Load(a, x)

\* The assertions on partitions hold: no rank and no micro-batch is left
\* without samples, and ranks have equally many.
NoneEmpty == \A a \in Actors : stage[a] # "failed"

\* Every sample's output comes back at the sample's place in the batch, and
\* the batch holds each sample once.
OutputsInPlace ==
    stage[0] = "done" =>
        /\ Result = order
        /\ \A s, t \in Samples : order[s] = order[t] => s = t

\* Every batch comes back, or every rank refuses it as more micro-batches are
\* needed than a rank has samples: no rank ends up computing alone.  A batch
\* with a sample that fits no micro-batch ends in an exception of its rank, for
\* which the ranks without one wait.
BatchEnds ==
    <>(IF \E s \in Samples : lens[s] > MaxTokenLen
       THEN \E r \in Ranks : stage[r] = "raised"
       ELSE stage[0] = "done" \/ \A r \in Ranks : stage[r] = "refused")

=============================================================================
