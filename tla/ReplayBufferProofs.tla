-------------------------- MODULE ReplayBufferProofs --------------------------
(***************************************************************************)
(* Theorems about ReplayBuffer for any numbers of prompts, sessions,       *)
(* batches and failures, and for both partitions.                          *)
(***************************************************************************)
EXTENDS ReplayBuffer, FiniteSetTheorems, TLAPS

(***************************************************************************)
(* What the trainer reads is old: the status of a prompt has come through  *)
(* a snapshot of the queue, taken before any number of puts.  The          *)
(* invariant relates the queue, the snapshot on its way, the buffer and    *)
(* the batch in hand.                                                      *)
(***************************************************************************)
\* Batch b has not been cleared; nothing of it is running any more.
Pending(b) == b > batch \/ (b = batch /\ stage \notin {"cleared", "over"})
Collected(b) == b < batch \/ (b = batch /\ stage \notin {"idle", "sampling"})

\* Every key belongs to a batch that has begun.
KeysInv ==
    /\ \A k \in Outputs : session[k] # "none" =>
          BatchOf(k[1]) < batch \/ (BatchOf(k[1]) = batch /\ stage # "idle")
    /\ \A k \in stored \union listed \union holding : BatchOfKey(k) <= batch
    /\ snapshot # <<>> => \A k \in snapshot.keys : BatchOfKey(k) <= batch

\* What is known of a prompt's end is true.
EndsInv ==
    /\ \A p \in Prompts : ended[p] = "finished" =>
          \A s \in Sessions : session[<<p, s>>] \in {"put", "empty"}
    /\ \A k \in stored \intersect Outputs : session[k] = "put"
    /\ \A p \in Prompts : status[p] \in Ends => status[p] = ended[p]
    /\ snapshot # <<>> =>
          \A p \in Prompts : snapshot.ended[p] \in Ends => snapshot.ended[p] = ended[p]
    /\ \A p \in Prompts :
          BatchOf(p) = batch /\ stage # "idle" => status[p] # "none"
    /\ \A p \in Prompts : Collected(BatchOf(p)) => status[p] \in Ends

\* The outputs of a finished prompt go along with the news of its end.
WholeInv ==
    \A p \in Prompts : Pending(BatchOf(p)) =>
        \A s \in Sessions :
            /\ session[<<p, s>>] = "put" => <<p, s>> \in stored
            /\ snapshot # <<>> =>
                  (snapshot.ended[p] = "finished" /\ session[<<p, s>>] # "empty" =>
                      <<p, s>> \in snapshot.keys)
            /\ status[p] = "finished" /\ session[<<p, s>>] # "empty" => <<p, s>> \in listed

\* No padding of a batch that has not been padded, and none that is not held.
PaddingInv ==
    \A k \in Keys \ Outputs :
        BatchOfKey(k) = batch /\ k \in stored =>
            stage \in {"using"} /\ k \in holding

\* What is left of a batch that is not pending came after a failure.
LeftInv ==
    \A k \in stored : ~Pending(BatchOfKey(k)) => k \in Outputs /\ ended[k[1]] = "failure"

IInv ==
    /\ TypeOK /\ KeysInv /\ EndsInv /\ WholeInv /\ PaddingInv
    /\ FinishedIsWhole /\ LeftInv
-----------------------------------------------------------------------------
LEMMA Positive ==
  /\ BatchSize \in Nat \ {0} /\ N \in Nat \ {0} /\ Batches \in Nat \ {0}
  /\ Multiple \in Nat \ {0}
BY SizesAssumption

\* Division by a positive number, which need not be a numeral.
LEMMA Quotient ==
  ASSUME NEW a \in Nat, NEW d \in Nat, d > 0, NEW n \in Nat, a < d * n
  PROVE  a \div d \in Nat /\ a \div d < n
<1>1. a \div d \in Nat
  OBVIOUS
<1>2. a \div d < n
  OBVIOUS
<1> QED
  BY <1>1, <1>2

LEMMA Remainders ==
  ASSUME NEW d \in Nat, d > 0, NEW q \in Nat, NEW r \in 0 .. d - 1, NEW a \in Nat,
         a = d * q + r
  PROVE  a % d = r
OBVIOUS

\* Filling up to the next multiple.
LEMMA FilledUp ==
  ASSUME NEW a \in Nat, NEW d \in Nat, d > 0
  PROVE  /\ a % d \in 0 .. d - 1
         /\ (a + (d - (a % d))) % d = 0
<1>1. PICK q \in Nat : d * q <= a /\ a < d * (q + 1)
  <2>1. a \div d \in Nat
    OBVIOUS
  <2>2. d * (a \div d) <= a /\ a < d * (a \div d + 1)
    OBVIOUS
  <2> QED
    BY <2>1, <2>2
<1>2. PICK r \in 0 .. d - 1 : a = d * q + r
  BY <1>1
<1>3. a % d = r
  BY <1>2, Remainders
<1>4. a + (d - r) = d * (q + 1) + 0
  BY <1>2
<1>5. (a + (d - r)) % d = 0
  <2>1. q + 1 \in Nat /\ a + (d - r) \in Nat /\ 0 \in 0 .. d - 1
    OBVIOUS
  <2> QED
    BY <2>1, <1>4, Remainders
<1> QED
  BY <1>3, <1>5

\* An output belongs to its prompt's batch, padding to the batch it completes.
LEMMA KeyFacts ==
  /\ Outputs \subseteq Keys
  /\ \A k \in Outputs : k[1] \in Prompts /\ k[2] \in Sessions /\ k = <<k[1], k[2]>>
  /\ \A p \in Prompts, s \in Sessions : <<p, s>> \in Outputs
  /\ \A p \in Prompts : BatchOf(p) \in 1 .. Batches
  /\ \A k \in Outputs : BatchOfKey(k) = BatchOf(k[1])
  /\ \A b \in 1 .. Batches : \A k \in Padding(b) : k \in Keys \ Outputs /\ BatchOfKey(k) = b
  /\ \A k \in Keys : BatchOfKey(k) \in Int
<1>1. ASSUME NEW p \in Prompts
      PROVE  p \in Int /\ p >= 1 /\ BatchOf(p) \in 1 .. Batches
  <2>1. p - 1 \in Nat /\ p - 1 < BatchSize * Batches
    BY Positive DEF Prompts
  <2>2. (p - 1) \div BatchSize \in Nat /\ (p - 1) \div BatchSize < Batches
    BY <2>1, Positive, Quotient
  <2>3. BatchOf(p) \in 1 .. Batches
    BY <2>2, Positive DEF BatchOf
  <2> QED
    BY <2>3 DEF Prompts
<1>2. \A b \in 1 .. Batches : \A k \in Padding(b) : k[1] = -b /\ BatchOfKey(k) = b /\ k \in Keys
  BY Positive DEF Padding, BatchOfKey, Keys
<1>3. \A k \in Outputs : k[1] \in Prompts /\ k[2] \in Sessions /\ k = <<k[1], k[2]>>
  BY DEF Outputs
<1>4. \A k \in Outputs : BatchOfKey(k) = BatchOf(k[1])
  BY <1>1, <1>3 DEF BatchOfKey
<1>5. \A b \in 1 .. Batches : \A k \in Padding(b) : k \notin Outputs
  BY <1>1, <1>2, <1>3
<1>6. \A k \in Keys : k \in Outputs \/ \E b \in 1 .. Batches : k \in Padding(b)
  BY DEF Keys
<1>7. \A k \in Keys : BatchOfKey(k) \in Int
  BY <1>1, <1>2, <1>3, <1>4, <1>6
<1>8. Outputs \subseteq Keys /\ \A p \in Prompts, s \in Sessions : <<p, s>> \in Outputs
  BY DEF Keys, Outputs
<1> QED
  BY <1>1, <1>2, <1>3, <1>4, <1>5, <1>7, <1>8


LEMMA KeysFinite ==
  /\ IsFiniteSet(Keys)
  /\ \A S \in SUBSET Keys : IsFiniteSet(S) /\ Cardinality(S) \in Nat
<1>1. IsFiniteSet(Outputs)
  <2>1. BatchSize * Batches \in Int
    BY Positive
  <2>2. IsFiniteSet(Prompts) /\ IsFiniteSet(Sessions)
    BY <2>1, Positive, FS_Interval DEF Prompts, Sessions
  <2> QED
    BY <2>2, FS_Product DEF Outputs
<1>2. IsFiniteSet(UNION {Padding(b) : b \in 1 .. Batches})
  <2> DEFINE box == ((-Batches) .. -1) \X (1 .. Multiple - 1)
  <2>1. -Batches \in Int /\ -1 \in Int /\ Multiple - 1 \in Int
    BY Positive
  <2>2. IsFiniteSet((-Batches) .. -1) /\ IsFiniteSet(1 .. Multiple - 1)
    BY <2>1, FS_Interval
  <2>3. IsFiniteSet(box)
    BY <2>2, FS_Product
  <2>4. UNION {Padding(b) : b \in 1 .. Batches} \in SUBSET box
    BY Positive DEF Padding
  <2> QED
    BY <2>3, <2>4, FS_Subset
<1>3. IsFiniteSet(Keys)
  BY <1>1, <1>2, FS_Union DEF Keys
<1> QED
  BY <1>3, FS_Subset, FS_CardinalityType

\* The padding of the current batch: its keys, their batch, and how many.
LEMMA PadsFacts ==
  ASSUME TypeOK
  PROVE  /\ Pads \subseteq Padding(batch)
         /\ Pads \subseteq Keys \ Outputs
         /\ \A k \in Pads : BatchOfKey(k) = batch
         /\ Remainder \in 0 .. Multiple - 1
<1>1. Cardinality(holding) \in Nat /\ batch \in 1 .. Batches
  BY KeysFinite DEF TypeOK
<1>2. Remainder \in 0 .. Multiple - 1
  BY <1>1, Positive, FilledUp DEF Remainder
<1>3. Pads \subseteq Padding(batch)
  BY <1>2, Positive DEF Pads, Padding
<1> QED
  BY <1>1, <1>2, <1>3, KeyFacts
-----------------------------------------------------------------------------
LEMMA Initially == Init => IInv
<1> SUFFICES ASSUME Init PROVE IInv
  OBVIOUS
<1>1. TypeOK
  BY Positive DEF Init, TypeOK, Ends
<1>2. KeysInv /\ PaddingInv
  BY DEF Init, KeysInv, PaddingInv
<1>3. EndsInv
  <2>1. \A p \in Prompts : ~Collected(BatchOf(p))
    BY KeyFacts DEF Init, Collected
  <2> QED
    BY <2>1 DEF Init, EndsInv, Ends
<1>4. WholeInv
  BY KeyFacts DEF Init, WholeInv
<1>5. FinishedIsWhole /\ LeftInv
  BY DEF Init, FinishedIsWhole, LeftInv
<1> QED
  BY <1>1, <1>2, <1>3, <1>4, <1>5 DEF IInv
-----------------------------------------------------------------------------
\* Nothing of a batch is known when it begins.
LEMMA GenerateKeeps ==
  ASSUME IInv, Generate
  PROVE  IInv'
<1>1. TypeOK'
  BY KeyFacts DEF IInv, TypeOK, Ends, Generate
<1>2. KeysInv'
  BY KeyFacts DEF IInv, TypeOK, KeysInv, Generate
<1>3. EndsInv'
  <2>1. /\ stage = "idle" /\ stage' = "sampling" /\ UNCHANGED <<batch, ended, stored, snapshot>>
        /\ \A p \in Prompts : status'[p] = IF BatchOf(p) = batch THEN "running" ELSE status[p]
    BY DEF Generate
  <2>2. \A p \in Prompts : BatchOf(p) = batch => ended[p] = "none" \/ ended[p] \in Ends
    BY DEF IInv, TypeOK
  <2>3. \A p \in Prompts : Collected(BatchOf(p))' => Collected(BatchOf(p)) /\ BatchOf(p) # batch
    BY <2>1, KeyFacts DEF Collected, IInv, TypeOK
  <2>4. /\ \A p \in Prompts : ended[p] = "finished" =>
              \A s \in Sessions : session'[<<p, s>>] \in {"put", "empty"}
        /\ \A k \in stored \intersect Outputs : session'[k] = "put"
    BY KeyFacts, SMTT(30) DEF Generate, IInv, TypeOK, KeysInv, EndsInv
  <2>5. "running" \notin Ends
    BY DEF Ends
  <2> QED
    BY <2>1, <2>3, <2>4, <2>5 DEF IInv, EndsInv
<1>4. WholeInv'
  BY KeyFacts DEF IInv, TypeOK, KeysInv, WholeInv, EndsInv, Pending, Ends, Generate
<1>5. PaddingInv'
  BY KeyFacts DEF IInv, TypeOK, KeysInv, PaddingInv, Generate
<1>6. FinishedIsWhole'
  BY KeyFacts DEF IInv, TypeOK, FinishedIsWhole, EndsInv, Collected, Pending, WholeInv, Ends, Generate
<1>7. LeftInv'
  BY KeyFacts DEF IInv, TypeOK, KeysInv, EndsInv, Collected, Pending, LeftInv, Ends, Generate
<1> QED
  BY <1>1, <1>2, <1>3, <1>4, <1>5, <1>6, <1>7 DEF IInv

\* Nothing of the batch is running: every prompt of it has ended, and those that
\* finished are listed whole.
LEMMA SampleKeeps ==
  ASSUME IInv, Sample
  PROVE  IInv'
<1>1. TypeOK'
  BY KeyFacts DEF IInv, TypeOK, Ends, Sample, Waiting, workers, buffer
<1>2. KeysInv'
  BY KeyFacts DEF IInv, TypeOK, KeysInv, Sample, Waiting, workers, buffer
<1>3. EndsInv'
  BY KeyFacts DEF IInv, TypeOK, EndsInv, Collected, Ends, Sample, Waiting, workers, buffer
<1>4. WholeInv'
  BY KeyFacts DEF IInv, TypeOK, KeysInv, WholeInv, EndsInv, Pending, Ends, Sample, Waiting, workers, buffer
<1>5. PaddingInv'
  BY KeyFacts DEF IInv, TypeOK, KeysInv, PaddingInv, Sample, Waiting, workers, buffer
<1>6. FinishedIsWhole'
  BY KeyFacts DEF IInv, TypeOK, FinishedIsWhole, EndsInv, Collected, Pending, WholeInv, Ends, Sample, Waiting, workers, buffer
<1>7. LeftInv'
  BY KeyFacts DEF IInv, TypeOK, KeysInv, EndsInv, Collected, Pending, LeftInv, Ends, Sample, Waiting, workers, buffer
<1> QED
  BY <1>1, <1>2, <1>3, <1>4, <1>5, <1>6, <1>7 DEF IInv

\* The padding is stored and held at once.
LEMMA BalanceKeeps ==
  ASSUME IInv, Balance
  PROVE  IInv'
<1>1. TypeOK'
  BY KeyFacts, PadsFacts DEF IInv, TypeOK, Ends, Balance, buffer
<1>2. KeysInv'
  BY KeyFacts, PadsFacts DEF IInv, TypeOK, KeysInv, Balance, buffer
<1>3. EndsInv'
  BY KeyFacts, PadsFacts DEF IInv, TypeOK, EndsInv, Collected, Ends, Balance, buffer
<1>4. WholeInv'
  BY KeyFacts, PadsFacts DEF IInv, TypeOK, KeysInv, WholeInv, EndsInv, Pending, Ends, Balance, buffer
<1>5. PaddingInv'
  BY KeyFacts, PadsFacts DEF IInv, TypeOK, KeysInv, PaddingInv, Balance, buffer
<1>6. FinishedIsWhole'
  BY KeyFacts, PadsFacts DEF IInv, TypeOK, FinishedIsWhole, EndsInv, Collected, Pending, WholeInv, Ends, Balance, buffer
<1>7. LeftInv'
  BY KeyFacts, PadsFacts DEF IInv, TypeOK, KeysInv, EndsInv, Collected, Pending, LeftInv, Ends, Balance, buffer
<1> QED
  BY <1>1, <1>2, <1>3, <1>4, <1>5, <1>6, <1>7 DEF IInv

\* What is not held came after a failure of its prompt.
LEMMA ClearKeeps ==
  ASSUME IInv, Clear
  PROVE  IInv'
<1>1. TypeOK'
  BY KeyFacts DEF IInv, TypeOK, Ends, Clear, buffer
<1>2. KeysInv'
  BY KeyFacts DEF IInv, TypeOK, KeysInv, Clear, buffer
<1>3. EndsInv'
  BY KeyFacts DEF IInv, TypeOK, EndsInv, Collected, Ends, Clear, buffer
<1>4. WholeInv'
  BY KeyFacts DEF IInv, TypeOK, KeysInv, WholeInv, EndsInv, Pending, Ends, Clear, buffer
<1>5. PaddingInv'
  BY KeyFacts DEF IInv, TypeOK, KeysInv, PaddingInv, Clear, buffer
<1>6. FinishedIsWhole'
  BY KeyFacts DEF IInv, TypeOK, FinishedIsWhole, EndsInv, Collected, Pending, WholeInv, Ends, Clear, buffer
<1>7. LeftInv'
  <2> SUFFICES ASSUME NEW k \in stored \ holding, ~Pending(BatchOfKey(k))'
               PROVE  k \in Outputs /\ ended[k[1]] = "failure"
    BY DEF Clear, LeftInv
  <2>1. k \in Keys /\ BatchOfKey(k) \in Int /\ batch \in Int /\ stage = "using" /\ batch' = batch
    BY KeyFacts DEF IInv, TypeOK, Clear
  <2>2. CASE BatchOfKey(k) < batch
    BY <2>1, <2>2 DEF IInv, LeftInv, Pending
  <2>3. CASE BatchOfKey(k) = batch
    <3>1. k \in Outputs
      BY <2>1, <2>3 DEF IInv, PaddingInv
    <3>2. k[1] \in Prompts /\ k[2] \in Sessions /\ k = <<k[1], k[2]>> /\ BatchOf(k[1]) = batch
      BY <2>3, <3>1, KeyFacts
    <3>3. status[k[1]] \in Ends /\ status[k[1]] = ended[k[1]]
      BY <2>1, <3>2 DEF IInv, EndsInv, Collected
    <3>4. status[k[1]] # "finished"
      BY <2>1, <3>1, <3>2 DEF IInv, FinishedIsWhole, EndsInv
    <3> QED
      BY <3>1, <3>3, <3>4 DEF Ends
  <2> QED
    BY <2>1, <2>2, <2>3 DEF IInv, KeysInv
<1> QED
  BY <1>1, <1>2, <1>3, <1>4, <1>5, <1>6, <1>7 DEF IInv

\* The batch is over; nothing of the next has begun.
LEMMA RemoveKeeps ==
  ASSUME IInv, Remove
  PROVE  IInv'
<1>1. TypeOK'
  <2>1. CASE batch = Batches
    BY <2>1 DEF IInv, TypeOK, Remove, workers
  <2>2. CASE batch # Batches
    <3>1. batch' \in 1 .. Batches /\ stage' = "idle"
      BY <2>2, Positive DEF IInv, TypeOK, Remove
    <3> QED
      BY <3>1 DEF IInv, TypeOK, Remove, workers
  <2> QED
    BY <2>1, <2>2
<1>2. KeysInv'
  BY KeyFacts DEF IInv, TypeOK, KeysInv, Remove, workers
<1>3. EndsInv'
  BY KeyFacts DEF IInv, TypeOK, EndsInv, Collected, Ends, Remove, workers
<1>4. WholeInv'
  BY KeyFacts DEF IInv, TypeOK, KeysInv, WholeInv, EndsInv, Pending, Ends, Remove, workers
<1>5. PaddingInv'
  BY KeyFacts DEF IInv, TypeOK, KeysInv, PaddingInv, Remove, workers
<1>6. FinishedIsWhole'
  BY KeyFacts DEF IInv, TypeOK, FinishedIsWhole, EndsInv, Collected, Pending, WholeInv, Ends, Remove, workers
<1>7. LeftInv'
  BY KeyFacts DEF IInv, TypeOK, KeysInv, EndsInv, Collected, Pending, LeftInv, Ends, Remove, workers
<1> QED
  BY <1>1, <1>2, <1>3, <1>4, <1>5, <1>6, <1>7 DEF IInv

\* A late output belongs to a prompt that failed.
LEMMA PutOutputsKeeps ==
  ASSUME IInv, NEW k \in Outputs, PutOutputs(k)
  PROVE  IInv'
<1>1. TypeOK'
  BY KeyFacts DEF IInv, TypeOK, Ends, PutOutputs, trainer, buffer
<1>2. KeysInv'
  BY KeyFacts DEF IInv, TypeOK, KeysInv, PutOutputs, trainer, buffer
<1>3. EndsInv'
  BY KeyFacts DEF IInv, TypeOK, EndsInv, Collected, Ends, PutOutputs, trainer, buffer
<1>4. WholeInv'
  BY KeyFacts DEF IInv, TypeOK, KeysInv, WholeInv, EndsInv, Pending, Ends, PutOutputs, trainer, buffer
<1>5. PaddingInv'
  BY KeyFacts DEF IInv, TypeOK, KeysInv, PaddingInv, PutOutputs, trainer, buffer
<1>6. FinishedIsWhole'
  BY KeyFacts DEF IInv, TypeOK, FinishedIsWhole, EndsInv, Collected, Pending, WholeInv, Ends, PutOutputs, trainer, buffer
<1>7. LeftInv'
  <2>1. stored' = stored \union {k} /\ session[k] = "running" /\ UNCHANGED <<batch, stage, ended>>
    BY DEF PutOutputs, trainer
  <2>2. ASSUME ~Pending(BatchOfKey(k)) PROVE ended[k[1]] = "failure"
    <3>1. k[1] \in Prompts /\ k[2] \in Sessions /\ k = <<k[1], k[2]>> /\ BatchOfKey(k) = BatchOf(k[1])
      BY KeyFacts
    <3>2. Collected(BatchOf(k[1]))
      BY <2>2, <3>1, KeyFacts DEF Pending, Collected, IInv, TypeOK
    <3>3. status[k[1]] \in Ends /\ status[k[1]] = ended[k[1]]
      BY <3>1, <3>2 DEF IInv, EndsInv
    <3>4. ended[k[1]] # "finished"
      BY <2>1, <3>1 DEF IInv, EndsInv
    <3> QED
      BY <3>3, <3>4 DEF Ends
  <2> QED
    BY <2>1, <2>2 DEF IInv, LeftInv, Pending
<1> QED
  BY <1>1, <1>2, <1>3, <1>4, <1>5, <1>6, <1>7 DEF IInv

\* An agent loop without output puts nothing.
LEMMA PutNothingKeeps ==
  ASSUME IInv, NEW k \in Outputs, PutNothing(k)
  PROVE  IInv'
<1>1. TypeOK'
  BY KeyFacts DEF IInv, TypeOK, Ends, PutNothing, trainer, buffer
<1>2. KeysInv'
  BY KeyFacts DEF IInv, TypeOK, KeysInv, PutNothing, trainer, buffer
<1>3. EndsInv'
  BY KeyFacts DEF IInv, TypeOK, EndsInv, Collected, Ends, PutNothing, trainer, buffer
<1>4. WholeInv'
  BY KeyFacts DEF IInv, TypeOK, KeysInv, WholeInv, EndsInv, Pending, Ends, PutNothing, trainer, buffer
<1>5. PaddingInv'
  BY KeyFacts DEF IInv, TypeOK, KeysInv, PaddingInv, PutNothing, trainer, buffer
<1>6. FinishedIsWhole'
  BY KeyFacts DEF IInv, TypeOK, FinishedIsWhole, EndsInv, Collected, Pending, WholeInv, Ends, PutNothing, trainer, buffer
<1>7. LeftInv'
  BY KeyFacts DEF IInv, TypeOK, KeysInv, EndsInv, Collected, Pending, LeftInv, Ends, PutNothing, trainer, buffer
<1> QED
  BY <1>1, <1>2, <1>3, <1>4, <1>5, <1>6, <1>7 DEF IInv

\* An agent loop that raises puts nothing.
LEMMA RaiseKeeps ==
  ASSUME IInv, NEW k \in Outputs, Raise(k)
  PROVE  IInv'
<1>1. TypeOK'
  BY KeyFacts DEF IInv, TypeOK, Ends, Raise, trainer, buffer
<1>2. KeysInv'
  BY KeyFacts DEF IInv, TypeOK, KeysInv, Raise, trainer, buffer
<1>3. EndsInv'
  BY KeyFacts DEF IInv, TypeOK, EndsInv, Collected, Ends, Raise, trainer, buffer
<1>4. WholeInv'
  BY KeyFacts DEF IInv, TypeOK, KeysInv, WholeInv, EndsInv, Pending, Ends, Raise, trainer, buffer
<1>5. PaddingInv'
  BY KeyFacts DEF IInv, TypeOK, KeysInv, PaddingInv, Raise, trainer, buffer
<1>6. FinishedIsWhole'
  BY KeyFacts DEF IInv, TypeOK, FinishedIsWhole, EndsInv, Collected, Pending, WholeInv, Ends, Raise, trainer, buffer
<1>7. LeftInv'
  BY KeyFacts DEF IInv, TypeOK, KeysInv, EndsInv, Collected, Pending, LeftInv, Ends, Raise, trainer, buffer
<1> QED
  BY <1>1, <1>2, <1>3, <1>4, <1>5, <1>6, <1>7 DEF IInv

\* A prompt that finishes has put all outputs.
LEMMA FinishPromptKeeps ==
  ASSUME IInv, NEW p \in Prompts, FinishPrompt(p)
  PROVE  IInv'
<1>1. TypeOK'
  BY KeyFacts DEF IInv, TypeOK, Ends, FinishPrompt, trainer, buffer
<1>2. KeysInv'
  BY KeyFacts DEF IInv, TypeOK, KeysInv, FinishPrompt, trainer, buffer
<1>3. EndsInv'
  BY KeyFacts DEF IInv, TypeOK, EndsInv, Collected, Ends, FinishPrompt, trainer, buffer
<1>4. WholeInv'
  BY KeyFacts DEF IInv, TypeOK, KeysInv, WholeInv, EndsInv, Pending, Ends, FinishPrompt, trainer, buffer
<1>5. PaddingInv'
  BY KeyFacts DEF IInv, TypeOK, KeysInv, PaddingInv, FinishPrompt, trainer, buffer
<1>6. FinishedIsWhole'
  BY KeyFacts DEF IInv, TypeOK, FinishedIsWhole, EndsInv, Collected, Pending, WholeInv, Ends, FinishPrompt, trainer, buffer
<1>7. LeftInv'
  BY KeyFacts DEF IInv, TypeOK, KeysInv, EndsInv, Collected, Pending, LeftInv, Ends, FinishPrompt, trainer, buffer
<1> QED
  BY <1>1, <1>2, <1>3, <1>4, <1>5, <1>6, <1>7 DEF IInv

\* So may those of one that fails.
LEMMA FailPromptKeeps ==
  ASSUME IInv, NEW p \in Prompts, FailPrompt(p)
  PROVE  IInv'
<1>1. TypeOK'
  BY KeyFacts DEF IInv, TypeOK, Ends, FailPrompt, trainer, buffer
<1>2. KeysInv'
  BY KeyFacts DEF IInv, TypeOK, KeysInv, FailPrompt, trainer, buffer
<1>3. EndsInv'
  BY KeyFacts DEF IInv, TypeOK, EndsInv, Collected, Ends, FailPrompt, trainer, buffer
<1>4. WholeInv'
  BY KeyFacts DEF IInv, TypeOK, KeysInv, WholeInv, EndsInv, Pending, Ends, FailPrompt, trainer, buffer
<1>5. PaddingInv'
  BY KeyFacts DEF IInv, TypeOK, KeysInv, PaddingInv, FailPrompt, trainer, buffer
<1>6. FinishedIsWhole'
  BY KeyFacts DEF IInv, TypeOK, FinishedIsWhole, EndsInv, Collected, Pending, WholeInv, Ends, FailPrompt, trainer, buffer
<1>7. LeftInv'
  BY KeyFacts DEF IInv, TypeOK, KeysInv, EndsInv, Collected, Pending, LeftInv, Ends, FailPrompt, trainer, buffer
<1> QED
  BY <1>1, <1>2, <1>3, <1>4, <1>5, <1>6, <1>7 DEF IInv

\* A snapshot is true when it is taken.
LEMMA ListKeeps ==
  ASSUME IInv, List
  PROVE  IInv'
<1>1. TypeOK'
  BY KeyFacts DEF IInv, TypeOK, Ends, List, trainer, workers, buffer
<1>2. KeysInv'
  BY KeyFacts DEF IInv, TypeOK, KeysInv, List, trainer, workers, buffer
<1>3. EndsInv'
  BY KeyFacts DEF IInv, TypeOK, EndsInv, Collected, Ends, List, trainer, workers, buffer
<1>4. WholeInv'
  BY KeyFacts DEF IInv, TypeOK, KeysInv, WholeInv, EndsInv, Pending, Ends, List, trainer, workers, buffer
<1>5. PaddingInv'
  BY KeyFacts DEF IInv, TypeOK, KeysInv, PaddingInv, List, trainer, workers, buffer
<1>6. FinishedIsWhole'
  BY KeyFacts DEF IInv, TypeOK, FinishedIsWhole, EndsInv, Collected, Pending, WholeInv, Ends, List, trainer, workers, buffer
<1>7. LeftInv'
  BY KeyFacts DEF IInv, TypeOK, KeysInv, EndsInv, Collected, Pending, LeftInv, Ends, List, trainer, workers, buffer
<1> QED
  BY <1>1, <1>2, <1>3, <1>4, <1>5, <1>6, <1>7 DEF IInv

\* What a snapshot says has not become untrue.
LEMMA AddKeeps ==
  ASSUME IInv, Add
  PROVE  IInv'
<1>1. TypeOK'
  BY KeyFacts DEF IInv, TypeOK, Ends, Add, trainer, workers
<1>2. KeysInv'
  BY KeyFacts DEF IInv, TypeOK, KeysInv, Add, trainer, workers
<1>3. EndsInv'
  BY KeyFacts DEF IInv, TypeOK, EndsInv, Collected, Ends, Add, trainer, workers
<1>4. WholeInv'
  BY KeyFacts DEF IInv, TypeOK, KeysInv, WholeInv, EndsInv, Pending, Ends, Add, trainer, workers
<1>5. PaddingInv'
  BY KeyFacts DEF IInv, TypeOK, KeysInv, PaddingInv, Add, trainer, workers
<1>6. FinishedIsWhole'
  BY KeyFacts DEF IInv, TypeOK, FinishedIsWhole, EndsInv, Collected, Pending, WholeInv, Ends, Add, trainer, workers
<1>7. LeftInv'
  BY KeyFacts DEF IInv, TypeOK, KeysInv, EndsInv, Collected, Pending, LeftInv, Ends, Add, trainer, workers
<1> QED
  BY <1>1, <1>2, <1>3, <1>4, <1>5, <1>6, <1>7 DEF IInv
-----------------------------------------------------------------------------
LEMMA Inductive == IInv /\ [Next]_vars => IInv'
<1> SUFFICES ASSUME IInv, [Next]_vars PROVE IInv'
  OBVIOUS
<1>1. CASE UNCHANGED vars
  BY <1>1 DEF vars, trainer, workers, buffer, IInv, TypeOK, KeysInv, EndsInv, WholeInv,
              PaddingInv, FinishedIsWhole, LeftInv, Pending, Collected
<1>2. CASE Train
  BY <1>2, GenerateKeeps, SampleKeeps, BalanceKeeps, ClearKeeps, RemoveKeeps DEF Train
<1>3. ASSUME NEW k \in Outputs, Session(k) PROVE IInv'
  BY <1>3, PutOutputsKeeps, PutNothingKeeps, RaiseKeeps DEF Session
<1>4. ASSUME NEW p \in Prompts, Prompt(p) PROVE IInv'
  BY <1>4, FinishPromptKeeps, FailPromptKeeps DEF Prompt
<1>5. CASE Poll
  BY <1>5, ListKeeps, AddKeeps DEF Poll
<1> QED
  BY <1>1, <1>2, <1>3, <1>4, <1>5 DEF Next

\* The inductive invariant holds in every reachable state.
THEOREM Invariance == Spec => []IInv
BY Initially, Inductive, PTL DEF Spec

\* Every variable keeps its type: no key, status or snapshot is of another kind.
THEOREM TypeCorrect == Spec => []TypeOK
BY Invariance, PTL DEF IInv

(***************************************************************************)
(* A batch that is sampled has every session of every prompt of it that    *)
(* finished, but those without an output, however old the snapshots were:  *)
(* FinishedIsWhole.                                                        *)
(***************************************************************************)
THEOREM WholePrompts == Spec => []FinishedIsWhole
BY Invariance, PTL DEF IInv

(***************************************************************************)
(* Only late outputs of failed prompts stay in the queue:                  *)
(* LeftoversOfFailures.                                                    *)
(***************************************************************************)
THEOREM OnlyFailuresLeave == Spec => []LeftoversOfFailures
<1>1. ASSUME IInv PROVE LeftoversOfFailures
  <2> SUFFICES ASSUME NEW k \in stored, BatchOfKey(k) < batch \/ stage = "over"
               PROVE  k \in Outputs /\ ended[k[1]] = "failure"
    BY DEF LeftoversOfFailures
  <2>1. BatchOfKey(k) \in Int /\ batch \in Int /\ BatchOfKey(k) <= batch
    BY <1>1, KeyFacts DEF IInv, TypeOK, KeysInv
  <2>2. ~Pending(BatchOfKey(k))
    BY <2>1 DEF Pending
  <2> QED
    BY <1>1, <2>2 DEF IInv, LeftInv
<1> QED
  BY <1>1, Invariance, PTL
-----------------------------------------------------------------------------
(***************************************************************************)
(* Training batches have labels of their own.  What the buffer lists of a  *)
(* pending batch is still in the queue: only the batch in hand is cleared. *)
(***************************************************************************)
ListedInv ==
    \A k \in Keys : Pending(BatchOfKey(k)) /\ k \notin stored =>
        k \notin listed /\ (snapshot # <<>> => k \notin snapshot.keys)

OwnInv == ListedInv /\ OwnAndPresent

LEMMA OwnLabel == Partition = "train" => \A b \in Int : Label(b) = b
BY DEF Label

\* Padding makes the batch divide evenly.
LEMMA PadsFill ==
  ASSUME TypeOK, holding \intersect Pads = {}
  PROVE  Cardinality(holding \union Pads) % Multiple = 0
<1> DEFINE n == Cardinality(holding)
<1>1. IsFiniteSet(holding) /\ n \in Nat /\ n % Multiple \in 0 .. Multiple - 1
  BY KeysFinite, Positive, FilledUp DEF TypeOK
<1>2. CASE n % Multiple = 0
  BY <1>2 DEF Pads, Remainder
<1>3. CASE n % Multiple # 0
  <2> DEFINE m == Multiple - (n % Multiple)
             f == [i \in 1 .. m |-> <<-batch, i>>]
  <2>1. m \in Nat
    BY <1>1, Positive
  <2>2. Pads = {<<-batch, i>> : i \in 1 .. m}
    <3>1. Remainder # 0 /\ m = Multiple - Remainder
      BY <1>1, <1>3, Positive DEF Remainder
    <3> QED
      BY <3>1 DEF Pads
  <2>3. f \in Bijection(1 .. m, Pads)
    BY <2>2 DEF Bijection, Injection, Surjection, IsInjective
  <2>4. IsFiniteSet(1 .. m) /\ Cardinality(1 .. m) = m
    BY <2>1, FS_Interval
  <2>5. IsFiniteSet(Pads) /\ Cardinality(Pads) = m
    BY <2>3, <2>4, FS_Bijection DEF ExistsBijection
  <2>6. Cardinality(holding \union Pads) = n + m
    <3>1. Cardinality(holding \intersect Pads) = 0
      BY FS_EmptySet
    <3>2. Cardinality(holding \union Pads) = n + m - Cardinality(holding \intersect Pads)
      <4> HIDE DEF m
      <4> QED
        BY <1>1, <2>5, FS_Union
    <3> QED
      BY <1>1, <2>1, <3>1, <3>2
  <2>7. (n + m) % Multiple = 0
    <3> HIDE DEF n
    <3>1. Multiple \in Nat /\ Multiple > 0
      BY Positive
    <3>2. (n + (Multiple - (n % Multiple))) % Multiple = 0
      BY <1>1, <3>1, FilledUp
    <3> QED
      BY <3>2
  <2> QED
    BY <2>6, <2>7
<1> QED
  BY <1>2, <1>3

LEMMA OwnStep == Partition = "train" /\ IInv /\ OwnInv /\ [Next]_vars => OwnInv'
<1> SUFFICES ASSUME Partition = "train", IInv, OwnInv, [Next]_vars PROVE OwnInv'
  OBVIOUS
<1> USE DEF OwnInv
<1>1. CASE UNCHANGED vars
  BY <1>1 DEF vars, trainer, workers, buffer, ListedInv, Pending, OwnAndPresent, Remainder
<1>2. CASE Generate
  BY <1>2, KeyFacts DEF Generate, IInv, TypeOK, ListedInv, Pending, OwnAndPresent
<1>3. CASE Sample
  <2>1. ListedInv'
    BY <1>3 DEF Sample, workers, buffer, ListedInv, Pending
  <2>2. \A k \in holding' : k \in Keys /\ k \in listed /\ BatchOfKey(k) = batch
    BY <1>3, KeyFacts, OwnLabel DEF Sample, IInv, TypeOK
  <2>3. holding' \subseteq stored'
    BY <1>3, <2>2 DEF Sample, workers, ListedInv, Pending
  <2>4. stage' = "sampled" /\ batch' = batch
    BY <1>3 DEF Sample
  <2> QED
    BY <2>1, <2>2, <2>3, <2>4 DEF OwnAndPresent
<1>4. CASE Balance
  <2>1. CASE stage' = "crashed"
    BY <1>4, <2>1 DEF Balance, buffer, ListedInv, Pending, OwnAndPresent
  <2>2. CASE stage' # "crashed"
    <3>1. /\ stage = "sampled" /\ stage' = "using" /\ UNCHANGED <<batch, listed, snapshot>>
          /\ holding' = holding \union Pads /\ stored' = stored \union Pads
      BY <1>4, <2>2 DEF Balance, buffer
    <3>2. ListedInv'
      BY <3>1 DEF ListedInv, Pending
    <3>3. holding' \subseteq stored' /\ \A k \in holding' : BatchOfKey(k) = batch'
      BY <3>1, PadsFacts DEF IInv, OwnAndPresent
    <3>4. holding \intersect Pads = {}
      BY <3>1, PadsFacts DEF IInv, OwnAndPresent, PaddingInv
    <3>5. Remainder' = 0
      BY <3>1, <3>4, PadsFill DEF IInv, Remainder
    <3> QED
      BY <3>1, <3>2, <3>3, <3>5 DEF OwnAndPresent
  <2> QED
    BY <2>1, <2>2
<1>5. CASE Clear
  BY <1>5, KeyFacts DEF Clear, buffer, IInv, TypeOK, ListedInv, Pending, OwnAndPresent
<1>6. CASE Remove
  BY <1>6, KeyFacts DEF Remove, workers, IInv, TypeOK, ListedInv, Pending, OwnAndPresent
<1>7. ASSUME NEW k \in Outputs, Session(k) PROVE OwnInv'
  BY <1>7 DEF Session, PutOutputs, PutNothing, Raise, trainer, buffer, ListedInv, Pending, OwnAndPresent, Remainder
<1>8. ASSUME NEW p \in Prompts, Prompt(p) PROVE OwnInv'
  BY <1>8 DEF Prompt, FinishPrompt, FailPrompt, trainer, buffer, ListedInv, Pending,
              OwnAndPresent, Remainder
<1>9. CASE List
  BY <1>9 DEF List, trainer, workers, buffer, ListedInv, Pending, OwnAndPresent, Remainder
<1>10. CASE Add
  BY <1>10 DEF Add, trainer, workers, ListedInv, Pending, OwnAndPresent, Remainder
<1> QED
  BY <1>1, <1>2, <1>3, <1>4, <1>5, <1>6, <1>7, <1>8, <1>9, <1>10 DEF Next, Train, Poll

(***************************************************************************)
(* A training batch in use is of its own steps, present and divisible:     *)
(* OwnAndPresent.  Validation batches share their label, and are not.      *)
(***************************************************************************)
THEOREM TrainsOnItsOwn == Partition = "train" => (Spec => []OwnAndPresent)
<1>1. Init => OwnInv
  BY DEF Init, OwnInv, ListedInv, OwnAndPresent
<1>2. OwnInv => OwnAndPresent
  BY DEF OwnInv
<1> SUFFICES ASSUME Partition = "train" PROVE Spec => []OwnAndPresent
  OBVIOUS
<1>3. IInv /\ OwnInv /\ [Next]_vars => OwnInv'
  BY OwnStep
<1> QED
  BY <1>1, <1>2, <1>3, Invariance, PTL DEF Spec

(***************************************************************************)
(* The trainer fails on a batch only if no prompt of it had any output:    *)
(* each failed, or finished with agent loops that returned none.           *)
(***************************************************************************)
THEOREM FailsWithoutOutputsOnly ==
  Spec => [](stage = "crashed" => \A p \in Prompts : BatchOf(p) = batch => Fruitless(p))
<1> DEFINE Crashed == stage = "crashed" => \A p \in Prompts : BatchOf(p) = batch => Fruitless(p)
<1>1. Init => Crashed
  BY DEF Init
<1>2. IInv /\ Crashed /\ [Next]_vars => Crashed'
  <2> SUFFICES ASSUME IInv, Crashed, [Next]_vars, stage' = "crashed",
                      NEW p \in Prompts, BatchOf(p) = batch'
               PROVE  Fruitless(p)'
    OBVIOUS
  <2>1. CASE stage = "crashed"
    <3>1. batch' = batch
      BY <2>1 DEF Next, Train, Generate, Sample, Balance, Clear, Remove, Session, PutOutputs,
                  PutNothing, Raise, Prompt, FinishPrompt, FailPrompt, Poll, List, Add, trainer,
                  workers, vars
    <3>2. ended[p] # "none" => ended'[p] = ended[p]
      BY <2>1 DEF Next, Train, Generate, Sample, Balance, Clear, Remove, Session, PutOutputs,
                  PutNothing, Raise, Prompt, FinishPrompt, FailPrompt, Poll, List, Add, trainer,
                  workers, vars, IInv, TypeOK
    <3>3. \A k \in Outputs : session[k] = "empty" => session'[k] = "empty"
      BY <2>1 DEF Next, Train, Generate, Sample, Balance, Clear, Remove, Session, PutOutputs,
                  PutNothing, Raise, Prompt, FinishPrompt, FailPrompt, Poll, List, Add, trainer,
                  workers, vars, IInv, TypeOK
    <3>4. Fruitless(p)
      BY <2>1, <3>1
    <3> QED
      BY <3>2, <3>3, <3>4, KeyFacts DEF Fruitless
  <2>2. CASE stage # "crashed"
    <3>1. stage = "sampled" /\ holding = {} /\ UNCHANGED <<batch, session, ended>>
      BY <2>2 DEF Next, Train, Generate, Sample, Balance, Clear, Remove, Session, PutOutputs,
                  PutNothing, Raise, Prompt, FinishPrompt, FailPrompt, Poll, List, Add, trainer,
                  workers, vars
    <3>2. status[p] \in Ends /\ status[p] = ended[p]
      BY <3>1 DEF IInv, EndsInv, Collected
    <3>3. status[p] = "finished" => \A s \in Sessions : session[<<p, s>>] = "empty"
      BY <3>1 DEF IInv, FinishedIsWhole
    <3>4. Fruitless(p)
      BY <3>2, <3>3 DEF Ends, Fruitless
    <3> QED
      BY <3>1, <3>4 DEF Fruitless
  <2> QED
    BY <2>1, <2>2
<1> QED
  BY <1>1, <1>2, Invariance, PTL DEF Spec
=============================================================================
