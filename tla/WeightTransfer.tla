---------------------------- MODULE WeightTransfer ----------------------------
(***************************************************************************)
(* One transfer of the weights from the trainer to the inference engines:    *)
(*   - NCCLCheckpointEngine.send_weights of trainer rank 0 splits weights    *)
(*     into chunks and broadcasts buckets of them from two buffers;          *)
(*   - each CheckpointEngineWorker is one coroutine, in which the bucketed   *)
(*     sender pulls weights from merge_weight_chunks, which pulls chunks     *)
(*     from _receive_weight_chunks; the broadcast into its other buffer and  *)
(*     its GPU's copies go on meanwhile;                                     *)
(*   - its inference engine (BucketedWeightReceiver) loads what it is sent.  *)
(* External: a broadcast is over for a rank when wait_for_complete returns;  *)
(* a GPU makes its copies in order; an engine that is handed a tensor by IPC *)
(* handle reads it after the copies that precede the handle.  Both bucket    *)
(* sizes are update_weights_bucket_megabytes.                                *)
(***************************************************************************)
EXTENDS Integers, Sequences

CONSTANTS
    Sizes,        \* nbytes of the weights, in order
    BucketSize,   \* update_weights_bucket_megabytes
    Receivers     \* CheckpointEngineWorkers, each with its engine

ASSUME SizesAssumption ==
    /\ BucketSize \in Nat \ {0}
    /\ Sizes \in Seq(Nat \ {0})

VARIABLES
    gen,       \* split_weight_chunks: weight and chunk_offset it is at
    sendBufs,  \* the trainer's two buffers
    fill,      \* which of them is send_buf
    bucket,    \* bucket_meta
    offset,    \* bytes of send_buf in use
    op,        \* the trainer's last broadcast and who has taken part in it
    mem,       \* device memory of each receiver
    copies,    \* copies a receiver's GPU has still to make
    into,      \* which buffer is a receiver's recv_buf
    got,       \* metadata of its broadcast, or None while it waits for it
    items,     \* chunks of its send_buf to be yielded
    last,      \* whether that is the last bucket
    merge,     \* weight being merged and merge_offset, or None
    hand,      \* weight pulled by the bucketed sender, or None
    ipc,       \* its bucket_meta and offset
    message,   \* request to the engine that has no reply yet, or None
    sent,      \* whether the last request was sent
    loaded     \* what each engine was given

trainer == <<gen, sendBufs, fill, bucket, offset>>
merging == <<items, last, merge>>
sender == <<hand, ipc, message, sent>>
vars == <<trainer, op, mem, copies, into, got, merging, sender, loaded>>

None == <<>>
Names == 1 .. Len(Sizes)
Empty == <<0, 0>>
Bytes == UNION {{w} \X (0 .. Sizes[w] - 1) : w \in Names} \union {Empty}

\* n bytes of weight w, from byte i on.
Content(w, i, n) == [j \in 1 .. n |-> <<w, i + j - 1>>]
Weights == [w \in Names |-> Content(w, 0, Sizes[w])]

Read(area, off, n) == [j \in 1 .. n |-> area[off + j - 1]]
Write(area, off, data) ==
    [i \in DOMAIN area |->
        IF i \in off .. off + Len(data) - 1 THEN data[i - off + 1] ELSE area[i]]

Metas == [name : Names, chunk_offset : Nat, size : Nat \ {0}, offset : Nat]
Buffers == [0 .. BucketSize - 1 -> Bytes]
Areas == {"buf0", "buf1", "merged", "ipc"}
Buf(b) == IF b = 0 THEN "buf0" ELSE "buf1"
AreaSize(a) ==
    IF a = "merged" THEN CHOOSE n \in {0} \union {Sizes[w] : w \in Names} :
                             \A w \in Names : Sizes[w] <= n
    ELSE BucketSize

TypeOK ==
    /\ gen[1] \in 1 .. Len(Sizes) + 1 /\ gen[2] \in Nat
    /\ sendBufs \in [0 .. 1 -> Buffers]
    /\ fill \in 0 .. 1
    /\ bucket \in Seq(Metas) /\ offset \in 0 .. BucketSize
    /\ op = None \/ /\ op.buf \in 0 .. 1 /\ op.meta \in Seq(Metas)
                    /\ op.last \in BOOLEAN /\ op.by \subseteq Receivers
    /\ \A r \in Receivers :
          /\ \A a \in Areas : mem[r][a] \in [0 .. AreaSize(a) - 1 -> Bytes]
          /\ into[r] \in 0 .. 1 /\ last[r] \in BOOLEAN /\ sent[r] \in BOOLEAN
          /\ items[r] \in Seq(Metas)
          /\ ipc[r].offset \in 0 .. BucketSize

Init ==
    LET zeros(n) == [i \in 0 .. n - 1 |-> Empty]
        each(x) == [r \in Receivers |-> x]
    IN  /\ gen = <<1, 0>>
        /\ sendBufs = [b \in 0 .. 1 |-> zeros(BucketSize)]
        /\ fill = 0
        /\ bucket = <<>> /\ offset = 0
        /\ op = None
        /\ mem = each([a \in Areas |-> zeros(AreaSize(a))])
        /\ copies = each(<<>>)
        /\ into = each(1)
        /\ got = each(None)
        /\ items = each(<<>>) /\ last = each(FALSE)
        /\ merge = each(None)
        /\ hand = each(None)
        /\ ipc = each([meta |-> <<>>, offset |-> 0])
        /\ message = each(None)
        /\ sent = each(FALSE)
        /\ loaded = each(<<>>)

------------------------------------------------------------------------------
(* The trainer *)

HasChunk == gen[1] <= Len(Sizes)

\* The chunk split_weight_chunks yields next.
Chunk ==
    LET left == Sizes[gen[1]] - gen[2]
    IN  [name |-> gen[1], chunk_offset |-> gen[2],
         size |-> IF left < BucketSize THEN left ELSE BucketSize, offset |-> offset]

Fits == offset + Chunk.size <= BucketSize

Fill ==
    /\ HasChunk /\ Fits
    /\ LET c == Chunk
           end == c.chunk_offset + c.size
       IN  /\ sendBufs' = [sendBufs EXCEPT ![fill] =
                              Write(@, offset, Content(c.name, c.chunk_offset, c.size))]
           /\ bucket' = Append(bucket, c)
           /\ offset' = offset + c.size
           /\ gen' = IF end < Sizes[c.name] THEN <<c.name, end>> ELSE <<c.name + 1, 0>>
    /\ UNCHANGED <<fill, op, mem, copies, into, got, merging, sender, loaded>>

\* Mutant: the previous broadcast is not waited for.
BroadcastAtOnce(isLast) ==
    op' = [buf |-> fill, meta |-> bucket, last |-> isLast, by |-> {}]

\* wait_for_complete of the previous broadcast, and the next one.
Broadcast(isLast) ==
    /\ op # None => op.by = Receivers
    /\ op' = [buf |-> fill, meta |-> bucket, last |-> isLast, by |-> {}]

\* Mutant: the buffers are not swapped.
FlushInPlace ==
    /\ HasChunk /\ ~Fits
    /\ Broadcast(FALSE)
    /\ bucket' = <<>> /\ offset' = 0
    /\ UNCHANGED <<gen, sendBufs, fill, mem, copies, into, got, merging, sender, loaded>>

\* The bucket is full: it is sent and the buffers are swapped.
Flush ==
    /\ HasChunk /\ ~Fits
    /\ Broadcast(FALSE)
    /\ fill' = 1 - fill
    /\ bucket' = <<>> /\ offset' = 0
    /\ UNCHANGED <<gen, sendBufs, mem, copies, into, got, merging, sender, loaded>>

\* The last bucket.
FlushLast ==
    /\ ~HasChunk
    /\ op # None => ~op.last
    /\ Broadcast(TRUE)
    /\ UNCHANGED <<trainer, mem, copies, into, got, merging, sender, loaded>>

------------------------------------------------------------------------------
(* A receiver: r is one of Receivers in all of these *)

\* Its broadcast thread is given the metadata and the bucket.
Receive(r) ==
    /\ got[r] = None /\ ~last[r]
    /\ op # None /\ r \notin op.by
    /\ op' = [op EXCEPT !.by = @ \union {r}]
    /\ mem' = [mem EXCEPT ![r][Buf(into[r])] = sendBufs[op.buf]]
    /\ got' = [got EXCEPT ![r] = [meta |-> op.meta, last |-> op.last]]
    /\ UNCHANGED <<trainer, copies, into, merging, sender, loaded>>

\* The coroutine runs unless it waits for a reply of the engine.
Pulls(r) == hand[r] = None /\ message[r] = None /\ ~sent[r]

\* Mutant: no synchronize before the buffers are swapped.
NextBucketAtOnce(r) ==
    /\ Pulls(r) /\ items[r] = <<>> /\ ~last[r]
    /\ got[r] # None
    /\ into' = [into EXCEPT ![r] = 1 - @]
    /\ items' = [items EXCEPT ![r] = got[r].meta]
    /\ last' = [last EXCEPT ![r] = got[r].last]
    /\ got' = [got EXCEPT ![r] = None]
    /\ UNCHANGED <<trainer, op, mem, copies, merge, sender, loaded>>

\* _receive_weight_chunks has yielded a bucket: it waits for the next one,
\* synchronizes, swaps the buffers and has the one after it received.
NextBucket(r) ==
    /\ Pulls(r) /\ items[r] = <<>> /\ ~last[r]
    /\ got[r] # None
    /\ copies[r] = <<>>
    /\ into' = [into EXCEPT ![r] = 1 - @]
    /\ items' = [items EXCEPT ![r] = got[r].meta]
    /\ last' = [last EXCEPT ![r] = got[r].last]
    /\ got' = [got EXCEPT ![r] = None]
    /\ UNCHANGED <<trainer, op, mem, copies, merge, sender, loaded>>

SendBuf(r) == Buf(1 - into[r])

\* merge_weight_chunks: a weight that fits a bucket is yielded where it lies.
PullWhole(r) ==
    /\ Pulls(r) /\ items[r] # <<>>
    /\ LET c == Head(items[r])
       IN  /\ Sizes[c.name] <= BucketSize
           /\ hand' = [hand EXCEPT ![r] = [name |-> c.name, area |-> SendBuf(r), offset |-> c.offset]]
    /\ items' = [items EXCEPT ![r] = Tail(@)]
    /\ UNCHANGED <<trainer, op, mem, copies, into, got, last, merge, ipc, message, sent, loaded>>

\* Any other is put together and yielded with its last chunk.
PullChunk(r) ==
    /\ Pulls(r) /\ items[r] # <<>>
    /\ LET c == Head(items[r])
           end == c.chunk_offset + c.size
       IN  /\ Sizes[c.name] > BucketSize
           /\ copies' = [copies EXCEPT ![r] = Append(@,
                 [from |-> SendBuf(r), at |-> c.offset, to |-> "merged", pos |-> c.chunk_offset, size |-> c.size])]
           /\ IF end = Sizes[c.name]
              THEN /\ merge' = [merge EXCEPT ![r] = None]
                   /\ hand' = [hand EXCEPT ![r] = [name |-> c.name, area |-> "merged", offset |-> 0]]
              ELSE /\ merge' = [merge EXCEPT ![r] = <<c.name, end>>]
                   /\ UNCHANGED hand
    /\ items' = [items EXCEPT ![r] = Tail(@)]
    /\ UNCHANGED <<trainer, op, mem, into, got, last, ipc, message, sent, loaded>>

\* Copies are made one after the other, some time.
Copy(r) ==
    /\ copies[r] # <<>>
    /\ LET c == Head(copies[r])
       IN  mem' = [mem EXCEPT ![r][c.to] = Write(@, c.pos, Read(mem[r][c.from], c.at, c.size))]
    /\ copies' = [copies EXCEPT ![r] = Tail(@)]
    /\ UNCHANGED <<trainer, op, into, got, merging, sender, loaded>>

------------------------------------------------------------------------------
(* Its bucketed sender *)

HandSize(r) == Sizes[hand[r].name]
HandFits(r) == ipc[r].offset + HandSize(r) <= BucketSize

\* The weight fits into the IPC buffer.
PutWeight(r) ==
    /\ hand[r] # None /\ message[r] = None
    /\ HandFits(r)
    /\ copies' = [copies EXCEPT ![r] = Append(@,
          [from |-> hand[r].area, at |-> hand[r].offset, to |-> "ipc",
           pos |-> ipc[r].offset, size |-> HandSize(r)])]
    /\ ipc' = [ipc EXCEPT ![r] =
          [meta |-> Append(@.meta, [name |-> hand[r].name, area |-> "ipc", offset |-> @.offset]),
           offset |-> @.offset + HandSize(r)]]
    /\ hand' = [hand EXCEPT ![r] = None]
    /\ UNCHANGED <<trainer, op, mem, into, got, merging, message, sent, loaded>>

\* It does not: what the buffer holds is sent, after a synchronize.
SendBucket(r) ==
    /\ hand[r] # None /\ message[r] = None
    /\ ~HandFits(r) /\ ipc[r].meta # <<>>
    /\ copies[r] = <<>>
    /\ message' = [message EXCEPT ![r] = [weights |-> ipc[r].meta]]
    /\ ipc' = [ipc EXCEPT ![r] = [meta |-> <<>>, offset |-> 0]]
    /\ UNCHANGED <<trainer, op, mem, copies, into, got, merging, hand, sent, loaded>>

\* _direct_send_large_weight: it does not fit an empty buffer either.
SendLarge(r) ==
    /\ hand[r] # None /\ message[r] = None
    /\ ~HandFits(r) /\ ipc[r].meta = <<>>
    /\ message' = [message EXCEPT ![r] = [weights |-> <<hand[r]>>]]
    /\ hand' = [hand EXCEPT ![r] = None]
    /\ UNCHANGED <<trainer, op, mem, copies, into, got, merging, ipc, sent, loaded>>

\* No weights are left: the last bucket, which may be empty.
SendLast(r) ==
    /\ Pulls(r) /\ items[r] = <<>> /\ last[r]
    /\ copies[r] = <<>>
    /\ message' = [message EXCEPT ![r] = [weights |-> ipc[r].meta]]
    /\ sent' = [sent EXCEPT ![r] = TRUE]
    /\ UNCHANGED <<trainer, op, mem, copies, into, got, merging, hand, ipc, loaded>>

\* BucketedWeightReceiver.receive_weights: the engine loads and replies.
Load(r) ==
    /\ message[r] # None
    /\ copies[r] = <<>>
    /\ loaded' = [loaded EXCEPT ![r] = @ \o
          [i \in DOMAIN message[r].weights |->
              LET m == message[r].weights[i] IN Read(mem[r][m.area], m.offset, Sizes[m.name])]]
    /\ message' = [message EXCEPT ![r] = None]
    /\ UNCHANGED <<trainer, op, mem, copies, into, got, merging, hand, ipc, sent>>

------------------------------------------------------------------------------
Send == Fill \/ Flush \/ FlushLast
Pull(r) == NextBucket(r) \/ PullWhole(r) \/ PullChunk(r)
Forward(r) == PutWeight(r) \/ SendBucket(r) \/ SendLarge(r) \/ SendLast(r)

Next ==
    \/ Send
    \/ \E r \in Receivers : Receive(r) \/ Pull(r) \/ Forward(r) \/ Copy(r) \/ Load(r)

\* Threads, coroutines, GPUs and engines that can go on do.
Fairness ==
    /\ WF_vars(Send)
    /\ \A r \in Receivers :
          /\ WF_vars(Receive(r)) /\ WF_vars(Pull(r)) /\ WF_vars(Forward(r))
          /\ WF_vars(Copy(r)) /\ WF_vars(Load(r))

Spec == Init /\ [][Next]_vars /\ Fairness

------------------------------------------------------------------------------
(* Properties *)

Intact(buf, c) == Read(buf, c.offset, c.size) = Content(c.name, c.chunk_offset, c.size)

\* No buffer is overwritten early: a bucket on its way keeps its chunks until
\* every receiver has it, and a received one until it has been yielded, while
\* both sides use their other buffer.
BucketsIntact ==
    /\ op # None /\ op.by # Receivers =>
          \A i \in DOMAIN op.meta : Intact(sendBufs[op.buf], op.meta[i])
    /\ \A r \in Receivers : \A i \in DOMAIN items[r] : Intact(mem[r][SendBuf(r)], items[r][i])

\* The assertions of send_weights and merge_weight_chunks hold: a bucket names
\* a weight once, and the chunks of a large weight arrive one after the other,
\* with no other weight in between.
ChunksMeet ==
    /\ \A i, j \in DOMAIN bucket : bucket[i].name = bucket[j].name => i = j
    /\ \A r \in Receivers : items[r] # <<>> =>
          LET c == Head(items[r])
          IN  IF Sizes[c.name] <= BucketSize THEN merge[r] = None
              ELSE merge[r] = IF c.chunk_offset = 0 THEN None ELSE <<c.name, c.chunk_offset>>

\* Every engine is given every weight whole, once and in order, and in the end
\* all of them: buckets, buffers and copies cannot be told from outside.
Stream == INSTANCE WeightStream WITH Engines <- Receivers
ImplementsStream == Stream!Spec
=============================================================================
