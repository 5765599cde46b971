------------------------- MODULE WeightTransferProofs -------------------------
(***************************************************************************)
(* Theorems about WeightTransfer for every list of sizes, bucket size and    *)
(* number of receivers.                                                      *)
(***************************************************************************)
EXTENDS WeightTransfer, SequenceTheorems, WellFoundedInduction, TLAPS

(***************************************************************************)
(* Where the chunks are.  The chunks that have been made and not yet been    *)
(* pulled by a receiver are in four places: its items, the bucket it has     *)
(* received, the broadcast under way and the trainer's bucket.  Together     *)
(* they are one chain, without gap, from the chunk it pulls next to the one  *)
(* the trainer makes next (LinkInv).                                         *)
(***************************************************************************)
Pos(c) == <<c.name, c.chunk_offset>>
After(c) ==
    IF c.chunk_offset + c.size < Sizes[c.name] THEN <<c.name, c.chunk_offset + c.size>>
                                              ELSE <<c.name + 1, 0>>

\* A weight that fits a bucket is one chunk.
Chunks ==
    {c \in Metas : /\ c.chunk_offset + c.size <= Sizes[c.name]
                   /\ c.offset + c.size <= BucketSize
                   /\ Sizes[c.name] <= BucketSize =>
                         c.chunk_offset = 0 /\ c.size = Sizes[c.name]}

\* The chunks of s follow each other, up to position q.
Linked(s, q) ==
    /\ s # <<>> => After(s[Len(s)]) = q
    /\ \A i \in 1 .. Len(s) - 1 : Pos(s[i + 1]) = After(s[i])
Start(s, q) == IF s = <<>> THEN q ELSE Pos(s[1])

Unsent == IF op # None /\ op.last THEN <<>> ELSE bucket
OnWay(r) == IF op = None \/ r \in op.by THEN <<>> ELSE op.meta
Arrived(r) == IF got[r] = None THEN <<>> ELSE got[r].meta

SendAt == Start(Unsent, gen)
OnWayAt(r) == Start(OnWay(r), SendAt)
ArrivedAt(r) == Start(Arrived(r), OnWayAt(r))
PullAt(r) == Start(items[r], ArrivedAt(r))

LinkInv ==
    /\ Linked(Unsent, gen)
    /\ \A r \in Receivers : /\ Linked(OnWay(r), SendAt)
                            /\ Linked(Arrived(r), OnWayAt(r))
                            /\ Linked(items[r], ArrivedAt(r))

\* The trainer: its bucket lies intact below offset, names a weight once, and
\* is full once it has a chunk with which its weight goes on.
SendInv ==
    /\ gen \in (1 .. Len(Sizes) + 1) \X Nat
    /\ gen[1] \in Names => /\ gen[2] < Sizes[gen[1]]
                           /\ gen[2] # 0 => BucketSize < Sizes[gen[1]]
    /\ DOMAIN sendBufs = {0, 1} /\ fill \in {0, 1}
    /\ \A b \in {0, 1} : DOMAIN sendBufs[b] = 0 .. BucketSize - 1
    /\ bucket \in Seq(Chunks) /\ offset \in 0 .. BucketSize
    /\ \A i \in DOMAIN bucket : /\ bucket[i].offset + bucket[i].size <= offset
                                /\ bucket[i].name < gen[1] \/ offset = BucketSize
                                /\ Intact(sendBufs[fill], bucket[i])
    /\ \A i, j \in DOMAIN bucket : i < j => bucket[i].name < bucket[j].name

Ops == [buf : {0, 1}, meta : Seq(Chunks), last : BOOLEAN, by : SUBSET Receivers]

\* The bucket on its way is intact, and not the one being filled.
OpInv ==
    op # None =>
        /\ op \in Ops
        /\ \A i \in DOMAIN op.meta : Intact(sendBufs[op.buf], op.meta[i])
        /\ op.last => ~HasChunk
        /\ ~op.last => op.buf # fill

Gots == [meta : Seq(Chunks), last : BOOLEAN]

\* A receiver's buckets are intact, the one received and the one it yields.
BufferInv(r) ==
    /\ into[r] \in {0, 1}
    /\ items[r] \in Seq(Chunks)
    /\ \A i \in DOMAIN items[r] : Intact(mem[r][SendBuf(r)], items[r][i])
    /\ got[r] # None =>
          /\ got[r] \in Gots
          /\ \A i \in DOMAIN got[r].meta : Intact(mem[r][Buf(into[r])], got[r].meta[i])

MergeInv(r) == merge[r] = IF PullAt(r)[2] = 0 THEN None ELSE PullAt(r)

(***************************************************************************)
(* What a receiver's memory will be.  A weight that is merged, handed over,  *)
(* put into the IPC buffer or named in a message need not be in its place    *)
(* yet: copies are pending.  Holds says that it will be there when they have *)
(* been made: each of its bytes is there or will be written, and whatever is *)
(* written on it is right.  This does not depend on the order of the copies. *)
(***************************************************************************)
Covers(c, area, i) == c.to = area /\ i \in c.pos .. c.pos + c.size - 1

Holds(r, w, area, off, n) ==
    /\ off + n <= AreaSize(area)
    /\ \A j \in 0 .. n - 1 :
          /\ \/ mem[r][area][off + j] = <<w, j>>
             \/ \E k \in DOMAIN copies[r] : Covers(copies[r][k], area, off + j)
          /\ \A k \in DOMAIN copies[r] :
                LET c == copies[r][k]
                IN  Covers(c, area, off + j) => mem[r][c.from][c.at + (off + j - c.pos)] = <<w, j>>

Moves ==
    [from : {"buf0", "buf1"}, at : Nat, to : {"merged", "ipc"}, pos : Nat, size : Nat \ {0}]

\* Copies are pending only from the buffer being yielded; to the IPC buffer
\* only where it is in use, to the merged weight only while there is one.
CopyInv(r) ==
    /\ copies[r] \in Seq(Moves)
    /\ \A k \in DOMAIN copies[r] :
          LET c == copies[r][k]
          IN  /\ c.from = SendBuf(r)
              /\ c.to = "ipc" => c.pos + c.size <= ipc[r].offset
              /\ c.to = "merged" =>
                    IF merge[r] # None THEN c.pos + c.size <= merge[r][2]
                    ELSE \/ hand[r] # None /\ hand[r].area = "merged"
                         \/ message[r] # None

Places == [name : Names, area : Areas, offset : Nat]
Message(r) == IF message[r] = None THEN <<>> ELSE message[r].weights
\* The last bucket stays in bucket_meta when it has been sent.
Pending(r) == IF sent[r] THEN <<>> ELSE ipc[r].meta

IpcHeld(r) ==
    /\ ipc[r].offset \in 0 .. BucketSize
    /\ ipc[r].meta \in Seq(Places)
    /\ ipc[r].meta = <<>> => ipc[r].offset = 0
    /\ \A i \in DOMAIN ipc[r].meta :
          LET m == ipc[r].meta[i]
          IN  /\ m.area = "ipc" /\ m.offset + Sizes[m.name] <= ipc[r].offset
              /\ Holds(r, m.name, "ipc", m.offset, Sizes[m.name])

HandHeld(r) ==
    hand[r] # None =>
        /\ hand[r] \in Places
        /\ IF Sizes[hand[r].name] <= BucketSize
           THEN hand[r].area = SendBuf(r) /\ hand[r].offset + Sizes[hand[r].name] <= BucketSize
           ELSE hand[r].area = "merged" /\ hand[r].offset = 0
        /\ Holds(r, hand[r].name, hand[r].area, hand[r].offset, Sizes[hand[r].name])

MessageHeld(r) ==
    /\ Message(r) \in Seq(Places)
    /\ \A i \in DOMAIN Message(r) :
          LET m == Message(r)[i]
          IN  m.area \in {"ipc", "merged"} /\ Holds(r, m.name, m.area, m.offset, Sizes[m.name])

MergeHeld(r) ==
    merge[r] # None =>
        merge[r] \in Names \X Nat /\ Holds(r, merge[r][1], "merged", 0, merge[r][2])

\* Weights come in order: loaded, in the message, in the IPC buffer, in hand, to
\* be pulled.
Ordered(r, a, b, d) ==
    /\ a = Len(loaded[r]) /\ b = a + Len(Message(r)) /\ d = b + Len(Pending(r))
    /\ loaded[r] = SubSeq(Weights, 1, a)
    /\ \A i \in DOMAIN Message(r) : Message(r)[i].name = a + i
    /\ \A i \in DOMAIN Pending(r) : Pending(r)[i].name = b + i
    /\ IF hand[r] = None THEN PullAt(r)[1] = d + 1
       ELSE hand[r].name = d + 1 /\ PullAt(r)[1] = d + 2 /\ ~sent[r]

OrderInv(r) == \E a, b, d \in 0 .. Len(Sizes) : Ordered(r, a, b, d)

\* The shape of the state: what has a value for whom.
ShapeInv ==
    /\ DOMAIN mem = Receivers /\ DOMAIN copies = Receivers /\ DOMAIN into = Receivers
    /\ DOMAIN got = Receivers /\ DOMAIN items = Receivers /\ DOMAIN last = Receivers
    /\ DOMAIN merge = Receivers /\ DOMAIN hand = Receivers /\ DOMAIN ipc = Receivers
    /\ DOMAIN message = Receivers /\ DOMAIN sent = Receivers /\ DOMAIN loaded = Receivers
    /\ loaded = [r \in Receivers |-> loaded[r]]
    /\ \A r \in Receivers :
          /\ DOMAIN mem[r] = Areas
          /\ \A a \in Areas : DOMAIN mem[r][a] = 0 .. AreaSize(a) - 1

ReceiverInv(r) ==
    /\ BufferInv(r) /\ MergeInv(r) /\ CopyInv(r)
    /\ IpcHeld(r) /\ HandHeld(r) /\ MessageHeld(r) /\ MergeHeld(r)
    /\ OrderInv(r)

IInv == ShapeInv /\ SendInv /\ OpInv /\ LinkInv /\ \A r \in Receivers : ReceiverInv(r)

------------------------------------------------------------------------------
(* Sizes, chunks and chains *)

LEMMA SizeFacts ==
  /\ BucketSize \in Nat /\ BucketSize >= 1 /\ Len(Sizes) \in Nat /\ Names = 1 .. Len(Sizes)
  /\ \A w \in Names : Sizes[w] \in Nat /\ Sizes[w] >= 1
<1>1. /\ BucketSize \in Nat \ {0} /\ Sizes \in Seq(Nat \ {0})
  BY SizesAssumption
<1>2. Len(Sizes) \in Nat /\ \A w \in 1 .. Len(Sizes) : Sizes[w] \in Nat \ {0}
  BY <1>1, ElementOfSeq, LenProperties
<1> QED
  BY <1>1, <1>2 DEF Names

LEMMA ChunkFacts ==
  ASSUME NEW c \in Chunks
  PROVE  /\ c.name \in Names /\ c.chunk_offset \in Nat /\ c.offset \in Nat
         /\ c.size \in Nat /\ c.size >= 1
         /\ c.chunk_offset + c.size <= Sizes[c.name] /\ c.offset + c.size <= BucketSize
         /\ Sizes[c.name] <= BucketSize => c.chunk_offset = 0 /\ c.size = Sizes[c.name]
BY DEF Chunks, Metas

\* Read and Content, byte by byte.
LEMMA IntactBytes ==
  ASSUME NEW buf, NEW c \in Chunks
  PROVE  Intact(buf, c) <=>
            (\A j \in 0 .. c.size - 1 : buf[c.offset + j] = <<c.name, c.chunk_offset + j>>)
<1> DEFINE o == c.offset
           n == c.size
           i == c.chunk_offset
           w == c.name
<1>1. o \in Nat /\ n \in Nat /\ i \in Nat
  BY ChunkFacts
<1>2. Intact(buf, c) <=> (\A j \in 1 .. n : buf[o + j - 1] = <<w, i + j - 1>>)
  BY DEF Intact, Read, Content
<1> HIDE DEF o, n, i, w
<1>3. ASSUME \A j \in 1 .. n : buf[o + j - 1] = <<w, i + j - 1>>, NEW j \in 0 .. n - 1
      PROVE  buf[o + j] = <<w, i + j>>
  <2>1. j + 1 \in 1 .. n /\ o + (j + 1) - 1 = o + j /\ i + (j + 1) - 1 = i + j
    BY <1>1
  <2> QED
    BY <1>3, <2>1
<1>4. ASSUME \A j \in 0 .. n - 1 : buf[o + j] = <<w, i + j>>, NEW j \in 1 .. n
      PROVE  buf[o + j - 1] = <<w, i + j - 1>>
  <2>1. j - 1 \in 0 .. n - 1 /\ o + (j - 1) = o + j - 1 /\ i + (j - 1) = i + j - 1
    BY <1>1
  <2> QED
    BY <1>4, <2>1
<1>5. (\A j \in 1 .. n : buf[o + j - 1] = <<w, i + j - 1>>)
        <=> (\A j \in 0 .. n - 1 : buf[o + j] = <<w, i + j>>)
  BY <1>3, <1>4
<1> QED
  BY <1>2, <1>5 DEF o, n, i, w

LEMMA LinkedEmpty ==
  ASSUME NEW q
  PROVE  Linked(<<>>, q) /\ Start(<<>>, q) = q
BY EmptySeq DEF Linked, Start

LEMMA LinkedAppend ==
  ASSUME NEW s \in Seq(Chunks), NEW c \in Chunks, Linked(s, Pos(c))
  PROVE  /\ Append(s, c) \in Seq(Chunks)
         /\ Linked(Append(s, c), After(c)) /\ Start(Append(s, c), After(c)) = Start(s, Pos(c))
<1> DEFINE t == Append(s, c)
           l == Len(s)
<1>1. /\ t \in Seq(Chunks) /\ Len(t) = l + 1 /\ t[l + 1] = c /\ \A i \in 1 .. l : t[i] = s[i]
      /\ l \in Nat
  BY AppendProperties, LenProperties
<1>2. (s # <<>> => l >= 1) /\ (s = <<>> => l = 0)
  BY EmptySeq, LenProperties
<1>3. /\ s # <<>> => After(s[l]) = Pos(c)
      /\ \A i \in 1 .. l - 1 : Pos(s[i + 1]) = After(s[i])
  BY DEF Linked
<1> HIDE DEF t, l
<1>a. t # <<>>
  BY <1>1, EmptySeq
<1>4. ASSUME NEW i \in 1 .. l PROVE Pos(t[i + 1]) = After(t[i])
  <2>1. CASE i = l
    BY <1>1, <1>2, <1>3, <2>1
  <2>2. CASE i # l
    <3>1. i \in 1 .. l - 1 /\ i + 1 \in 1 .. l
      BY <1>1, <2>2
    <3> QED
      BY <1>1, <1>3, <3>1
  <2> QED
    BY <2>1, <2>2
<1>5. Linked(t, After(c))
  BY <1>1, <1>4 DEF Linked
<1>6. Start(t, After(c)) = Start(s, Pos(c))
  <2>1. CASE s = <<>>
    BY <1>1, <1>2, <1>a, <2>1 DEF Start
  <2>2. CASE s # <<>>
    <3>1. 1 \in 1 .. l
      BY <1>1, <1>2, <2>2
    <3> QED
      BY <1>1, <1>a, <2>2, <3>1 DEF Start
  <2> QED
    BY <2>1, <2>2
<1> QED
  BY <1>1, <1>5, <1>6 DEF t

LEMMA LinkedTail ==
  ASSUME NEW s \in Seq(Chunks), s # <<>>, NEW q, Linked(s, q)
  PROVE  /\ Head(s) = s[1] /\ s[1] \in Chunks /\ 1 \in DOMAIN s /\ Start(s, q) = Pos(s[1])
         /\ Tail(s) \in Seq(Chunks) /\ Linked(Tail(s), q) /\ Start(Tail(s), q) = After(s[1])
         /\ \A i \in DOMAIN Tail(s) : i + 1 \in DOMAIN s /\ Tail(s)[i] = s[i + 1]
<1> DEFINE t == Tail(s)
           l == Len(s)
<1>1. /\ Head(s) = s[1] /\ t \in Seq(Chunks) /\ Len(t) = l - 1 /\ l \in Nat /\ l > 0
      /\ \A i \in 1 .. l - 1 : t[i] = s[i + 1]
  BY HeadTailProperties, EmptySeq, LenProperties
<1>2. DOMAIN s = 1 .. l /\ DOMAIN t = 1 .. l - 1 /\ s[1] \in Chunks
  BY <1>1, LenProperties, ElementOfSeq
<1>3. t # <<>> => l - 1 > 0
  BY <1>1, EmptySeq
<1>4. t = <<>> => l - 1 = 0
  BY <1>1, EmptySeq
<1>5. After(s[l]) = q /\ \A i \in 1 .. l - 1 : Pos(s[i + 1]) = After(s[i])
  BY DEF Linked
<1> HIDE DEF t, l
<1>6. Linked(t, q)
  <2>1. t # <<>> => After(t[l - 1]) = q
    BY <1>1, <1>3, <1>5
  <2>2. ASSUME NEW i \in 1 .. l - 2 PROVE Pos(t[i + 1]) = After(t[i])
    <3>1. i \in 1 .. l - 1 /\ i + 1 \in 1 .. l - 1
      BY <1>1
    <3> QED
      BY <1>1, <1>5, <3>1
  <2>3. Len(t) = l - 1 /\ l - 1 - 1 = l - 2
    BY <1>1
  <2> QED
    BY <2>1, <2>2, <2>3 DEF Linked
<1>7. Start(t, q) = After(s[1])
  <2>1. CASE t = <<>>
    <3>1. l = 1
      BY <1>1, <1>4, <2>1
    <3> QED
      BY <1>5, <2>1, <3>1 DEF Start
  <2>2. CASE t # <<>>
    <3>1. 1 \in 1 .. l - 1
      BY <1>1, <1>3, <2>2
    <3> QED
      BY <1>1, <1>5, <2>2, <3>1 DEF Start
  <2> QED
    BY <2>1, <2>2
<1>8. \A i \in DOMAIN t : i + 1 \in DOMAIN s /\ t[i] = s[i + 1]
  BY <1>1, <1>2
<1>9. 1 \in DOMAIN s /\ Start(s, q) = Pos(s[1])
  BY <1>1, <1>2 DEF Start
<1> QED
  BY <1>1, <1>2, <1>6, <1>7, <1>8, <1>9 DEF t

------------------------------------------------------------------------------
(* The merged area is as long as the longest weight *)

LEMMA LessThanWellFounded == IsWellFoundedOn({ss \in Nat \X Nat : ss[1] < ss[2]}, Nat)
BY NatLessThanWellFounded DEF OpToRel

\* Induction over the natural numbers, about a set.
LEMMA Induction ==
  ASSUME NEW T, 0 \in T, \A n \in Nat : n \in T => n + 1 \in T
  PROVE  Nat \subseteq T
<1> DEFINE R == {ss \in Nat \X Nat : ss[1] < ss[2]}
           C == {n \in Nat : n \notin T}
<1>1. IsWellFoundedOn(R, Nat)
  BY LessThanWellFounded
<1> SUFFICES ASSUME C # {} PROVE FALSE
  OBVIOUS
<1>2. C \subseteq Nat
  OBVIOUS
<1> HIDE DEF R
<1>3. \E x \in C : \A y \in C : ~ (<<y, x>> \in R)
  BY <1>1, <1>2, WFMin
<1>4. PICK x \in C : \A y \in C : ~ (y < x)
  BY <1>3 DEF R
<1>5. x # 0 /\ x - 1 \in Nat
  OBVIOUS
<1>6. x - 1 \in T
  BY <1>4, <1>5
<1> QED
  BY <1>5, <1>6

LEMMA AreaSizes ==
  /\ AreaSize("ipc") = BucketSize /\ \A b \in {0, 1} : AreaSize(Buf(b)) = BucketSize
  /\ AreaSize("merged") \in Nat /\ \A w \in Names : Sizes[w] <= AreaSize("merged")
<1> DEFINE V == {0} \union {Sizes[w] : w \in Names}
           T == {n \in Nat : \E b \in V : \A w \in Names : w <= n => Sizes[w] <= b}
<1>1. V \subseteq Nat
  BY SizeFacts
<1>2. 0 \in T
  BY SizeFacts
<1>3. ASSUME NEW n \in Nat, n \in T PROVE n + 1 \in T
  <2>1. PICK b \in V : \A w \in Names : w <= n => Sizes[w] <= b
    BY <1>3
  <2>2. \A w \in Names : w <= n + 1 => w <= n \/ w = n + 1
    BY SizeFacts
  <2>3. CASE n + 1 \in Names /\ Sizes[n + 1] > b
    <3>1. \A w \in Names : w <= n + 1 => Sizes[w] <= Sizes[n + 1]
      BY <1>1, <2>1, <2>2, <2>3, SizeFacts
    <3>2. Sizes[n + 1] \in V /\ n + 1 \in Nat
      BY <2>3
    <3> HIDE DEF V
    <3> QED
      BY <3>1, <3>2
  <2>4. CASE ~(n + 1 \in Names /\ Sizes[n + 1] > b)
    <3>1. \A w \in Names : w <= n + 1 => Sizes[w] <= b
      BY <1>1, <2>1, <2>2, <2>4, SizeFacts
    <3>2. n + 1 \in Nat
      OBVIOUS
    <3> HIDE DEF V
    <3> QED
      BY <3>1, <3>2
  <2> QED
    BY <2>3, <2>4
<1>4. Len(Sizes) \in T
  <2> HIDE DEF T
  <2>1. Nat \subseteq T
    BY <1>2, <1>3, Induction
  <2> QED
    BY <2>1, SizeFacts
<1>5. \E n \in V : \A w \in Names : Sizes[w] <= n
  BY <1>4, SizeFacts
<1>6. AreaSize("merged") = CHOOSE n \in V : \A w \in Names : Sizes[w] <= n
  BY DEF AreaSize
<1> HIDE DEF V
<1>7. AreaSize("merged") \in V /\ \A w \in Names : Sizes[w] <= AreaSize("merged")
  BY <1>5, <1>6
<1> QED
  BY <1>1, <1>7 DEF AreaSize, Buf

------------------------------------------------------------------------------
(* The trainer *)

\* The chunk that is made next starts where the trainer is.
LEMMA ChunkMade ==
  ASSUME SendInv, HasChunk, Fits
  PROVE  /\ Chunk \in Chunks /\ Pos(Chunk) = gen /\ Chunk.name = gen[1] /\ gen[1] \in Names
         /\ Chunk.offset = offset /\ offset + Chunk.size <= BucketSize
         /\ Chunk.chunk_offset + Chunk.size < Sizes[gen[1]] => Chunk.size = BucketSize
<1>1. /\ gen \in (1 .. Len(Sizes) + 1) \X Nat /\ gen[1] \in Names /\ gen[2] < Sizes[gen[1]]
      /\ gen[2] # 0 => BucketSize < Sizes[gen[1]]
      /\ offset \in Nat
  BY SizeFacts DEF SendInv, HasChunk
<1> DEFINE left == Sizes[gen[1]] - gen[2]
           size == IF left < BucketSize THEN left ELSE BucketSize
<1>2. Chunk = [name |-> gen[1], chunk_offset |-> gen[2], size |-> size, offset |-> offset]
  BY DEF Chunk
<1>3. /\ Sizes[gen[1]] \in Nat /\ gen[2] \in Nat /\ BucketSize \in Nat /\ BucketSize >= 1
  BY <1>1, SizeFacts
<1>4. /\ size \in Nat \ {0} /\ gen[2] + size <= Sizes[gen[1]]
      /\ gen[2] + size < Sizes[gen[1]] => size = BucketSize
      /\ Sizes[gen[1]] <= BucketSize => gen[2] = 0 /\ size = Sizes[gen[1]]
  BY <1>1, <1>3
<1>5. offset + size <= BucketSize
  BY <1>2 DEF Fits
<1> HIDE DEF left, size
<1>6. Chunk \in Metas
  BY <1>1, <1>2, <1>4 DEF Metas
<1>7. Chunk \in Chunks
  BY <1>2, <1>4, <1>5, <1>6 DEF Chunks
<1>8. Pos(Chunk) = gen
  BY <1>1, <1>2 DEF Pos
<1> QED
  BY <1>1, <1>2, <1>4, <1>5, <1>7, <1>8

\* A broadcast has its fields, and is not None.
LEMMA OpFacts ==
  /\ \A x \in Ops : x # None /\ x.buf \in {0, 1} /\ x.meta \in Seq(Chunks) /\ x.last \in BOOLEAN
                    /\ x.by \subseteq Receivers
  /\ \A x \in Ops, r \in Receivers :
        LET y == [x EXCEPT !.by = @ \union {r}]
        IN  y \in Ops /\ y.buf = x.buf /\ y.meta = x.meta /\ y.last = x.last
            /\ y.by = x.by \union {r}
<1>1. ASSUME NEW x \in Ops
      PROVE  x # None /\ x.buf \in {0, 1} /\ x.meta \in Seq(Chunks) /\ x.last \in BOOLEAN
             /\ x.by \subseteq Receivers
  BY DEF Ops, None
<1>2. ASSUME NEW x \in Ops, NEW r \in Receivers
      PROVE  LET y == [x EXCEPT !.by = @ \union {r}]
             IN  y \in Ops /\ y.buf = x.buf /\ y.meta = x.meta /\ y.last = x.last
                 /\ y.by = x.by \union {r}
  BY DEF Ops
<1> QED
  BY <1>1, <1>2

\* A chunk is written behind the others of the bucket.
LEMMA FillKeeps ==
  ASSUME SendInv, OpInv, Fill
  PROVE  SendInv' /\ OpInv' /\ gen' = After(Chunk) /\ bucket' = Append(bucket, Chunk)
<1>1. HasChunk /\ Fits /\ UNCHANGED <<fill, op>>
  BY DEF Fill
<1>2. PICK c \in Chunks : c = Chunk
  BY <1>1, ChunkMade
<1>3. /\ Pos(c) = gen /\ c.name = gen[1] /\ gen[1] \in Names /\ c.offset = offset
      /\ offset + c.size <= BucketSize
      /\ c.chunk_offset + c.size < Sizes[gen[1]] => c.size = BucketSize
  BY <1>1, <1>2, ChunkMade
<1>4. /\ sendBufs' = [sendBufs EXCEPT ![fill] =
                         Write(@, offset, Content(c.name, c.chunk_offset, c.size))]
      /\ bucket' = Append(bucket, c) /\ offset' = offset + c.size /\ gen' = After(c)
  BY <1>2, <1>3 DEF Fill, After
<1>5. /\ c.name \in Names /\ c.chunk_offset \in Nat /\ c.size \in Nat /\ c.size >= 1
      /\ c.chunk_offset + c.size <= Sizes[c.name]
      /\ Sizes[c.name] <= BucketSize => c.chunk_offset = 0 /\ c.size = Sizes[c.name]
      /\ Sizes[c.name] \in Nat /\ offset \in Nat /\ BucketSize \in Nat /\ Len(Sizes) \in Nat
      /\ Names = 1 .. Len(Sizes)
  BY ChunkFacts, SizeFacts DEF SendInv
<1>6. /\ gen' \in (1 .. Len(Sizes) + 1) \X Nat
      /\ gen'[1] \in Names => /\ gen'[2] < Sizes[gen'[1]]
                              /\ gen'[2] # 0 => BucketSize < Sizes[gen'[1]]
  <2>1. CASE c.chunk_offset + c.size < Sizes[c.name]
    <3>1. gen' = <<c.name, c.chunk_offset + c.size>>
      BY <1>4, <2>1 DEF After
    <3>2. c.chunk_offset + c.size \in Nat /\ BucketSize < Sizes[c.name]
      BY <1>5, <2>1
    <3> QED
      BY <1>5, <2>1, <3>1, <3>2
  <2>2. CASE ~(c.chunk_offset + c.size < Sizes[c.name])
    <3>1. gen' = <<c.name + 1, 0>>
      BY <1>4, <2>2 DEF After
    <3>2. gen'[1] \in Names => Sizes[gen'[1]] \in Nat /\ Sizes[gen'[1]] >= 1
      BY SizeFacts
    <3> QED
      BY <1>5, <3>1, <3>2, SMTT(30)
  <2> QED
    BY <2>1, <2>2
<1>7. DOMAIN sendBufs = {0, 1} /\ fill \in {0, 1} /\ \A b \in {0, 1} : DOMAIN sendBufs[b] = 0 .. BucketSize - 1
  BY DEF SendInv
<1>8. /\ DOMAIN sendBufs' = {0, 1} /\ \A b \in {0, 1} : DOMAIN sendBufs'[b] = 0 .. BucketSize - 1
      /\ \A b \in {0, 1} \ {fill} : sendBufs'[b] = sendBufs[b]
      /\ \A i \in 0 .. BucketSize - 1 :
            sendBufs'[fill][i] = IF i \in offset .. offset + c.size - 1
                                 THEN <<c.name, c.chunk_offset + (i - offset)>> ELSE sendBufs[fill][i]
  <2> DEFINE d == Content(c.name, c.chunk_offset, c.size)
             n == Write(sendBufs[fill], offset, d)
  <2>1. Len(d) = c.size /\ \A j \in 1 .. c.size : d[j] = <<c.name, c.chunk_offset + j - 1>>
    BY <1>5, SMTT(30) DEF Content
  <2> HIDE DEF d
  <2>2. /\ DOMAIN n = 0 .. BucketSize - 1
        /\ \A i \in 0 .. BucketSize - 1 :
              n[i] = IF i \in offset .. offset + c.size - 1 THEN d[i - offset + 1] ELSE sendBufs[fill][i]
    BY <1>5, <1>7, <2>1 DEF Write
  <2>3. sendBufs' = [sendBufs EXCEPT ![fill] = n]
    BY <1>4 DEF d
  <2> HIDE DEF n
  <2>4. \A i \in 0 .. BucketSize - 1 : i \in offset .. offset + c.size - 1 =>
           /\ i - offset + 1 \in 1 .. c.size
           /\ c.chunk_offset + (i - offset + 1) - 1 = c.chunk_offset + (i - offset)
    BY <1>5
  <2>5. \A i \in 0 .. BucketSize - 1 :
           n[i] = IF i \in offset .. offset + c.size - 1
                  THEN <<c.name, c.chunk_offset + (i - offset)>> ELSE sendBufs[fill][i]
    BY <2>1, <2>2, <2>4
  <2> QED
    BY <1>7, <2>2, <2>3, <2>5
<1>9. /\ bucket' \in Seq(Chunks) /\ Len(bucket') = Len(bucket) + 1 /\ bucket'[Len(bucket) + 1] = c
      /\ \A i \in 1 .. Len(bucket) : bucket'[i] = bucket[i]
      /\ Len(bucket) \in Nat /\ DOMAIN bucket = 1 .. Len(bucket)
      /\ DOMAIN bucket' = 1 .. Len(bucket) + 1
      /\ \A i \in 1 .. Len(bucket) : bucket[i] \in Chunks
  BY <1>4, AppendProperties, LenProperties, ElementOfSeq DEF SendInv
<1>10. /\ \A i \in 1 .. Len(bucket) : /\ bucket[i].offset + bucket[i].size <= offset
                                      /\ bucket[i].name < gen[1]
                                      /\ Intact(sendBufs[fill], bucket[i])
       /\ \A i, j \in 1 .. Len(bucket) : i < j => bucket[i].name < bucket[j].name
  <2>1. offset # BucketSize
    BY <1>3, <1>5
  <2>2. /\ \A i \in DOMAIN bucket : /\ bucket[i].offset + bucket[i].size <= offset
                                    /\ bucket[i].name < gen[1] \/ offset = BucketSize
                                    /\ Intact(sendBufs[fill], bucket[i])
        /\ \A i, j \in DOMAIN bucket : i < j => bucket[i].name < bucket[j].name
    BY DEF SendInv
  <2> QED
    BY <1>9, <2>1, <2>2
<1>11. ASSUME NEW i \in 1 .. Len(bucket)
       PROVE  /\ bucket'[i].offset + bucket'[i].size <= offset'
              /\ bucket'[i].name < gen'[1] /\ Intact(sendBufs'[fill], bucket'[i])
  <2>1. PICK d \in Chunks : d = bucket[i]
    BY <1>9
  <2>2. /\ bucket'[i] = d /\ d.offset + d.size <= offset /\ d.name < gen[1]
        /\ Intact(sendBufs[fill], d) /\ d.name \in Nat
        /\ d.offset \in Nat /\ d.size \in Nat
    BY <1>9, <1>10, <2>1, ChunkFacts, SizeFacts
  <2>3. \A j \in 0 .. d.size - 1 : sendBufs'[fill][d.offset + j] = sendBufs[fill][d.offset + j]
    <3> SUFFICES ASSUME NEW j \in 0 .. d.size - 1
                 PROVE  sendBufs'[fill][d.offset + j] = sendBufs[fill][d.offset + j]
      OBVIOUS
    <3>1. PICK a \in Nat, n \in Nat : a = d.offset /\ n = d.size /\ a + n <= offset
      BY <2>2
    <3>2. offset <= BucketSize
      BY <1>3, <1>5
    <3>a. j \in Nat /\ j < n
      BY <3>1
    <3>c. offset \in Nat /\ a + n <= offset
      BY <1>5, <3>1
    <3>b. a + j \in Nat /\ a + j < offset
      BY <3>a, <3>c
    <3>3. a + j \in 0 .. BucketSize - 1 /\ a + j \notin offset .. offset + c.size - 1
      BY <1>5, <3>2, <3>b
    <3> QED
      BY <1>8, <3>1, <3>3
  <2>a. \A j \in 0 .. d.size - 1 : sendBufs[fill][d.offset + j] = <<d.name, d.chunk_offset + j>>
    BY <2>2, IntactBytes
  <2>b. \A j \in 0 .. d.size - 1 : sendBufs'[fill][d.offset + j] = <<d.name, d.chunk_offset + j>>
    BY <2>3, <2>a
  <2>4. Intact(sendBufs'[fill], d)
    BY <2>b, IntactBytes
  <2>5. gen[1] <= gen'[1] /\ gen[1] \in Nat /\ gen'[1] \in Nat
    BY <1>3, <1>4, <1>5, SMTT(30) DEF After
  <2>6. d.name < gen'[1]
    BY <2>2, <2>5
  <2>7. d.offset + d.size <= offset'
    BY <1>4, <1>5, <2>2, SMTT(30)
  <2> QED
    BY <2>2, <2>4, <2>6, <2>7
<1>12. /\ c.offset + c.size <= offset' /\ Intact(sendBufs'[fill], c)
       /\ c.name < gen'[1] \/ offset' = BucketSize
  <2>1. \A j \in 0 .. c.size - 1 : sendBufs'[fill][c.offset + j] = <<c.name, c.chunk_offset + j>>
    <3> SUFFICES ASSUME NEW j \in 0 .. c.size - 1
                 PROVE  sendBufs'[fill][offset + j] = <<c.name, c.chunk_offset + j>>
      BY <1>3
    <3>1. PICK i \in 0 .. BucketSize - 1 : i = offset + j
      BY <1>3, <1>5
    <3>2. i \in offset .. offset + c.size - 1 /\ i - offset = j
      BY <1>5, <3>1
    <3>3. sendBufs'[fill][i] = <<c.name, c.chunk_offset + (i - offset)>>
      BY <1>8, <3>2
    <3> QED
      BY <3>1, <3>2, <3>3
  <2>2. Intact(sendBufs'[fill], c)
    BY <2>1, IntactBytes
  <2>3. c.name < gen'[1] \/ offset' = BucketSize
    <3>1. CASE c.chunk_offset + c.size < Sizes[c.name]
      BY <1>3, <1>4, <1>5, <3>1
    <3>2. CASE ~(c.chunk_offset + c.size < Sizes[c.name])
      BY <1>4, <1>5, <3>2 DEF After
    <3> QED
      BY <3>1, <3>2
  <2> QED
    BY <1>3, <1>4, <1>5, <2>2, <2>3
<1>13. ASSUME NEW i \in DOMAIN bucket', NEW j \in DOMAIN bucket', i < j
       PROVE  bucket'[i].name < bucket'[j].name
  <2>1. i \in 1 .. Len(bucket)
    BY <1>9, <1>13
  <2>2. CASE j \in 1 .. Len(bucket)
    BY <1>9, <1>10, <1>13, <2>1, <2>2
  <2>3. CASE j = Len(bucket) + 1
    BY <1>3, <1>9, <1>10, <2>1, <2>3
  <2> QED
    BY <1>9, <2>2, <2>3
<1>14. \A i \in DOMAIN bucket' : /\ bucket'[i].offset + bucket'[i].size <= offset'
                                 /\ bucket'[i].name < gen'[1] \/ offset' = BucketSize
                                 /\ Intact(sendBufs'[fill], bucket'[i])
  <2>1. \A i \in DOMAIN bucket' : i \in 1 .. Len(bucket) \/ i = Len(bucket) + 1
    BY <1>9
  <2> QED
    BY <1>9, <1>11, <1>12, <2>1
<1>15. SendInv'
  <2>1. offset' \in 0 .. BucketSize
    BY <1>3, <1>4, <1>5
  <2> QED
    BY <1>1, <1>6, <1>7, <1>8, <1>9, <1>13, <1>14, <2>1 DEF SendInv
<1>16. OpInv'
  <2> SUFFICES ASSUME op # None PROVE OpInv'
    BY <1>1 DEF OpInv
  <2>1. /\ op \in Ops /\ op.buf \in {0, 1} /\ ~op.last /\ op.buf # fill
        /\ \A i \in DOMAIN op.meta : Intact(sendBufs[op.buf], op.meta[i])
    BY <1>1, OpFacts DEF OpInv
  <2>2. sendBufs'[op.buf] = sendBufs[op.buf]
    BY <1>8, <2>1
  <2> QED
    BY <1>1, <2>1, <2>2 DEF OpInv
<1> QED
  BY <1>2, <1>4, <1>15, <1>16

\* The trainer's buffers through every step.
LEMMA TrainerKept ==
  ASSUME SendInv, OpInv, [Next]_vars
  PROVE  SendInv' /\ OpInv'
<1>1. CASE Fill
  BY <1>1, FillKeeps
<1>2. CASE Flush
  <2>1. /\ op' = [buf |-> fill, meta |-> bucket, last |-> FALSE, by |-> {}]
        /\ fill' = 1 - fill /\ bucket' = <<>> /\ offset' = 0 /\ UNCHANGED <<gen, sendBufs>>
    BY <1>2 DEF Flush, Broadcast
  <2>2. /\ fill \in {0, 1} /\ bucket \in Seq(Chunks)
        /\ \A i \in DOMAIN bucket : Intact(sendBufs[fill], bucket[i])
    BY DEF SendInv
  <2>3. op' \in Ops /\ op'.buf = fill /\ op'.meta = bucket /\ op'.last = FALSE
    BY <2>1, <2>2 DEF Ops
  <2>4. OpInv'
    BY <2>1, <2>2, <2>3 DEF OpInv
  <2>5. DOMAIN bucket' = {} /\ bucket' \in Seq(Chunks) /\ offset' \in 0 .. BucketSize /\ fill' \in {0, 1}
    BY <2>1, <2>2, SizeFacts, EmptySeq
  <2> QED
    BY <2>1, <2>4, <2>5 DEF SendInv
<1>3. CASE FlushLast
  <2>1. /\ op' = [buf |-> fill, meta |-> bucket, last |-> TRUE, by |-> {}]
        /\ ~HasChunk /\ UNCHANGED trainer
    BY <1>3 DEF FlushLast, Broadcast
  <2>2. UNCHANGED <<gen, sendBufs, fill, bucket, offset>>
    BY <2>1 DEF trainer
  <2>3. SendInv'
    BY <2>2 DEF SendInv
  <2>4. /\ fill \in {0, 1} /\ bucket \in Seq(Chunks)
        /\ \A i \in DOMAIN bucket : Intact(sendBufs[fill], bucket[i])
    BY DEF SendInv
  <2>5. op' \in Ops /\ op'.buf = fill /\ op'.meta = bucket /\ op'.last = TRUE
    BY <2>1, <2>4 DEF Ops
  <2>6. ~HasChunk'
    BY <2>1, <2>2 DEF HasChunk
  <2>7. OpInv'
    BY <2>2, <2>4, <2>5, <2>6 DEF OpInv
  <2> QED
    BY <2>3, <2>7
<1>4. ASSUME NEW r \in Receivers, Receive(r) PROVE SendInv' /\ OpInv'
  <2>1. op # None /\ op' = [op EXCEPT !.by = @ \union {r}] /\ UNCHANGED trainer
    BY <1>4 DEF Receive
  <2>2. UNCHANGED <<gen, sendBufs, fill, bucket, offset>>
    BY <2>1 DEF trainer
  <2>3. SendInv'
    BY <2>2 DEF SendInv
  <2>4. op \in Ops
    BY <2>1 DEF OpInv
  <2>5. op' \in Ops /\ op'.buf = op.buf /\ op'.meta = op.meta /\ op'.last = op.last
    BY <2>1, <2>4, OpFacts
  <2>6. OpInv'
    BY <2>1, <2>2, <2>5 DEF OpInv, HasChunk
  <2> QED
    BY <2>3, <2>6
<1>5. CASE UNCHANGED <<trainer, op>>
  BY <1>5 DEF trainer, SendInv, OpInv, HasChunk
<1>6. ASSUME NEW r \in Receivers, Pull(r) \/ Forward(r) \/ Copy(r) \/ Load(r) PROVE UNCHANGED <<trainer, op>>
  BY <1>6 DEF Pull, NextBucket, PullWhole, PullChunk, Forward, PutWeight, SendBucket, SendLarge,
              SendLast, Copy, Load
<1> QED
  BY <1>1, <1>2, <1>3, <1>4, <1>5, <1>6 DEF Next, Send, vars

------------------------------------------------------------------------------
(* The chain of chunks *)

LEMMA GotFacts ==
  /\ \A x \in Gots : x # None /\ x.meta \in Seq(Chunks) /\ x.last \in BOOLEAN
  /\ \A x \in Ops : [meta |-> x.meta, last |-> x.last] \in Gots
BY DEF Gots, Ops, None

\* The trainer makes a chunk, or sends its bucket: nothing changes for a receiver.
LEMMA LinkSend ==
  ASSUME SendInv, OpInv, LinkInv, Send
  PROVE  LinkInv' /\ \A s \in Receivers : PullAt(s)' = PullAt(s)
<1>0. UNCHANGED <<got, items>>
  BY DEF Send, Fill, Flush, FlushLast, merging
<1>1. CASE Fill
  <2>1. gen' = After(Chunk) /\ bucket' = Append(bucket, Chunk) /\ UNCHANGED op /\ HasChunk /\ Fits
    BY <1>1, FillKeeps DEF Fill
  <2>2. Chunk \in Chunks /\ Pos(Chunk) = gen /\ bucket \in Seq(Chunks)
    BY <2>1, ChunkMade DEF SendInv
  <2>3. Unsent = bucket /\ Unsent' = bucket'
    BY <2>1 DEF Unsent, OpInv
  <2>4. Linked(bucket, gen)
    BY <2>3 DEF LinkInv
  <2>5. Linked(Unsent, gen)' /\ SendAt' = SendAt
    BY <2>1, <2>2, <2>3, <2>4, LinkedAppend DEF SendAt
  <2>6. \A s \in Receivers : OnWay(s)' = OnWay(s) /\ Arrived(s)' = Arrived(s) /\ items'[s] = items[s]
    BY <1>0, <2>1 DEF OnWay, Arrived
  <2>7. \A s \in Receivers : /\ OnWayAt(s)' = OnWayAt(s) /\ ArrivedAt(s)' = ArrivedAt(s)
                             /\ PullAt(s)' = PullAt(s)
    BY <2>5, <2>6 DEF OnWayAt, ArrivedAt, PullAt
  <2> QED
    BY <2>5, <2>6, <2>7 DEF LinkInv
<1>2. CASE Flush \/ FlushLast
  <2>1. /\ op = None \/ op.by = Receivers
        /\ op' \in Ops /\ op'.meta = bucket /\ op'.by = {} /\ gen' = gen
        /\ op'.last \/ bucket' = <<>>
    <3>1. /\ fill \in {0, 1} /\ bucket \in Seq(Chunks)
      BY DEF SendInv
    <3>2. CASE Flush
      BY <3>1, <3>2 DEF Flush, Broadcast, Ops
    <3>3. CASE FlushLast
      BY <3>1, <3>3 DEF FlushLast, Broadcast, Ops, trainer
    <3> QED
      BY <1>2, <3>2, <3>3
  <2>2. op # None => ~op.last
    <3>1. CASE Flush
      BY <3>1 DEF Flush, OpInv
    <3>2. CASE FlushLast
      BY <3>2 DEF FlushLast
    <3> QED
      BY <1>2, <3>1, <3>2
  <2>3. Unsent = bucket /\ Unsent' = <<>> /\ op' # None
    BY <2>1, <2>2, OpFacts DEF Unsent
  <2>4. Linked(Unsent, gen)' /\ SendAt' = gen
    BY <2>1, <2>3, LinkedEmpty DEF SendAt
  <2>5. ASSUME NEW s \in Receivers
        PROVE  /\ OnWay(s) = <<>> /\ OnWay(s)' = bucket /\ Arrived(s)' = Arrived(s)
               /\ items'[s] = items[s]
    BY <1>0, <2>1, <2>3 DEF OnWay, Arrived
  <2>6. ASSUME NEW s \in Receivers
        PROVE  /\ Linked(OnWay(s), SendAt)' /\ OnWayAt(s)' = OnWayAt(s)
    <3>1. OnWayAt(s) = Start(bucket, gen)
      BY <2>3, <2>5, LinkedEmpty DEF OnWayAt, SendAt
    <3>2. OnWayAt(s)' = Start(bucket, gen)
      BY <2>4, <2>5 DEF OnWayAt
    <3>3. Linked(bucket, gen)
      BY <2>3 DEF LinkInv
    <3> QED
      BY <2>4, <2>5, <3>1, <3>2, <3>3
  <2>7. \A s \in Receivers : ArrivedAt(s)' = ArrivedAt(s) /\ PullAt(s)' = PullAt(s)
    BY <2>5, <2>6 DEF ArrivedAt, PullAt
  <2> QED
    BY <2>4, <2>5, <2>6, <2>7 DEF LinkInv
<1> QED
  BY <1>1, <1>2 DEF Send

\* A receiver for which nothing moves.
LEMMA LinkSame ==
  ASSUME UNCHANGED <<bucket, gen>>, NEW s, got'[s] = got[s], items'[s] = items[s],
         \/ UNCHANGED op
         \/ /\ op # None /\ op' # None /\ op'.meta = op.meta /\ op'.last = op.last
            /\ s \in op'.by <=> s \in op.by
  PROVE  /\ Unsent' = Unsent /\ SendAt' = SendAt
         /\ OnWay(s)' = OnWay(s) /\ OnWayAt(s)' = OnWayAt(s)
         /\ Arrived(s)' = Arrived(s) /\ ArrivedAt(s)' = ArrivedAt(s) /\ PullAt(s)' = PullAt(s)
<1>1. Unsent' = Unsent /\ OnWay(s)' = OnWay(s) /\ Arrived(s)' = Arrived(s)
  BY DEF Unsent, OnWay, Arrived
<1> QED
  BY <1>1 DEF SendAt, OnWayAt, ArrivedAt, PullAt

\* The bucket on its way becomes the one received.
LEMMA LinkReceive ==
  ASSUME ShapeInv, SendInv, OpInv, LinkInv, NEW r \in Receivers, Receive(r)
  PROVE  LinkInv' /\ \A s \in Receivers : PullAt(s)' = PullAt(s)
<1>1. /\ op # None /\ r \notin op.by /\ got[r] = None
      /\ op' = [op EXCEPT !.by = @ \union {r}] /\ UNCHANGED <<bucket, gen, items>>
      /\ got' = [got EXCEPT ![r] = [meta |-> op.meta, last |-> op.last]]
  BY DEF Receive, trainer, merging
<1>2. /\ op \in Ops /\ op' \in Ops /\ op' # None /\ op'.meta = op.meta /\ op'.last = op.last
      /\ op'.by = op.by \union {r}
  BY <1>1, OpFacts DEF OpInv
<1>3. /\ got'[r] = [meta |-> op.meta, last |-> op.last] /\ got'[r] \in Gots /\ got'[r] # None
      /\ \A s \in Receivers \ {r} : got'[s] = got[s]
  BY <1>1, <1>2, GotFacts DEF ShapeInv
<1>4. ASSUME NEW s \in Receivers, s # r
      PROVE  /\ Unsent' = Unsent /\ SendAt' = SendAt
             /\ OnWay(s)' = OnWay(s) /\ OnWayAt(s)' = OnWayAt(s)
             /\ Arrived(s)' = Arrived(s) /\ ArrivedAt(s)' = ArrivedAt(s) /\ PullAt(s)' = PullAt(s)
  <2>1. got'[s] = got[s] /\ items'[s] = items[s] /\ (s \in op'.by <=> s \in op.by)
    BY <1>1, <1>2, <1>3, <1>4
  <2> QED
    BY <1>1, <1>2, <2>1, LinkSame
<1>5. Unsent' = Unsent /\ SendAt' = SendAt
  <2>1. Unsent' = Unsent
    BY <1>1, <1>2 DEF Unsent
  <2> QED
    BY <1>1, <2>1 DEF SendAt
<1>6. OnWay(r) = op.meta /\ OnWay(r)' = <<>> /\ Arrived(r) = <<>> /\ Arrived(r)' = op.meta
  BY <1>1, <1>2, <1>3 DEF OnWay, Arrived
<1>7. OnWayAt(r)' = SendAt /\ Linked(OnWay(r), SendAt)'
  BY <1>5, <1>6, LinkedEmpty DEF OnWayAt
<1>8. ArrivedAt(r) = OnWayAt(r) /\ ArrivedAt(r)' = OnWayAt(r)
  <2>1. ArrivedAt(r) = OnWayAt(r)
    BY <1>6, LinkedEmpty DEF ArrivedAt
  <2>2. ArrivedAt(r)' = Start(op.meta, SendAt) /\ OnWayAt(r) = Start(op.meta, SendAt)
    BY <1>6, <1>7 DEF ArrivedAt, OnWayAt
  <2> QED
    BY <2>1, <2>2
<1>9. Linked(Arrived(r), OnWayAt(r))'
  BY <1>6, <1>7 DEF LinkInv
<1>10. PullAt(r)' = PullAt(r) /\ Linked(items[r], ArrivedAt(r))'
  BY <1>1, <1>8 DEF PullAt, LinkInv
<1>11. ASSUME NEW s \in Receivers
       PROVE  /\ PullAt(s)' = PullAt(s) /\ Linked(OnWay(s), SendAt)'
              /\ Linked(Arrived(s), OnWayAt(s))' /\ Linked(items[s], ArrivedAt(s))'
  <2>1. CASE s = r
    BY <1>7, <1>9, <1>10, <2>1
  <2>2. CASE s # r
    BY <1>1, <1>4, <2>2 DEF LinkInv
  <2> QED
    BY <2>1, <2>2
<1>12. Linked(Unsent, gen)'
  BY <1>1, <1>5 DEF LinkInv
<1> QED
  BY <1>11, <1>12 DEF LinkInv

\* The bucket received becomes the one whose chunks are yielded.
LEMMA LinkNext ==
  ASSUME ShapeInv, LinkInv, NEW r \in Receivers, BufferInv(r), NextBucket(r)
  PROVE  LinkInv' /\ \A s \in Receivers : PullAt(s)' = PullAt(s)
<1>1. /\ items[r] = <<>> /\ got[r] # None /\ items' = [items EXCEPT ![r] = got[r].meta]
      /\ got' = [got EXCEPT ![r] = None] /\ UNCHANGED <<op, bucket, gen>>
  BY DEF NextBucket, trainer
<1>2. /\ items'[r] = got[r].meta /\ got'[r] = None
      /\ \A s \in Receivers \ {r} : got'[s] = got[s] /\ items'[s] = items[s]
  BY <1>1 DEF ShapeInv
<1>3. Arrived(r) = got[r].meta /\ Arrived(r)' = <<>>
  BY <1>1, <1>2 DEF Arrived
<1>4. OnWayAt(r)' = OnWayAt(r)
  BY <1>1 DEF OnWayAt, OnWay, SendAt, Unsent
<1>5. ArrivedAt(r)' = OnWayAt(r) /\ Linked(Arrived(r), OnWayAt(r))'
  BY <1>3, <1>4, LinkedEmpty DEF ArrivedAt
<1>6. PullAt(r) = ArrivedAt(r) /\ ArrivedAt(r) = Start(got[r].meta, OnWayAt(r))
  BY <1>1, <1>3, LinkedEmpty DEF PullAt, ArrivedAt
<1>7. PullAt(r)' = PullAt(r)
  BY <1>2, <1>5, <1>6 DEF PullAt
<1>8. Linked(items[r], ArrivedAt(r))'
  BY <1>2, <1>3, <1>5 DEF LinkInv
<1>9. /\ Unsent' = Unsent /\ SendAt' = SendAt /\ OnWay(r)' = OnWay(r)
  BY <1>1 DEF Unsent, SendAt, OnWay
<1>10. ASSUME NEW s \in Receivers \ {r}
       PROVE  /\ OnWay(s)' = OnWay(s) /\ OnWayAt(s)' = OnWayAt(s)
              /\ Arrived(s)' = Arrived(s) /\ ArrivedAt(s)' = ArrivedAt(s) /\ PullAt(s)' = PullAt(s)
  BY <1>1, <1>2, LinkSame
<1>11. LinkInv'
  BY <1>1, <1>2, <1>5, <1>8, <1>9, <1>10 DEF LinkInv
<1> QED
  BY <1>7, <1>10, <1>11

\* A chunk is pulled.
LEMMA LinkPull ==
  ASSUME ShapeInv, LinkInv, NEW r \in Receivers, BufferInv(r), items[r] # <<>>,
         items' = [items EXCEPT ![r] = Tail(@)], UNCHANGED <<op, bucket, gen, got>>
  PROVE  /\ LinkInv' /\ \A s \in Receivers \ {r} : PullAt(s)' = PullAt(s)
         /\ Head(items[r]) \in Chunks /\ PullAt(r) = Pos(Head(items[r]))
         /\ PullAt(r)' = After(Head(items[r]))
<1>1. /\ items'[r] = Tail(items[r])
      /\ \A s \in Receivers \ {r} : got'[s] = got[s] /\ items'[s] = items[s]
  BY DEF ShapeInv
<1>2. /\ Unsent' = Unsent /\ SendAt' = SendAt /\ OnWay(r)' = OnWay(r) /\ OnWayAt(r)' = OnWayAt(r)
      /\ Arrived(r)' = Arrived(r) /\ ArrivedAt(r)' = ArrivedAt(r)
  BY DEF Unsent, SendAt, OnWay, OnWayAt, Arrived, ArrivedAt
<1>3. Linked(items[r], ArrivedAt(r)) /\ items[r] \in Seq(Chunks)
  BY DEF LinkInv, BufferInv
<1>4. /\ Head(items[r]) = items[r][1] /\ items[r][1] \in Chunks
      /\ Start(items[r], ArrivedAt(r)) = Pos(items[r][1])
      /\ Linked(Tail(items[r]), ArrivedAt(r))
      /\ Start(Tail(items[r]), ArrivedAt(r)) = After(items[r][1])
  BY <1>3, LinkedTail
<1>5. PullAt(r) = Pos(items[r][1]) /\ PullAt(r)' = After(items[r][1]) /\ Linked(items[r], ArrivedAt(r))'
  BY <1>1, <1>2, <1>4 DEF PullAt
<1>6. ASSUME NEW s \in Receivers \ {r}
      PROVE  /\ OnWay(s)' = OnWay(s) /\ OnWayAt(s)' = OnWayAt(s)
             /\ Arrived(s)' = Arrived(s) /\ ArrivedAt(s)' = ArrivedAt(s) /\ PullAt(s)' = PullAt(s)
  BY <1>1, LinkSame
<1>7. LinkInv'
  BY <1>1, <1>2, <1>5, <1>6 DEF LinkInv
<1> QED
  BY <1>4, <1>5, <1>6, <1>7

------------------------------------------------------------------------------
(* What Holds through the steps of a receiver *)

LEMMA MoveFacts ==
  ASSUME NEW c \in Moves
  PROVE  /\ c.from \in {"buf0", "buf1"} /\ c.to \in {"merged", "ipc"} /\ c.to \in Areas
         /\ c.from # c.to /\ c.at \in Nat /\ c.pos \in Nat /\ c.size \in Nat /\ c.size >= 1
BY DEF Moves, Areas

\* Areas and pending copies that stay as they are.
LEMMA HoldsKept ==
  ASSUME NEW r, NEW w, NEW area, NEW off, NEW n, Holds(r, w, area, off, n),
         copies'[r] = copies[r], mem'[r][area] = mem[r][area],
         \A k \in DOMAIN copies[r] : mem'[r][copies[r][k].from] = mem[r][copies[r][k].from]
  PROVE  Holds(r, w, area, off, n)'
<1> DEFINE s == copies[r]
           t == copies'[r]
<1>1. t = s
  OBVIOUS
<1>2. ASSUME NEW j \in 0 .. n - 1
      PROVE  /\ \/ mem[r][area][off + j] = <<w, j>>
                \/ \E k \in DOMAIN s : Covers(s[k], area, off + j)
             /\ \A k \in DOMAIN s :
                   Covers(s[k], area, off + j) =>
                      mem[r][s[k].from][s[k].at + (off + j - s[k].pos)] = <<w, j>>
  BY DEF Holds
<1>3. \A k \in DOMAIN s : mem'[r][s[k].from] = mem[r][s[k].from]
  OBVIOUS
<1> HIDE DEF s, t
<1>4. ASSUME NEW j \in 0 .. n - 1
      PROVE  /\ \/ mem'[r][area][off + j] = <<w, j>>
                \/ \E k \in DOMAIN t : Covers(t[k], area, off + j)
             /\ \A k \in DOMAIN t :
                   Covers(t[k], area, off + j) =>
                      mem'[r][t[k].from][t[k].at + (off + j - t[k].pos)] = <<w, j>>
  BY <1>1, <1>2, <1>3
<1>5. off + n <= AreaSize(area)
  BY DEF Holds
<1> QED
  BY <1>4, <1>5 DEF Holds, Covers, t

\* A new copy writes elsewhere, or what belongs there.
LEMMA HoldsAppend ==
  ASSUME NEW r, NEW w, NEW area, NEW off, NEW n, Holds(r, w, area, off, n),
         copies[r] \in Seq(Moves), NEW c \in Moves,
         copies'[r] = Append(copies[r], c), mem' = mem,
         \A j \in 0 .. n - 1 :
            Covers(c, area, off + j) => mem[r][c.from][c.at + (off + j - c.pos)] = <<w, j>>
  PROVE  Holds(r, w, area, off, n)'
<1> DEFINE s == copies[r]
           t == copies'[r]
<1>1. /\ Len(s) \in Nat /\ DOMAIN s = 1 .. Len(s) /\ DOMAIN t = 1 .. Len(s) + 1
      /\ t[Len(s) + 1] = c /\ \A i \in 1 .. Len(s) : t[i] = s[i]
  BY AppendProperties, LenProperties
<1> HIDE DEF s, t
<1>2. ASSUME NEW j \in 0 .. n - 1
      PROVE  /\ \/ mem'[r][area][off + j] = <<w, j>>
                \/ \E k \in DOMAIN t : Covers(t[k], area, off + j)
             /\ \A k \in DOMAIN t :
                   Covers(t[k], area, off + j) =>
                      mem'[r][t[k].from][t[k].at + (off + j - t[k].pos)] = <<w, j>>
  <2>1. /\ \/ mem[r][area][off + j] = <<w, j>>
           \/ \E k \in DOMAIN s : Covers(s[k], area, off + j)
        /\ \A k \in DOMAIN s :
              Covers(s[k], area, off + j) =>
                 mem[r][s[k].from][s[k].at + (off + j - s[k].pos)] = <<w, j>>
    BY DEF Holds, s
  <2>2. \A k \in DOMAIN t : (k \in DOMAIN s /\ t[k] = s[k]) \/ t[k] = c
    BY <1>1
  <2>3. \A k \in DOMAIN s : k \in DOMAIN t /\ t[k] = s[k]
    BY <1>1
  <2> QED
    BY <2>1, <2>2, <2>3
<1> QED
  BY <1>2 DEF Holds, Covers, t

\* Bytes that are being written for the first time.
LEMMA HoldsNew ==
  ASSUME NEW r, NEW w, NEW area, NEW off \in Nat, NEW n \in Nat, NEW m \in Nat, m <= n,
         Holds(r, w, area, off, m), off + n <= AreaSize(area),
         copies[r] \in Seq(Moves), NEW c \in Moves,
         copies'[r] = Append(copies[r], c), mem' = mem,
         c.to = area, c.pos = off + m, c.size = n - m,
         \A i \in 0 .. c.size - 1 : mem[r][c.from][c.at + i] = <<w, m + i>>,
         \A k \in DOMAIN copies[r] :
            copies[r][k].to = area => copies[r][k].pos + copies[r][k].size <= off + m
  PROVE  Holds(r, w, area, off, n)'
<1> DEFINE s == copies[r]
           t == copies'[r]
<1>1. /\ Len(s) \in Nat /\ DOMAIN s = 1 .. Len(s) /\ DOMAIN t = 1 .. Len(s) + 1
      /\ t[Len(s) + 1] = c /\ \A i \in 1 .. Len(s) : t[i] = s[i]
      /\ \A i \in 1 .. Len(s) : s[i] \in Moves
  BY AppendProperties, LenProperties, ElementOfSeq
<1>0. /\ c.pos \in Nat /\ c.size \in Nat /\ c.at \in Nat
  BY MoveFacts
<1> HIDE DEF s, t
<1>2. ASSUME NEW j \in 0 .. n - 1
      PROVE  /\ \/ mem'[r][area][off + j] = <<w, j>>
                \/ \E k \in DOMAIN t : Covers(t[k], area, off + j)
             /\ \A k \in DOMAIN t :
                   Covers(t[k], area, off + j) =>
                      mem'[r][t[k].from][t[k].at + (off + j - t[k].pos)] = <<w, j>>
  <2>0. \A k \in DOMAIN t : (k \in DOMAIN s /\ t[k] = s[k]) \/ t[k] = c
    BY <1>1, SMTT(30)
  <2>1. CASE j < m
    <3>1. j \in 0 .. m - 1
      BY <2>1
    <3>2. /\ \/ mem[r][area][off + j] = <<w, j>>
             \/ \E k \in DOMAIN s : Covers(s[k], area, off + j)
          /\ \A k \in DOMAIN s :
                Covers(s[k], area, off + j) =>
                   mem[r][s[k].from][s[k].at + (off + j - s[k].pos)] = <<w, j>>
      BY <3>1 DEF Holds, s
    <3>3. ~Covers(c, area, off + j)
      BY <1>0, <2>1 DEF Covers
    <3>4. \A k \in DOMAIN s : k \in DOMAIN t /\ t[k] = s[k]
      BY <1>1
    <3> QED
      BY <2>0, <3>2, <3>3, <3>4
  <2>2. CASE ~(j < m)
    <3>1. Covers(c, area, off + j)
      BY <1>0, <2>2, SMTT(30) DEF Covers
    <3>2. \A k \in DOMAIN s : ~Covers(s[k], area, off + j)
      <4> SUFFICES ASSUME NEW k \in DOMAIN s PROVE ~Covers(s[k], area, off + j)
        OBVIOUS
      <4>1. s[k] \in Moves /\ (s[k].to = area => s[k].pos + s[k].size <= off + m)
        BY <1>1 DEF s
      <4>2. s[k].pos \in Nat /\ s[k].size \in Nat
        BY <4>1, MoveFacts
      <4> QED
        BY <2>2, <4>1, <4>2 DEF Covers
    <3>3. mem[r][c.from][c.at + (off + j - c.pos)] = <<w, j>>
      <4>1. PICK i \in 0 .. c.size - 1 : i = j - m
        BY <1>0, <2>2
      <4>2. off + j - c.pos = i /\ m + i = j
        BY <4>1
      <4> QED
        BY <4>1, <4>2
    <3>4. \E k \in DOMAIN t : t[k] = c
      BY <1>1, SMTT(30)
    <3> QED
      BY <2>0, <3>1, <3>2, <3>3, <3>4
  <2> QED
    BY <2>1, <2>2
<1> QED
  BY <1>2 DEF Holds, Covers, t

\* The GPU makes its next copy.
LEMMA HoldsCopy ==
  ASSUME ShapeInv, NEW r \in Receivers, NEW w, NEW area \in Areas, NEW off \in Nat, NEW n \in Nat,
         Holds(r, w, area, off, n), copies[r] \in Seq(Moves), Copy(r)
  PROVE  Holds(r, w, area, off, n)'
<1> DEFINE s == copies[r]
           t == copies'[r]
           c == Head(copies[r])
<1>1. /\ copies[r] # <<>> /\ t = Tail(s)
      /\ mem' = [mem EXCEPT ![r][c.to] = Write(@, c.pos, Read(mem[r][c.from], c.at, c.size))]
  BY DEF Copy, ShapeInv
<1>2. /\ Len(s) \in Nat /\ DOMAIN s = 1 .. Len(s) /\ DOMAIN t = 1 .. Len(s) - 1 /\ Len(s) > 0
      /\ c = s[1] /\ \A i \in 1 .. Len(s) - 1 : t[i] = s[i + 1]
      /\ \A i \in 1 .. Len(s) : s[i] \in Moves
  BY <1>1, HeadTailProperties, LenProperties, ElementOfSeq, EmptySeq
<1>3. c \in Moves /\ 1 \in DOMAIN s
  BY <1>2
<1>4. /\ c.from \in {"buf0", "buf1"} /\ c.to \in {"merged", "ipc"} /\ c.to \in Areas
      /\ c.at \in Nat /\ c.pos \in Nat /\ c.size \in Nat
  BY <1>3, MoveFacts
<1> HIDE DEF s, t, c
<1>5. /\ \A a \in Areas : a # c.to => mem'[r][a] = mem[r][a]
      /\ \A i \in 0 .. AreaSize(c.to) - 1 :
            mem'[r][c.to][i] = IF i \in c.pos .. c.pos + c.size - 1
                               THEN mem[r][c.from][c.at + (i - c.pos)] ELSE mem[r][c.to][i]
  <2> DEFINE d == Read(mem[r][c.from], c.at, c.size)
             x == Write(mem[r][c.to], c.pos, d)
  <2>1. DOMAIN mem = Receivers /\ DOMAIN mem[r] = Areas /\ DOMAIN mem[r][c.to] = 0 .. AreaSize(c.to) - 1
    BY <1>4 DEF ShapeInv
  <2>2. Len(d) = c.size /\ \A j \in 1 .. c.size : d[j] = mem[r][c.from][c.at + j - 1]
    BY <1>4 DEF Read
  <2> HIDE DEF d
  <2>3. \A i \in 0 .. AreaSize(c.to) - 1 :
           x[i] = IF i \in c.pos .. c.pos + c.size - 1 THEN d[i - c.pos + 1] ELSE mem[r][c.to][i]
    <3>1. PICK p \in Nat, m \in Nat : p = c.pos /\ m = c.size
      BY <1>4
    <3>2. Len(d) = m
      BY <2>2, <3>1
    <3> DEFINE g == mem[r][c.to]
    <3>3. x = Write(g, p, d)
      BY <3>1
    <3> HIDE DEF x, g
    <3>4. \A i \in DOMAIN g :
             Write(g, p, d)[i] = IF i \in p .. p + m - 1 THEN d[i - p + 1] ELSE g[i]
      BY <3>2 DEF Write
    <3> QED
      BY <2>1, <3>1, <3>3, <3>4 DEF g
  <2>4. mem' = [mem EXCEPT ![r][c.to] = x]
    BY <1>1 DEF d
  <2> HIDE DEF x
  <2>5. mem'[r][c.to] = x /\ \A a \in Areas : a # c.to => mem'[r][a] = mem[r][a]
    BY <1>4, <2>1, <2>4
  <2>6. ASSUME NEW i \in c.pos .. c.pos + c.size - 1
        PROVE  d[i - c.pos + 1] = mem[r][c.from][c.at + (i - c.pos)]
    <3>1. i - c.pos + 1 \in 1 .. c.size /\ c.at + (i - c.pos + 1) - 1 = c.at + (i - c.pos)
      BY <1>4
    <3> QED
      BY <2>2, <3>1
  <2> QED
    BY <2>3, <2>5, <2>6
<1>6. \A k \in DOMAIN t : mem'[r][t[k].from] = mem[r][t[k].from]
  <2> SUFFICES ASSUME NEW k \in DOMAIN t PROVE mem'[r][t[k].from] = mem[r][t[k].from]
    OBVIOUS
  <2>1. t[k] \in Moves
    BY <1>2
  <2>2. t[k].from \in Areas /\ t[k].from # c.to
    BY <1>4, <2>1, MoveFacts DEF Areas
  <2> QED
    BY <1>5, <2>2
<1>7. ASSUME NEW j \in 0 .. n - 1
      PROVE  /\ \/ mem'[r][area][off + j] = <<w, j>>
                \/ \E k \in DOMAIN t : Covers(t[k], area, off + j)
             /\ \A k \in DOMAIN t :
                   Covers(t[k], area, off + j) =>
                      mem'[r][t[k].from][t[k].at + (off + j - t[k].pos)] = <<w, j>>
  <2>1. /\ \/ mem[r][area][off + j] = <<w, j>>
           \/ \E k \in DOMAIN s : Covers(s[k], area, off + j)
        /\ \A k \in DOMAIN s :
              Covers(s[k], area, off + j) =>
                 mem[r][s[k].from][s[k].at + (off + j - s[k].pos)] = <<w, j>>
        /\ off + n <= AreaSize(area)
    BY DEF Holds, s
  <2>2. \A k \in DOMAIN t : k + 1 \in DOMAIN s /\ t[k] = s[k + 1]
    BY <1>2
  <2>3. \A k \in DOMAIN s : k # 1 => k - 1 \in DOMAIN t /\ t[k - 1] = s[k]
    BY <1>2
  <2>4. area = c.to => off + j \in 0 .. AreaSize(c.to) - 1
    <3>1. AreaSize("merged") \in Nat /\ AreaSize("ipc") \in Nat
      BY AreaSizes, SizeFacts
    <3>2. AreaSize(c.to) \in Nat
      BY <1>4, <3>1
    <3> QED
      BY <2>1, <3>2
  <2>7. ASSUME NEW k \in DOMAIN t, Covers(t[k], area, off + j)
        PROVE  mem'[r][t[k].from][t[k].at + (off + j - t[k].pos)] = <<w, j>>
    <3>1. PICK e \in DOMAIN s : t[k] = s[e]
      BY <2>2
    <3>2. mem[r][t[k].from][t[k].at + (off + j - t[k].pos)] = <<w, j>>
      BY <2>1, <2>7, <3>1
    <3>3. mem'[r][t[k].from] = mem[r][t[k].from]
      BY <1>6
    <3> QED
      BY <3>2, <3>3
  <2>5. CASE Covers(c, area, off + j)
    <3>1. mem'[r][area][off + j] = mem[r][c.from][c.at + (off + j - c.pos)]
      <4>1. area = c.to
        BY <2>5 DEF Covers
      <4>2. PICK i \in 0 .. AreaSize(c.to) - 1 : i = off + j
        BY <2>4, <4>1
      <4>3. i \in c.pos .. c.pos + c.size - 1
        BY <2>5, <4>2 DEF Covers
      <4>4. mem'[r][c.to][i] = mem[r][c.from][c.at + (i - c.pos)]
        BY <1>5, <4>3
      <4>5. i - c.pos = off + j - c.pos
        BY <1>4, <4>2
      <4> QED
        BY <4>1, <4>2, <4>4, <4>5
    <3>2. mem'[r][area][off + j] = <<w, j>>
      BY <1>2, <1>3, <2>1, <2>5, <3>1
    <3> QED
      BY <2>7, <3>2
  <2>6. CASE ~Covers(c, area, off + j)
    <3>1. mem'[r][area][off + j] = mem[r][area][off + j]
      <4>1. CASE area = c.to
        <5>1. PICK i \in 0 .. AreaSize(c.to) - 1 : i = off + j
          BY <2>4, <4>1
        <5>2. i \notin c.pos .. c.pos + c.size - 1
          BY <2>6, <4>1, <5>1 DEF Covers
        <5>3. mem'[r][c.to][i] = mem[r][c.to][i]
          BY <1>5, <5>2
        <5> QED
          BY <4>1, <5>1, <5>3
      <4>2. CASE area # c.to
        BY <1>5, <4>2
      <4> QED
        BY <4>1, <4>2
    <3>2. (\E k \in DOMAIN s : Covers(s[k], area, off + j))
             => \E k \in DOMAIN t : Covers(t[k], area, off + j)
      BY <1>2, <2>3, <2>6
    <3> QED
      BY <2>1, <2>7, <3>1, <3>2
  <2> QED
    BY <2>5, <2>6
<1> QED
  BY <1>7 DEF Holds, Covers, t

\* When no copy is pending, the bytes are there.
LEMMA HoldsDone ==
  ASSUME NEW r, NEW w \in Names, NEW area, NEW off \in Nat,
         Holds(r, w, area, off, Sizes[w]), copies[r] = <<>>
  PROVE  Read(mem[r][area], off, Sizes[w]) = Weights[w]
<1> DEFINE n == Sizes[w]
           a == mem[r][area]
<1>1. n \in Nat
  BY SizeFacts
<1>2. \A j \in 0 .. n - 1 : a[off + j] = <<w, j>>
  BY EmptySeq DEF Holds
<1>3. Weights[w] = [j \in 1 .. n |-> <<w, 0 + j - 1>>]
  BY DEF Weights, Content
<1>4. Read(a, off, n) = [j \in 1 .. n |-> a[off + j - 1]]
  BY DEF Read
<1> HIDE DEF n, a
<1>5. ASSUME NEW j \in 1 .. n PROVE a[off + j - 1] = <<w, 0 + j - 1>>
  <2>1. j - 1 \in 0 .. n - 1 /\ off + (j - 1) = off + j - 1 /\ 0 + j - 1 = j - 1
    BY <1>1
  <2> QED
    BY <1>2, <2>1
<1>6. Read(a, off, n) = Weights[w]
  BY <1>3, <1>4, <1>5
<1> QED
  BY <1>6 DEF n, a

\* What a receiver has in hand, in the IPC buffer, in a message or merged
\* remains held while Holds does.
LEMMA StillHeld ==
  ASSUME NEW r, UNCHANGED <<ipc[r], hand[r], message[r], merge[r]>>,
         IpcHeld(r), HandHeld(r), MessageHeld(r), MergeHeld(r),
         hand[r] # None => SendBuf(r)' = SendBuf(r),
         \A area \in {"ipc", "merged"} \union (IF hand[r] = None THEN {} ELSE {SendBuf(r)}) :
            \A w \in Names, off \in Nat, n \in Nat :
               Holds(r, w, area, off, n) => Holds(r, w, area, off, n)'
  PROVE  IpcHeld(r)' /\ HandHeld(r)' /\ MessageHeld(r)' /\ MergeHeld(r)'
<1>0. \A m \in Places : m.name \in Names /\ m.offset \in Nat /\ Sizes[m.name] \in Nat
  BY SizeFacts DEF Places
<1>1. IpcHeld(r)'
  <2>1. \A i \in DOMAIN ipc[r].meta :
           LET m == ipc[r].meta[i] IN Holds(r, m.name, "ipc", m.offset, Sizes[m.name])'
    <3> SUFFICES ASSUME NEW i \in DOMAIN ipc[r].meta
                 PROVE  LET m == ipc[r].meta[i] IN Holds(r, m.name, "ipc", m.offset, Sizes[m.name])'
      OBVIOUS
    <3>1. PICK m \in Places : m = ipc[r].meta[i]
      BY ElementOfSeq, LenProperties DEF IpcHeld
    <3>2. Holds(r, m.name, "ipc", m.offset, Sizes[m.name])
      BY <3>1 DEF IpcHeld
    <3>3. Holds(r, m.name, "ipc", m.offset, Sizes[m.name])'
      BY <1>0, <3>2
    <3> QED
      BY <3>1, <3>3
  <2> QED
    BY <2>1 DEF IpcHeld
<1>2. HandHeld(r)'
  <2> SUFFICES ASSUME hand[r] # None PROVE HandHeld(r)'
    BY DEF HandHeld
  <2>1. PICK m \in Places : m = hand[r]
    BY DEF HandHeld
  <2>2. Holds(r, m.name, m.area, m.offset, Sizes[m.name]) /\ m.area \in {"merged", SendBuf(r)}
    BY <2>1 DEF HandHeld
  <2>3. Holds(r, m.name, m.area, m.offset, Sizes[m.name])'
    BY <1>0, <2>2
  <2> QED
    BY <2>1, <2>3 DEF HandHeld
<1>3. MessageHeld(r)'
  <2>0. Message(r)' = Message(r)
    BY DEF Message
  <2>1. \A i \in DOMAIN Message(r) :
           LET m == Message(r)[i] IN Holds(r, m.name, m.area, m.offset, Sizes[m.name])'
    <3> SUFFICES ASSUME NEW i \in DOMAIN Message(r)
                 PROVE  LET m == Message(r)[i] IN Holds(r, m.name, m.area, m.offset, Sizes[m.name])'
      OBVIOUS
    <3>1. PICK m \in Places : m = Message(r)[i]
      BY ElementOfSeq, LenProperties DEF MessageHeld
    <3>2. Holds(r, m.name, m.area, m.offset, Sizes[m.name]) /\ m.area \in {"ipc", "merged"}
      BY <3>1 DEF MessageHeld
    <3>3. Holds(r, m.name, m.area, m.offset, Sizes[m.name])'
      BY <1>0, <3>2
    <3> QED
      BY <2>0, <3>1, <3>3
  <2> QED
    BY <2>0, <2>1 DEF MessageHeld
<1>4. MergeHeld(r)'
  <2> SUFFICES ASSUME merge[r] # None PROVE MergeHeld(r)'
    BY DEF MergeHeld
  <2>1. PICK w \in Names, n \in Nat : merge[r] = <<w, n>>
    BY DEF MergeHeld
  <2>2. Holds(r, w, "merged", 0, n)
    BY <2>1 DEF MergeHeld
  <2>3. Holds(r, w, "merged", 0, n)'
    BY <2>2
  <2> QED
    BY <2>1, <2>3 DEF MergeHeld
<1> QED
  BY <1>1, <1>2, <1>3, <1>4

\* No weight moves on.
LEMMA OrderKept ==
  ASSUME NEW s, OrderInv(s), UNCHANGED <<loaded[s], sent[s], hand[s]>>, PullAt(s)' = PullAt(s),
         Message(s)' = Message(s), Pending(s)' = Pending(s)
  PROVE  OrderInv(s)'
<1>1. PICK a, b, d \in 0 .. Len(Sizes) : Ordered(s, a, b, d)
  BY DEF OrderInv
<1>2. Ordered(s, a, b, d)'
  BY <1>1 DEF Ordered
<1> QED
  BY <1>2 DEF OrderInv

\* Another receiver's step, or the trainer's.
LEMMA Untouched ==
  ASSUME NEW s, ReceiverInv(s), PullAt(s)' = PullAt(s),
         UNCHANGED <<mem[s], copies[s], into[s], got[s], items[s], merge[s], hand[s], ipc[s],
                     message[s], sent[s], loaded[s]>>
  PROVE  ReceiverInv(s)'
<1>1. SendBuf(s)' = SendBuf(s) /\ Message(s)' = Message(s) /\ Pending(s)' = Pending(s)
  BY DEF SendBuf, Message, Pending
<1>2. BufferInv(s)'
  BY <1>1 DEF ReceiverInv, BufferInv
<1>3. MergeInv(s)'
  BY DEF ReceiverInv, MergeInv
<1>4. CopyInv(s)'
  BY <1>1 DEF ReceiverInv, CopyInv
<1>5. ASSUME NEW area, NEW w, NEW off, NEW n, Holds(s, w, area, off, n)
      PROVE  Holds(s, w, area, off, n)'
  BY <1>5, HoldsKept
<1>6. IpcHeld(s)' /\ HandHeld(s)' /\ MessageHeld(s)' /\ MergeHeld(s)'
  <2>1. UNCHANGED <<ipc[s], hand[s], message[s], merge[s]>>
    OBVIOUS
  <2>2. IpcHeld(s) /\ HandHeld(s) /\ MessageHeld(s) /\ MergeHeld(s)
    BY DEF ReceiverInv
  <2> QED
    BY <1>1, <1>5, <2>1, <2>2, StillHeld
<1>7. OrderInv(s)'
  BY <1>1, OrderKept DEF ReceiverInv
<1> QED
  BY <1>2, <1>3, <1>4, <1>6, <1>7 DEF ReceiverInv

\* A step of one receiver changes no other.
LEMMA Separate ==
  ASSUME ShapeInv, NEW r \in Receivers, NEW s \in Receivers \ {r},
         Receive(r) \/ Pull(r) \/ Forward(r) \/ Copy(r) \/ Load(r)
  PROVE  UNCHANGED <<mem[s], copies[s], into[s], got[s], items[s], merge[s], hand[s], ipc[s],
                     message[s], sent[s], loaded[s]>>
<1>1. CASE Receive(r)
  BY <1>1 DEF Receive, ShapeInv, merging, sender
<1>2. CASE Pull(r)
  BY <1>2 DEF Pull, NextBucket, PullWhole, PullChunk, ShapeInv, merging, sender
<1>3. CASE Forward(r)
  BY <1>3 DEF Forward, PutWeight, SendBucket, SendLarge, SendLast, ShapeInv, merging, sender
<1>4. CASE Copy(r)
  BY <1>4 DEF Copy, ShapeInv, merging, sender
<1>5. CASE Load(r)
  BY <1>5 DEF Load, ShapeInv, merging, sender
<1> QED
  BY <1>1, <1>2, <1>3, <1>4, <1>5

\* The shape of the state through every step.
LEMMA ShapeKept ==
  ASSUME ShapeInv, SendInv, OpInv, [Next]_vars
  PROVE  ShapeInv'
<1> DEFINE Doms == /\ DOMAIN copies = Receivers /\ DOMAIN into = Receivers
                   /\ DOMAIN got = Receivers /\ DOMAIN items = Receivers /\ DOMAIN last = Receivers
                   /\ DOMAIN merge = Receivers /\ DOMAIN hand = Receivers /\ DOMAIN ipc = Receivers
                   /\ DOMAIN message = Receivers /\ DOMAIN sent = Receivers /\ DOMAIN loaded = Receivers
                   /\ loaded = [r \in Receivers |-> loaded[r]]
           Mems == /\ DOMAIN mem = Receivers
                   /\ \A r \in Receivers :
                         /\ DOMAIN mem[r] = Areas
                         /\ \A a \in Areas : DOMAIN mem[r][a] = 0 .. AreaSize(a) - 1
<1>0. ShapeInv <=> Doms /\ Mems
  BY DEF ShapeInv
<1>1. Doms'
  <2>0. Doms
    BY <1>0
  <2>1. CASE Send
    BY <2>0, <2>1 DEF Send, Fill, Flush, FlushLast, merging, sender
  <2>2. ASSUME NEW r \in Receivers, Receive(r) PROVE Doms'
    BY <2>0, <2>2 DEF Receive, merging, sender
  <2>3. ASSUME NEW r \in Receivers, Pull(r) PROVE Doms'
    BY <2>0, <2>3 DEF Pull, NextBucket, PullWhole, PullChunk, sender
  <2>4. ASSUME NEW r \in Receivers, Forward(r) PROVE Doms'
    BY <2>0, <2>4 DEF Forward, PutWeight, SendBucket, SendLarge, SendLast, merging
  <2>5. ASSUME NEW r \in Receivers, Copy(r) PROVE Doms'
    BY <2>0, <2>5 DEF Copy, merging, sender
  <2>6. ASSUME NEW r \in Receivers, Load(r) PROVE Doms'
    BY <2>0, <2>6 DEF Load, merging
  <2>7. CASE UNCHANGED vars
    BY <2>0, <2>7 DEF vars, merging, sender
  <2> QED
    BY <2>1, <2>2, <2>3, <2>4, <2>5, <2>6, <2>7 DEF Next
<1>2. Mems'
  <2>0. Mems
    BY <1>0
  <2>1. ASSUME NEW r \in Receivers, NEW b, mem' = [mem EXCEPT ![r] = [mem[r] EXCEPT ![b] = mem'[r][b]]],
               b \in Areas => DOMAIN mem'[r][b] = 0 .. AreaSize(b) - 1
        PROVE  Mems'
    <3>1. DOMAIN mem' = Receivers /\ \A s \in Receivers \ {r} : mem'[s] = mem[s]
      BY <2>0, <2>1
    <3>2. mem'[r] = [mem[r] EXCEPT ![b] = mem'[r][b]]
      BY <2>0, <2>1
    <3>3. DOMAIN mem'[r] = Areas /\ \A a \in Areas : a # b => mem'[r][a] = mem[r][a]
      BY <2>0, <3>2
    <3>4. ASSUME NEW a \in Areas PROVE DOMAIN mem'[r][a] = 0 .. AreaSize(a) - 1
      BY <2>0, <2>1, <3>3
    <3> QED
      BY <2>0, <3>1, <3>3, <3>4
  <2>2. ASSUME NEW r \in Receivers, Receive(r) PROVE Mems'
    <3>1. op # None /\ mem' = [mem EXCEPT ![r][Buf(into[r])] = sendBufs[op.buf]]
      BY <2>2 DEF Receive
    <3>2. op.buf \in {0, 1}
      BY <3>1, OpFacts DEF OpInv
    <3>3. DOMAIN sendBufs[op.buf] = 0 .. BucketSize - 1
      BY <3>2 DEF SendInv
    <3>4. Buf(into[r]) \in Areas /\ AreaSize(Buf(into[r])) = BucketSize
      BY DEF Buf, Areas, AreaSize
    <3>5. DOMAIN mem = Receivers /\ DOMAIN mem[r] = Areas
      BY <2>0
    <3>6. mem'[r][Buf(into[r])] = sendBufs[op.buf]
      BY <3>1, <3>4, <3>5
    <3>7. mem' = [mem EXCEPT ![r] = [mem[r] EXCEPT ![Buf(into[r])] = mem'[r][Buf(into[r])]]]
      BY <3>1, <3>5, <3>6
    <3> HIDE DEF Mems
    <3> QED
      BY <2>1, <3>3, <3>4, <3>6, <3>7
  <2>3. ASSUME NEW r \in Receivers, Copy(r) PROVE Mems'
    <3>1. PICK c : c = Head(copies[r])
      OBVIOUS
    <3>2. PICK x : x = Write(mem[r][c.to], c.pos, Read(mem[r][c.from], c.at, c.size))
      OBVIOUS
    <3>3. mem' = [mem EXCEPT ![r][c.to] = x]
      BY <2>3, <3>1, <3>2 DEF Copy
    <3>4. DOMAIN x = DOMAIN mem[r][c.to]
      BY <3>2 DEF Write
    <3>5. DOMAIN mem = Receivers /\ DOMAIN mem[r] = Areas
      BY <2>0
    <3>6. c.to \in Areas => mem'[r][c.to] = x /\ DOMAIN x = 0 .. AreaSize(c.to) - 1
      BY <2>0, <3>3, <3>4, <3>5
    <3>7. mem' = [mem EXCEPT ![r] = [mem[r] EXCEPT ![c.to] = mem'[r][c.to]]]
      BY <3>3, <3>5, <3>6
    <3> HIDE DEF Mems
    <3> QED
      BY <2>1, <3>6, <3>7
  <2>4. CASE UNCHANGED mem
    BY <2>0, <2>4
  <2>5. ASSUME NEW r \in Receivers, Pull(r) \/ Forward(r) \/ Load(r) PROVE UNCHANGED mem
    BY <2>5 DEF Pull, NextBucket, PullWhole, PullChunk, Forward, PutWeight, SendBucket, SendLarge,
                SendLast, Load
  <2>6. CASE Send
    BY <2>4, <2>6 DEF Send, Fill, Flush, FlushLast
  <2> HIDE DEF Mems
  <2> QED
    BY <2>2, <2>3, <2>4, <2>5, <2>6 DEF Next, vars
<1> QED
  BY <1>0, <1>1, <1>2 DEF ShapeInv

------------------------------------------------------------------------------
(* The steps of a receiver, one by one *)

LEMMA Slots ==
  ASSUME NEW b \in {0, 1}
  PROVE  /\ 1 - b \in {0, 1} /\ 1 - (1 - b) = b
         /\ Buf(b) \in {"buf0", "buf1"} /\ Buf(1 - b) \in {"buf0", "buf1"} /\ Buf(1 - b) # Buf(b)
         /\ Buf(b) \in Areas /\ Buf(1 - b) \in Areas
BY DEF Buf, Areas

\* No copy goes to a bucket's buffer.
LEMMA BuffersFree ==
  ASSUME NEW r, CopyInv(r), NEW k \in DOMAIN copies[r]
  PROVE  /\ copies[r][k] \in Moves /\ copies[r][k].from = SendBuf(r)
         /\ copies[r][k].to \in {"merged", "ipc"}
BY ElementOfSeq, LenProperties, MoveFacts DEF CopyInv

LEMMA NoCopies ==
  ASSUME NEW r, copies'[r] = <<>>
  PROVE  CopyInv(r)'
<1>1. <<>> \in Seq(Moves) /\ DOMAIN <<>> = {}
  BY EmptySeq
<1> QED
  BY <1>1 DEF CopyInv

LEMMA ReceiveKept ==
  ASSUME ShapeInv, SendInv, OpInv, NEW r \in Receivers, ReceiverInv(r), Receive(r),
         PullAt(r)' = PullAt(r)
  PROVE  ReceiverInv(r)'
<1>1. /\ op # None /\ mem' = [mem EXCEPT ![r][Buf(into[r])] = sendBufs[op.buf]]
      /\ got' = [got EXCEPT ![r] = [meta |-> op.meta, last |-> op.last]]
      /\ UNCHANGED <<copies, into, items, merge, hand, ipc, message, sent, loaded>>
  BY DEF Receive, merging, sender
<1>2. /\ op \in Ops /\ op.meta \in Seq(Chunks)
      /\ \A i \in DOMAIN op.meta : Intact(sendBufs[op.buf], op.meta[i])
  BY <1>1, OpFacts DEF OpInv
<1>3. /\ into[r] \in {0, 1} /\ items[r] \in Seq(Chunks)
      /\ \A i \in DOMAIN items[r] : Intact(mem[r][SendBuf(r)], items[r][i])
  BY DEF ReceiverInv, BufferInv
<1>4. /\ SendBuf(r) \in {"buf0", "buf1"} /\ SendBuf(r) # Buf(into[r]) /\ Buf(into[r]) \in Areas
      /\ Buf(into[r]) \notin {"merged", "ipc"}
  BY <1>3, Slots DEF SendBuf
<1>5. /\ mem'[r][Buf(into[r])] = sendBufs[op.buf]
      /\ \A a \in Areas : a # Buf(into[r]) => mem'[r][a] = mem[r][a]
  <2>1. DOMAIN mem = Receivers /\ DOMAIN mem[r] = Areas
    BY DEF ShapeInv
  <2> QED
    BY <1>1, <1>4, <2>1
<1>6. got'[r] = [meta |-> op.meta, last |-> op.last] /\ got'[r] \in Gots /\ got'[r].meta = op.meta
  BY <1>1, <1>2, GotFacts DEF ShapeInv
<1>7. SendBuf(r)' = SendBuf(r) /\ Message(r)' = Message(r) /\ Pending(r)' = Pending(r)
  BY <1>1 DEF SendBuf, Message, Pending
<1>8. BufferInv(r)'
  <2>1. mem'[r][SendBuf(r)] = mem[r][SendBuf(r)]
    BY <1>4, <1>5 DEF Areas
  <2>2. \A i \in DOMAIN items'[r] : Intact(mem'[r][SendBuf(r)'], items'[r][i])
    BY <1>1, <1>3, <1>7, <2>1
  <2>3. \A i \in DOMAIN got'[r].meta : Intact(mem'[r][Buf(into'[r])], got'[r].meta[i])
    BY <1>1, <1>2, <1>5, <1>6
  <2> QED
    BY <1>1, <1>3, <1>6, <2>2, <2>3 DEF BufferInv
<1>9. MergeInv(r)'
  BY <1>1 DEF ReceiverInv, MergeInv
<1>10. CopyInv(r)'
  BY <1>1, <1>7 DEF ReceiverInv, CopyInv
<1>11. ASSUME NEW area \in {"ipc", "merged", SendBuf(r)}, NEW w, NEW off, NEW n, Holds(r, w, area, off, n)
       PROVE  Holds(r, w, area, off, n)'
  <2>1. mem'[r][area] = mem[r][area]
    BY <1>4, <1>5 DEF Areas
  <2>2. \A k \in DOMAIN copies[r] : mem'[r][copies[r][k].from] = mem[r][copies[r][k].from]
    <3> SUFFICES ASSUME NEW k \in DOMAIN copies[r]
                 PROVE  mem'[r][copies[r][k].from] = mem[r][copies[r][k].from]
      OBVIOUS
    <3>1. copies[r][k].from = SendBuf(r)
      BY BuffersFree DEF ReceiverInv
    <3> QED
      BY <1>4, <1>5, <3>1 DEF Areas
  <2>3. copies'[r] = copies[r]
    BY <1>1
  <2> QED
    BY <1>11, <2>1, <2>2, <2>3, HoldsKept
<1>12. IpcHeld(r)' /\ HandHeld(r)' /\ MessageHeld(r)' /\ MergeHeld(r)'
  <2>1. UNCHANGED <<ipc[r], hand[r], message[r], merge[r]>>
    BY <1>1
  <2>2. IpcHeld(r) /\ HandHeld(r) /\ MessageHeld(r) /\ MergeHeld(r)
    BY DEF ReceiverInv
  <2> QED
    BY <1>7, <1>11, <2>1, <2>2, StillHeld
<1>13. OrderInv(r)'
  <2>1. UNCHANGED <<loaded[r], sent[r], hand[r]>>
    BY <1>1
  <2> QED
    BY <1>7, <2>1, OrderKept DEF ReceiverInv
<1> QED
  BY <1>8, <1>9, <1>10, <1>12, <1>13 DEF ReceiverInv

LEMMA NextBucketKept ==
  ASSUME ShapeInv, NEW r \in Receivers, ReceiverInv(r), NextBucket(r), PullAt(r)' = PullAt(r)
  PROVE  ReceiverInv(r)'
<1>1. /\ hand[r] = None /\ got[r] # None /\ copies[r] = <<>>
      /\ into' = [into EXCEPT ![r] = 1 - @] /\ items' = [items EXCEPT ![r] = got[r].meta]
      /\ got' = [got EXCEPT ![r] = None]
      /\ UNCHANGED <<mem, copies, merge, hand, ipc, message, sent, loaded>>
  BY DEF NextBucket, Pulls, sender
<1>2. into'[r] = 1 - into[r] /\ items'[r] = got[r].meta /\ got'[r] = None
  BY <1>1 DEF ShapeInv
<1>3. /\ into[r] \in {0, 1} /\ got[r].meta \in Seq(Chunks)
      /\ \A i \in DOMAIN got[r].meta : Intact(mem[r][Buf(into[r])], got[r].meta[i])
  BY <1>1, GotFacts DEF ReceiverInv, BufferInv
<1>4. Message(r)' = Message(r) /\ Pending(r)' = Pending(r)
  BY <1>1 DEF Message, Pending
<1>5. BufferInv(r)'
  <2>1. SendBuf(r)' = Buf(into[r]) /\ into'[r] \in {0, 1}
    BY <1>2, <1>3, Slots DEF SendBuf
  <2> QED
    BY <1>1, <1>2, <1>3, <2>1 DEF BufferInv
<1>6. MergeInv(r)'
  BY <1>1 DEF ReceiverInv, MergeInv
<1>7. CopyInv(r)'
  BY <1>1, NoCopies
<1>8. ASSUME NEW area, NEW w, NEW off, NEW n, Holds(r, w, area, off, n)
      PROVE  Holds(r, w, area, off, n)'
  BY <1>1, <1>8, HoldsKept
<1>9. IpcHeld(r)' /\ HandHeld(r)' /\ MessageHeld(r)' /\ MergeHeld(r)'
  <2>1. UNCHANGED <<ipc[r], hand[r], message[r], merge[r]>>
    BY <1>1
  <2>2. IpcHeld(r) /\ HandHeld(r) /\ MessageHeld(r) /\ MergeHeld(r)
    BY DEF ReceiverInv
  <2> QED
    BY <1>1, <1>8, <2>1, <2>2, StillHeld
<1>10. OrderInv(r)'
  <2>1. UNCHANGED <<loaded[r], sent[r], hand[r]>>
    BY <1>1
  <2> QED
    BY <1>4, <2>1, OrderKept DEF ReceiverInv
<1> QED
  BY <1>5, <1>6, <1>7, <1>9, <1>10 DEF ReceiverInv

\* A chunk that is pulled lies intact in the buffer.
LEMMA PullFacts ==
  ASSUME ShapeInv, LinkInv, NEW r \in Receivers, ReceiverInv(r), PullWhole(r) \/ PullChunk(r)
  PROVE  /\ LinkInv' /\ BufferInv(r)' /\ \A s \in Receivers \ {r} : PullAt(s)' = PullAt(s)
         /\ Head(items[r]) \in Chunks /\ Intact(mem[r][SendBuf(r)], Head(items[r]))
         /\ PullAt(r) = Pos(Head(items[r])) /\ PullAt(r)' = After(Head(items[r]))
         /\ hand[r] = None /\ message[r] = None /\ ~sent[r]
<1>1. /\ items[r] # <<>> /\ items' = [items EXCEPT ![r] = Tail(@)]
      /\ UNCHANGED <<op, bucket, gen, got, into, mem>>
      /\ hand[r] = None /\ message[r] = None /\ ~sent[r]
  BY DEF PullWhole, PullChunk, trainer, Pulls
<1>2. BufferInv(r)
  BY DEF ReceiverInv
<1>3. /\ LinkInv' /\ \A s \in Receivers \ {r} : PullAt(s)' = PullAt(s)
      /\ Head(items[r]) \in Chunks /\ PullAt(r) = Pos(Head(items[r]))
      /\ PullAt(r)' = After(Head(items[r]))
  BY <1>1, <1>2, LinkPull
<1>4. items[r] \in Seq(Chunks) /\ Linked(items[r], ArrivedAt(r))
  BY <1>2 DEF BufferInv, LinkInv
<1>5. /\ Head(items[r]) = items[r][1] /\ 1 \in DOMAIN items[r]
      /\ Tail(items[r]) \in Seq(Chunks)
      /\ \A i \in DOMAIN Tail(items[r]) : i + 1 \in DOMAIN items[r] /\ Tail(items[r])[i] = items[r][i + 1]
  BY <1>1, <1>4, LinkedTail
<1>6. items'[r] = Tail(items[r]) /\ SendBuf(r)' = SendBuf(r)
  BY <1>1 DEF ShapeInv, SendBuf
<1>7. \A i \in DOMAIN items[r] : Intact(mem[r][SendBuf(r)], items[r][i])
  BY <1>2 DEF BufferInv
<1>8. \A i \in DOMAIN items'[r] : Intact(mem'[r][SendBuf(r)'], items'[r][i])
  BY <1>1, <1>5, <1>6, <1>7
<1>9. BufferInv(r)'
  BY <1>1, <1>2, <1>5, <1>6, <1>8 DEF BufferInv
<1> QED
  BY <1>1, <1>3, <1>5, <1>7, <1>9

\* While no weight is merged, in hand or on its way, nothing is copied there.
LEMMA NoneMerged ==
  ASSUME NEW r, CopyInv(r), merge[r] = None, hand[r] # None => hand[r].area # "merged",
         message[r] = None, NEW k \in DOMAIN copies[r]
  PROVE  copies[r][k].to = "ipc"
<1>1. copies[r][k].to \in {"merged", "ipc"}
  BY BuffersFree
<1>2. copies[r][k].to = "merged" =>
         IF merge[r] # None THEN copies[r][k].pos + copies[r][k].size <= merge[r][2]
         ELSE \/ hand[r] # None /\ hand[r].area = "merged"
              \/ message[r] # None
  BY DEF CopyInv
<1> QED
  BY <1>1, <1>2

\* A place is a record, and not None.
LEMMA PlaceFacts ==
  ASSUME NEW w \in Names, NEW area \in Areas, NEW off \in Nat
  PROVE  LET m == [name |-> w, area |-> area, offset |-> off]
         IN  m \in Places /\ m # None
BY DEF Places, None

LEMMA PullWholeKept ==
  ASSUME ShapeInv, LinkInv, NEW r \in Receivers, ReceiverInv(r), PullWhole(r)
  PROVE  ReceiverInv(r)'
<1>1. PICK c \in Chunks :
         /\ c = Head(items[r]) /\ Intact(mem[r][SendBuf(r)], c)
         /\ PullAt(r) = Pos(c) /\ PullAt(r)' = After(c)
  BY PullFacts
<1>2. /\ hand[r] = None /\ message[r] = None /\ ~sent[r] /\ BufferInv(r)'
  BY PullFacts
<1>3. /\ Sizes[c.name] <= BucketSize
      /\ hand' = [hand EXCEPT ![r] = [name |-> c.name, area |-> SendBuf(r), offset |-> c.offset]]
      /\ UNCHANGED <<mem, copies, into, merge, ipc, message, sent, loaded>>
  BY <1>1 DEF PullWhole
<1>4. /\ c.name \in Names /\ c.chunk_offset = 0 /\ c.size = Sizes[c.name] /\ c.offset \in Nat
      /\ c.offset + Sizes[c.name] <= BucketSize /\ Sizes[c.name] \in Nat /\ c.name \in Nat
  BY <1>3, ChunkFacts, SizeFacts
<1>5. PullAt(r) = <<c.name, 0>> /\ PullAt(r)' = <<c.name + 1, 0>>
  BY <1>1, <1>4 DEF Pos, After
<1>6. SendBuf(r) \in {"buf0", "buf1"} /\ SendBuf(r) \in Areas /\ AreaSize(SendBuf(r)) = BucketSize
  <2>1. into[r] \in {0, 1}
    BY DEF ReceiverInv, BufferInv
  <2> QED
    BY <2>1, Slots, AreaSizes DEF SendBuf
<1>7. PICK h \in Places : /\ h = [name |-> c.name, area |-> SendBuf(r), offset |-> c.offset]
                          /\ h # None
  BY <1>4, <1>6, PlaceFacts
<1>8. hand'[r] = h /\ h.name = c.name /\ h.area = SendBuf(r) /\ h.offset = c.offset
  BY <1>3, <1>7 DEF ShapeInv
<1>9. SendBuf(r)' = SendBuf(r) /\ Message(r)' = Message(r) /\ Pending(r)' = Pending(r)
  BY <1>3 DEF SendBuf, Message, Pending
<1>10. merge[r] = None /\ MergeInv(r)'
  BY <1>3, <1>5 DEF ReceiverInv, MergeInv
<1>11. CopyInv(r)'
  <2>1. CopyInv(r)
    BY DEF ReceiverInv
  <2>2. \A k \in DOMAIN copies[r] : copies[r][k].to = "ipc"
    BY <1>2, <1>10, <2>1, NoneMerged
  <2> QED
    BY <1>3, <1>9, <2>1, <2>2 DEF CopyInv
<1>12. ASSUME NEW area, NEW w, NEW off, NEW n, Holds(r, w, area, off, n)
       PROVE  Holds(r, w, area, off, n)'
  BY <1>3, <1>12, HoldsKept
<1>13. IpcHeld(r)'
  BY <1>3, <1>12 DEF ReceiverInv, IpcHeld
<1>14. MessageHeld(r)' /\ MergeHeld(r)'
  BY <1>2, <1>3, <1>9, <1>10, EmptySeq DEF MessageHeld, MergeHeld, Message
<1>15. Holds(r, c.name, SendBuf(r), c.offset, Sizes[c.name])
  <2>1. \A j \in 0 .. c.size - 1 : mem[r][SendBuf(r)][c.offset + j] = <<c.name, c.chunk_offset + j>>
    BY <1>1, IntactBytes
  <2>2. \A j \in 0 .. Sizes[c.name] - 1 : mem[r][SendBuf(r)][c.offset + j] = <<c.name, j>>
    <3>1. \A j \in 0 .. c.size - 1 : c.chunk_offset + j = j
      BY <1>4
    <3> QED
      BY <1>4, <2>1, <3>1
  <2>3. \A k \in DOMAIN copies[r] : copies[r][k].to # SendBuf(r)
    BY <1>6, BuffersFree DEF ReceiverInv
  <2>4. \A k \in DOMAIN copies[r] : \A i : ~Covers(copies[r][k], SendBuf(r), i)
    BY <2>3 DEF Covers
  <2>5. c.offset + Sizes[c.name] <= AreaSize(SendBuf(r))
    BY <1>4, <1>6
  <2> QED
    BY <2>2, <2>4, <2>5 DEF Holds
<1>16. HandHeld(r)'
  <2>0. PICK a : a = SendBuf(r)
    OBVIOUS
  <2>1. Holds(r, c.name, a, c.offset, Sizes[c.name])'
    BY <1>12, <1>15, <2>0
  <2>2. Holds(r, hand[r].name, hand[r].area, hand[r].offset, Sizes[hand[r].name])'
    BY <1>8, <2>0, <2>1
  <2> QED
    BY <1>3, <1>4, <1>7, <1>8, <1>9, <2>2 DEF HandHeld
<1>17. OrderInv(r)'
  <2>1. PICK a, b, d \in 0 .. Len(Sizes) : Ordered(r, a, b, d)
    BY DEF ReceiverInv, OrderInv
  <2>2. PullAt(r)'[1] = d + 2 /\ h.name = d + 1
    BY <1>2, <1>4, <1>5, <1>8, <2>1 DEF Ordered
  <2>3. Ordered(r, a, b, d)'
    BY <1>2, <1>3, <1>7, <1>8, <1>9, <2>1, <2>2 DEF Ordered
  <2> QED
    BY <2>3 DEF OrderInv
<1> QED
  BY <1>2, <1>10, <1>11, <1>13, <1>14, <1>16, <1>17 DEF ReceiverInv

LEMMA PullChunkKept ==
  ASSUME ShapeInv, LinkInv, NEW r \in Receivers, ReceiverInv(r), PullChunk(r)
  PROVE  ReceiverInv(r)'
<1>1. PICK c \in Chunks :
         /\ c = Head(items[r]) /\ Intact(mem[r][SendBuf(r)], c)
         /\ PullAt(r) = Pos(c) /\ PullAt(r)' = After(c)
  BY PullFacts
<1>2. /\ hand[r] = None /\ message[r] = None /\ ~sent[r] /\ BufferInv(r)'
  BY PullFacts
<1> DEFINE w == c.name
           from == SendBuf(r)
           v == [from |-> from, at |-> c.offset, to |-> "merged", pos |-> c.chunk_offset, size |-> c.size]
<1>3. /\ Sizes[w] > BucketSize
      /\ copies' = [copies EXCEPT ![r] = Append(@, v)]
      /\ IF c.chunk_offset + c.size = Sizes[w]
         THEN /\ merge' = [merge EXCEPT ![r] = None]
              /\ hand' = [hand EXCEPT ![r] = [name |-> w, area |-> "merged", offset |-> 0]]
         ELSE /\ merge' = [merge EXCEPT ![r] = <<w, c.chunk_offset + c.size>>]
              /\ UNCHANGED hand
      /\ UNCHANGED <<mem, into, ipc, message, sent, loaded>>
  BY <1>1 DEF PullChunk
<1>4. PICK at \in Nat, size \in Nat, m \in Nat, end \in Nat :
         /\ at = c.offset /\ size = c.size /\ m = c.chunk_offset /\ end = m + size
         /\ size >= 1 /\ end <= Sizes[w] /\ w \in Names /\ Sizes[w] \in Nat /\ w \in Nat
  BY ChunkFacts, SizeFacts
<1>5. from \in {"buf0", "buf1"}
  <2>1. into[r] \in {0, 1}
    BY DEF ReceiverInv, BufferInv
  <2> QED
    BY <2>1, Slots DEF SendBuf
<1>6. v \in Moves /\ v.to = "merged" /\ v.from = from /\ v.at = at /\ v.pos = m /\ v.size = size
  BY <1>4, <1>5 DEF Moves
<1>7. PullAt(r) = <<w, m>> /\ PullAt(r)' = IF end < Sizes[w] THEN <<w, end>> ELSE <<w + 1, 0>>
  BY <1>1, <1>4 DEF Pos, After
<1>8. merge[r] = IF m = 0 THEN None ELSE <<w, m>>
  BY <1>7 DEF ReceiverInv, MergeInv
<1> HIDE DEF w, from, v
<1>9. PICK h \in Places : h = [name |-> w, area |-> "merged", offset |-> 0] /\ h # None
  <2>1. "merged" \in Areas /\ 0 \in Nat
    BY DEF Areas
  <2> QED
    BY <1>4, <2>1, PlaceFacts
<1>10. /\ h.name = w /\ h.area = "merged" /\ h.offset = 0
       /\ copies'[r] = Append(copies[r], v) /\ copies[r] \in Seq(Moves)
       /\ IF end = Sizes[w] THEN merge'[r] = None /\ hand'[r] = h
          ELSE merge'[r] = <<w, end>> /\ hand'[r] = None
  BY <1>2, <1>3, <1>4, <1>9 DEF ShapeInv, ReceiverInv, CopyInv
<1>11. SendBuf(r)' = from /\ from = SendBuf(r) /\ Message(r)' = Message(r) /\ Pending(r)' = Pending(r)
  BY <1>3 DEF SendBuf, Message, Pending, from
<1>12. MergeInv(r)'
  <2>1. CASE end = Sizes[w]
    BY <1>4, <1>7, <1>10, <2>1 DEF MergeInv
  <2>2. CASE end # Sizes[w]
    <3>1. end < Sizes[w] /\ end # 0
      BY <1>4, <2>2
    <3> QED
      BY <1>7, <1>10, <3>1, <2>2 DEF MergeInv
  <2> QED
    BY <2>1, <2>2
<1>13. \A k \in DOMAIN copies[r] :
          /\ copies[r][k] \in Moves /\ copies[r][k].from = from /\ copies[r][k].to \in {"merged", "ipc"}
          /\ copies[r][k].to = "merged" => copies[r][k].pos + copies[r][k].size <= m
          /\ copies[r][k].to = "ipc" => copies[r][k].pos + copies[r][k].size <= ipc[r].offset
  <2> SUFFICES ASSUME NEW k \in DOMAIN copies[r]
               PROVE  /\ copies[r][k] \in Moves /\ copies[r][k].from = from
                      /\ copies[r][k].to \in {"merged", "ipc"}
                      /\ copies[r][k].to = "merged" => copies[r][k].pos + copies[r][k].size <= m
                      /\ copies[r][k].to = "ipc" => copies[r][k].pos + copies[r][k].size <= ipc[r].offset
    OBVIOUS
  <2>1. CopyInv(r)
    BY DEF ReceiverInv
  <2>2. copies[r][k] \in Moves /\ copies[r][k].from = from /\ copies[r][k].to \in {"merged", "ipc"}
    BY <1>11, <2>1, BuffersFree
  <2>3. copies[r][k].to = "ipc" => copies[r][k].pos + copies[r][k].size <= ipc[r].offset
    BY <2>1 DEF CopyInv
  <2>4. copies[r][k].to = "merged" => copies[r][k].pos + copies[r][k].size <= m
    <3>1. CASE m = 0
      BY <1>2, <1>8, <2>1, <3>1, NoneMerged
    <3>2. CASE m # 0
      <4>1. merge[r] # None /\ merge[r][2] = m
        BY <1>8, <3>2 DEF None
      <4> QED
        BY <2>1, <4>1 DEF CopyInv
    <3> QED
      BY <3>1, <3>2
  <2> QED
    BY <2>2, <2>3, <2>4
<1>14. /\ Len(copies[r]) \in Nat /\ DOMAIN copies[r] = 1 .. Len(copies[r])
       /\ DOMAIN copies'[r] = 1 .. Len(copies[r]) + 1 /\ copies'[r] \in Seq(Moves)
       /\ \A k \in 1 .. Len(copies[r]) : copies'[r][k] = copies[r][k]
       /\ copies'[r][Len(copies[r]) + 1] = v
  BY <1>6, <1>10, AppendProperties, LenProperties
<1>15. \A k \in DOMAIN copies'[r] : (k \in DOMAIN copies[r] /\ copies'[r][k] = copies[r][k]) \/ copies'[r][k] = v
  BY <1>14
<1>16. CopyInv(r)'
  <2> SUFFICES ASSUME NEW k \in DOMAIN copies'[r]
               PROVE  LET q == copies'[r][k]
                      IN  /\ q.from = SendBuf(r)'
                          /\ q.to = "ipc" => q.pos + q.size <= ipc'[r].offset
                          /\ q.to = "merged" =>
                                IF merge'[r] # None THEN q.pos + q.size <= merge'[r][2]
                                ELSE \/ hand'[r] # None /\ hand'[r].area = "merged"
                                     \/ message'[r] # None
    BY <1>14 DEF CopyInv
  <2>1. PICK q : q = copies'[r][k]
    OBVIOUS
  <2>2. q.from = SendBuf(r)' /\ (q.to = "ipc" => q.pos + q.size <= ipc'[r].offset)
    BY <1>3, <1>6, <1>11, <1>13, <1>15, <2>1
  <2>3. q.to = "merged" => q.pos + q.size <= end
    <3>1. CASE q = v
      BY <1>4, <1>6, <3>1
    <3>2. CASE k \in DOMAIN copies[r] /\ q = copies[r][k]
      <4>1. q \in Moves /\ (q.to = "merged" => q.pos + q.size <= m)
        BY <1>13, <3>2
      <4>2. q.pos \in Nat /\ q.size \in Nat
        BY <4>1, MoveFacts
      <4> QED
        BY <1>4, <4>1, <4>2
    <3> QED
      BY <1>15, <2>1, <3>1, <3>2
  <2>4. IF merge'[r] # None THEN merge'[r][2] = end ELSE hand'[r] # None /\ hand'[r].area = "merged"
    <3>1. <<w, end>> # None /\ <<w, end>>[2] = end
      BY DEF None
    <3> QED
      BY <1>9, <1>10, <3>1
  <2> QED
    BY <2>1, <2>2, <2>3, <2>4
<1>17. Holds(r, w, "merged", 0, end)'
  <2>1. Holds(r, w, "merged", 0, m)
    <3>1. CASE m = 0
      <4>1. 0 + 0 <= AreaSize("merged") /\ 0 .. 0 - 1 = {}
        BY AreaSizes
      <4> QED
        BY <3>1, <4>1 DEF Holds
    <3>2. CASE m # 0
      <4>1. merge[r] # None /\ merge[r][1] = w /\ merge[r][2] = m
        BY <1>8, <3>2 DEF None
      <4> QED
        BY <4>1 DEF ReceiverInv, MergeHeld
    <3> QED
      BY <3>1, <3>2
  <2>2. 0 + end <= AreaSize("merged")
    BY <1>4, AreaSizes
  <2>3. \A i \in 0 .. v.size - 1 : mem[r][v.from][v.at + i] = <<w, m + i>>
    <3>1. \A i \in 0 .. c.size - 1 : mem[r][SendBuf(r)][c.offset + i] = <<c.name, c.chunk_offset + i>>
      BY <1>1, IntactBytes
    <3> QED
      BY <1>4, <1>6, <1>11, <3>1 DEF w
  <2>4. m <= end /\ v.pos = 0 + m /\ v.size = end - m
    BY <1>4, <1>6
  <2>5. \A k \in DOMAIN copies[r] :
           copies[r][k].to = "merged" => copies[r][k].pos + copies[r][k].size <= 0 + m
    BY <1>13
  <2>6. mem' = mem
    BY <1>3
  <2>7. copies[r] \in Seq(Moves) /\ copies'[r] = Append(copies[r], v) /\ v \in Moves /\ v.to = "merged"
    BY <1>6, <1>10
  <2> QED
    BY <2>1, <2>2, <2>3, <2>4, <2>5, <2>6, <2>7, HoldsNew
<1>18. IpcHeld(r)'
  <2>1. ASSUME NEW x, NEW off, NEW n, Holds(r, x, "ipc", off, n)
        PROVE  Holds(r, x, "ipc", off, n)'
    <3>1. \A i : ~Covers(v, "ipc", i)
      BY <1>6 DEF Covers
    <3> QED
      BY <1>3, <1>6, <1>10, <2>1, <3>1, HoldsAppend
  <2> QED
    BY <1>3, <2>1 DEF ReceiverInv, IpcHeld
<1>19. MessageHeld(r)'
  BY <1>2, <1>3, EmptySeq DEF MessageHeld, Message
<1>20. MergeHeld(r)'
  <2> SUFFICES ASSUME end # Sizes[w] PROVE MergeHeld(r)'
    BY <1>10 DEF MergeHeld
  <2>1. merge'[r] = <<w, end>>
    BY <1>10
  <2> QED
    BY <1>4, <1>17, <2>1 DEF MergeHeld
<1>21. HandHeld(r)'
  <2> SUFFICES ASSUME end = Sizes[w] PROVE HandHeld(r)'
    BY <1>10 DEF HandHeld
  <2>1. hand'[r] = h /\ ~(Sizes[w] <= BucketSize)
    BY <1>3, <1>4, <1>10, SizeFacts DEF w
  <2> QED
    BY <1>9, <1>10, <1>17, <2>1 DEF HandHeld
<1>22. OrderInv(r)'
  <2>1. PICK a, b, d \in 0 .. Len(Sizes) : Ordered(r, a, b, d)
    BY DEF ReceiverInv, OrderInv
  <2>2. PullAt(r)[1] = w /\ w = d + 1
    BY <1>2, <1>7, <2>1 DEF Ordered
  <2>3. IF end = Sizes[w] THEN hand'[r] = h /\ PullAt(r)'[1] = d + 2
                          ELSE hand'[r] = None /\ PullAt(r)'[1] = d + 1
    <3>1. w + 1 = d + 2
      BY <2>2
    <3>2. CASE end = Sizes[w]
      <4>1. PullAt(r)' = <<w + 1, 0>>
        BY <1>4, <1>7, <3>2, SMTT(30)
      <4> QED
        BY <1>10, <3>1, <3>2, <4>1
    <3>3. CASE end # Sizes[w]
      <4>0. end < Sizes[w]
        BY <1>4, <3>3, SMTT(30)
      <4>1. PullAt(r)' = <<w, end>>
        BY <1>7, <4>0
      <4> QED
        BY <1>10, <2>2, <3>3, <4>1
    <3> QED
      BY <3>2, <3>3
  <2>4. IF hand'[r] = None THEN PullAt(r)'[1] = d + 1
        ELSE hand'[r].name = d + 1 /\ PullAt(r)'[1] = d + 2
    BY <1>9, <1>10, <2>2, <2>3
  <2>5. ~sent'[r] /\ loaded'[r] = loaded[r]
    BY <1>2, <1>3
  <2>6. Ordered(r, a, b, d)'
    BY <1>11, <2>1, <2>4, <2>5 DEF Ordered
  <2> QED
    BY <2>6 DEF OrderInv
<1> QED
  BY <1>2, <1>12, <1>16, <1>18, <1>19, <1>20, <1>21, <1>22 DEF ReceiverInv

LEMMA CopyKept ==
  ASSUME ShapeInv, NEW r \in Receivers, ReceiverInv(r), Copy(r), PullAt(r)' = PullAt(r)
  PROVE  ReceiverInv(r)'
<1>1. PICK c : c = Head(copies[r])
  OBVIOUS
<1>2. /\ copies[r] # <<>> /\ copies' = [copies EXCEPT ![r] = Tail(@)]
      /\ mem' = [mem EXCEPT ![r][c.to] = Write(@, c.pos, Read(mem[r][c.from], c.at, c.size))]
      /\ UNCHANGED <<into, got, items, merge, hand, ipc, message, sent, loaded>>
  BY <1>1 DEF Copy, merging, sender
<1>3. copies[r] \in Seq(Moves)
  BY DEF ReceiverInv, CopyInv
<1>4. /\ copies'[r] = Tail(copies[r]) /\ Tail(copies[r]) \in Seq(Moves)
      /\ Len(copies[r]) \in Nat /\ DOMAIN copies[r] = 1 .. Len(copies[r])
      /\ DOMAIN Tail(copies[r]) = 1 .. Len(copies[r]) - 1
      /\ \A k \in 1 .. Len(copies[r]) - 1 : Tail(copies[r])[k] = copies[r][k + 1]
      /\ c \in Moves
  BY <1>1, <1>2, <1>3, HeadTailProperties, LenProperties, EmptySeq DEF ShapeInv
<1>5. \A k \in DOMAIN copies'[r] : \E i \in DOMAIN copies[r] : copies'[r][k] = copies[r][i]
  <2>1. \A k \in 1 .. Len(copies[r]) - 1 : k + 1 \in 1 .. Len(copies[r])
    BY <1>4
  <2> QED
    BY <1>4, <2>1
<1>6. \A b \in {"buf0", "buf1"} : mem'[r][b] = mem[r][b]
  <2>1. c.to \in {"merged", "ipc"}
    BY <1>4, MoveFacts
  <2>2. DOMAIN mem = Receivers
    BY DEF ShapeInv
  <2> QED
    BY <1>2, <2>1, <2>2
<1>7. SendBuf(r)' = SendBuf(r) /\ Message(r)' = Message(r) /\ Pending(r)' = Pending(r)
  BY <1>2 DEF SendBuf, Message, Pending
<1>8. into[r] \in {0, 1} /\ SendBuf(r) \in {"buf0", "buf1"} /\ Buf(into[r]) \in {"buf0", "buf1"}
      /\ SendBuf(r) \in Areas
  BY Slots DEF SendBuf, ReceiverInv, BufferInv
<1>9. BufferInv(r)'
  <2>1. BufferInv(r) /\ mem'[r][SendBuf(r)] = mem[r][SendBuf(r)] /\ mem'[r][Buf(into[r])] = mem[r][Buf(into[r])]
    BY <1>6, <1>8 DEF ReceiverInv
  <2> QED
    BY <1>2, <1>7, <2>1 DEF BufferInv
<1>10. MergeInv(r)'
  BY <1>2 DEF ReceiverInv, MergeInv
<1>11. CopyInv(r)'
  <2>1. CopyInv(r)
    BY DEF ReceiverInv
  <2> SUFFICES ASSUME NEW k \in DOMAIN copies'[r]
               PROVE  LET q == copies'[r][k]
                      IN  /\ q.from = SendBuf(r)'
                          /\ q.to = "ipc" => q.pos + q.size <= ipc'[r].offset
                          /\ q.to = "merged" =>
                                IF merge'[r] # None THEN q.pos + q.size <= merge'[r][2]
                                ELSE \/ hand'[r] # None /\ hand'[r].area = "merged"
                                     \/ message'[r] # None
    BY <1>4 DEF CopyInv
  <2>2. PICK i \in DOMAIN copies[r] : copies'[r][k] = copies[r][i]
    BY <1>5
  <2> QED
    BY <1>2, <1>7, <2>1, <2>2 DEF CopyInv
<1>12. IpcHeld(r)' /\ HandHeld(r)' /\ MessageHeld(r)' /\ MergeHeld(r)'
  <2>1. UNCHANGED <<ipc[r], hand[r], message[r], merge[r]>>
    BY <1>2
  <2>2. IpcHeld(r) /\ HandHeld(r) /\ MessageHeld(r) /\ MergeHeld(r)
    BY DEF ReceiverInv
  <2>3. ASSUME NEW area \in Areas, NEW w \in Names, NEW off \in Nat, NEW n \in Nat,
               Holds(r, w, area, off, n)
        PROVE  Holds(r, w, area, off, n)'
    BY <1>3, <2>3, HoldsCopy
  <2>4. {"ipc", "merged"} \union (IF hand[r] = None THEN {} ELSE {SendBuf(r)}) \subseteq Areas
    BY <1>8 DEF Areas
  <2> QED
    BY <1>7, <2>1, <2>2, <2>3, <2>4, StillHeld
<1>13. OrderInv(r)'
  <2>1. UNCHANGED <<loaded[r], sent[r], hand[r]>>
    BY <1>2
  <2> QED
    BY <1>7, <2>1, OrderKept DEF ReceiverInv
<1> QED
  BY <1>9, <1>10, <1>11, <1>12, <1>13 DEF ReceiverInv

LEMMA PutWeightKept ==
  ASSUME ShapeInv, NEW r \in Receivers, ReceiverInv(r), PutWeight(r), PullAt(r)' = PullAt(r)
  PROVE  ReceiverInv(r)'
<1>1. hand[r] # None /\ message[r] = None /\ HandFits(r)
  BY DEF PutWeight
<1>2. PICK h \in Places : h = hand[r]
  BY <1>1 DEF ReceiverInv, HandHeld
<1> DEFINE w == h.name
           v == [from |-> h.area, at |-> h.offset, to |-> "ipc", pos |-> ipc[r].offset, size |-> Sizes[w]]
<1>3. /\ copies' = [copies EXCEPT ![r] = Append(@, v)]
      /\ ipc' = [ipc EXCEPT ![r] = 
                   [meta |-> Append(@.meta, [name |-> w, area |-> "ipc", offset |-> @.offset]),
                    offset |-> @.offset + Sizes[w]]]
      /\ hand' = [hand EXCEPT ![r] = None]
      /\ UNCHANGED <<mem, into, got, items, merge, message, sent, loaded>>
  BY <1>2 DEF PutWeight, HandSize, merging
<1>4. PICK off \in Nat, n \in Nat, at \in Nat :
         /\ off = ipc[r].offset /\ n = Sizes[w] /\ at = h.offset /\ n >= 1
         /\ w \in Names /\ w \in Nat /\ off + n <= BucketSize
  <2>1. h.name \in Names /\ h.offset \in Nat /\ Sizes[h.name] \in Nat /\ Sizes[h.name] >= 1 /\ h.name \in Nat
    BY SizeFacts DEF Places
  <2>2. ipc[r].offset \in Nat
    BY SizeFacts DEF ReceiverInv, IpcHeld
  <2>3. ipc[r].offset + Sizes[h.name] <= BucketSize
    BY <1>1, <1>2 DEF HandFits, HandSize
  <2> QED
    BY <2>1, <2>2, <2>3
<1>5. /\ h.area = SendBuf(r) /\ Holds(r, w, SendBuf(r), at, n)
  <2>1. Sizes[w] <= BucketSize
    BY <1>4, SizeFacts
  <2> QED
    BY <1>1, <1>2, <1>4, <2>1 DEF ReceiverInv, HandHeld
<1>6. SendBuf(r) \in {"buf0", "buf1"} /\ into[r] \in {0, 1}
  BY Slots DEF SendBuf, ReceiverInv, BufferInv
<1>7. v \in Moves /\ v.to = "ipc" /\ v.from = SendBuf(r) /\ v.at = at /\ v.pos = off /\ v.size = n
  BY <1>4, <1>5, <1>6 DEF Moves
<1>8. PICK p \in Places : p = [name |-> w, area |-> "ipc", offset |-> off]
  <2>1. "ipc" \in Areas
    BY DEF Areas
  <2> QED
    BY <1>4, <2>1, PlaceFacts
<1>9. ipc[r].meta \in Seq(Places) /\ copies[r] \in Seq(Moves)
  BY DEF ReceiverInv, IpcHeld, CopyInv
<1> HIDE DEF w, v
<1>10. /\ copies'[r] = Append(copies[r], v) /\ ipc'[r].meta = Append(ipc[r].meta, p)
       /\ ipc'[r].offset = off + n /\ hand'[r] = None
       /\ p.name = w /\ p.area = "ipc" /\ p.offset = off
  BY <1>3, <1>4, <1>8 DEF ShapeInv
<1>11. SendBuf(r)' = SendBuf(r) /\ Message(r)' = Message(r)
  BY <1>3 DEF SendBuf, Message
<1>12. BufferInv(r)' /\ MergeInv(r)'
  BY <1>3, <1>11 DEF ReceiverInv, BufferInv, MergeInv
<1>13. \A k \in DOMAIN copies[r] :
          /\ copies[r][k] \in Moves /\ copies[r][k].from = SendBuf(r)
          /\ copies[r][k].to \in {"merged", "ipc"}
          /\ copies[r][k].to = "ipc" => copies[r][k].pos + copies[r][k].size <= off
          /\ copies[r][k].to = "merged" =>
                merge[r] # None /\ copies[r][k].pos + copies[r][k].size <= merge[r][2]
  <2>1. CopyInv(r)
    BY DEF ReceiverInv
  <2>2. hand[r].area # "merged"
    BY <1>2, <1>5, <1>6
  <2> SUFFICES ASSUME NEW k \in DOMAIN copies[r]
               PROVE  /\ copies[r][k] \in Moves /\ copies[r][k].from = SendBuf(r)
                      /\ copies[r][k].to \in {"merged", "ipc"}
                      /\ copies[r][k].to = "ipc" => copies[r][k].pos + copies[r][k].size <= off
                      /\ copies[r][k].to = "merged" =>
                            merge[r] # None /\ copies[r][k].pos + copies[r][k].size <= merge[r][2]
    OBVIOUS
  <2>3. /\ copies[r][k].to = "ipc" => copies[r][k].pos + copies[r][k].size <= off
        /\ copies[r][k].to = "merged" =>
              merge[r] # None /\ copies[r][k].pos + copies[r][k].size <= merge[r][2]
    BY <1>1, <1>4, <2>1, <2>2 DEF CopyInv
  <2> QED
    BY <2>1, <2>3, BuffersFree
<1>14. /\ Len(copies[r]) \in Nat /\ DOMAIN copies[r] = 1 .. Len(copies[r])
       /\ DOMAIN copies'[r] = 1 .. Len(copies[r]) + 1 /\ copies'[r] \in Seq(Moves)
       /\ \A k \in 1 .. Len(copies[r]) : copies'[r][k] = copies[r][k]
       /\ copies'[r][Len(copies[r]) + 1] = v
  BY <1>7, <1>9, <1>10, AppendProperties, LenProperties
<1>15. \A k \in DOMAIN copies'[r] : (k \in DOMAIN copies[r] /\ copies'[r][k] = copies[r][k]) \/ copies'[r][k] = v
  BY <1>14
<1>16. CopyInv(r)'
  <2> SUFFICES ASSUME NEW k \in DOMAIN copies'[r]
               PROVE  LET q == copies'[r][k]
                      IN  /\ q.from = SendBuf(r)'
                          /\ q.to = "ipc" => q.pos + q.size <= ipc'[r].offset
                          /\ q.to = "merged" =>
                                IF merge'[r] # None THEN q.pos + q.size <= merge'[r][2]
                                ELSE \/ hand'[r] # None /\ hand'[r].area = "merged"
                                     \/ message'[r] # None
    BY <1>14 DEF CopyInv
  <2>1. PICK q : q = copies'[r][k]
    OBVIOUS
  <2>2. CASE q = v
    BY <1>7, <1>10, <1>11, <2>1, <2>2
  <2>3. CASE k \in DOMAIN copies[r] /\ q = copies[r][k]
    <3>1. /\ q \in Moves /\ q.from = SendBuf(r) /\ (q.to = "ipc" => q.pos + q.size <= off)
          /\ q.to = "merged" => merge[r] # None /\ q.pos + q.size <= merge[r][2]
      BY <1>13, <2>3
    <3>2. q.pos \in Nat /\ q.size \in Nat
      BY <3>1, MoveFacts
    <3>3. q.to = "ipc" => q.pos + q.size <= off + n
      BY <1>4, <3>1, <3>2
    <3> QED
      BY <1>3, <1>10, <1>11, <2>1, <3>1, <3>3
  <2> QED
    BY <1>15, <2>1, <2>2, <2>3
<1>17. Holds(r, w, "ipc", off, n)'
  <2>1. Holds(r, w, "ipc", off, 0)
    <3>1. off + 0 <= AreaSize("ipc") /\ 0 .. 0 - 1 = {}
      BY <1>4, AreaSizes, SizeFacts
    <3> QED
      BY <3>1 DEF Holds
  <2>2. off + n <= AreaSize("ipc")
    BY <1>4, AreaSizes
  <2>3. \A i \in 0 .. v.size - 1 : mem[r][v.from][v.at + i] = <<w, 0 + i>>
    <3>1. ASSUME NEW j \in 0 .. n - 1 PROVE mem[r][SendBuf(r)][at + j] = <<w, j>>
      <4>1. \/ mem[r][SendBuf(r)][at + j] = <<w, j>>
            \/ \E k \in DOMAIN copies[r] : Covers(copies[r][k], SendBuf(r), at + j)
        BY <1>5 DEF Holds
      <4>2. \A k \in DOMAIN copies[r] : ~Covers(copies[r][k], SendBuf(r), at + j)
        BY <1>6, <1>13 DEF Covers
      <4> QED
        BY <4>1, <4>2
    <3>2. \A j \in 0 .. n - 1 : 0 + j = j
      OBVIOUS
    <3> QED
      BY <1>7, <3>1, <3>2
  <2>4. 0 <= n /\ v.pos = off + 0 /\ v.size = n - 0 /\ 0 \in Nat
    BY <1>4, <1>7
  <2>5. \A k \in DOMAIN copies[r] :
           copies[r][k].to = "ipc" => copies[r][k].pos + copies[r][k].size <= off + 0
    BY <1>13
  <2>6. mem' = mem
    BY <1>3
  <2>7. copies[r] \in Seq(Moves) /\ copies'[r] = Append(copies[r], v) /\ v \in Moves /\ v.to = "ipc"
    BY <1>7, <1>9, <1>10
  <2> QED
    BY <2>1, <2>2, <2>3, <2>4, <2>5, <2>6, <2>7, HoldsNew
<1>18. ASSUME NEW x, NEW o \in Nat, NEW l \in Nat, o + l <= off, Holds(r, x, "ipc", o, l)
       PROVE  Holds(r, x, "ipc", o, l)'
  <2>1. \A j \in 0 .. l - 1 : ~Covers(v, "ipc", o + j)
    BY <1>7, <1>18 DEF Covers
  <2> QED
    BY <1>3, <1>7, <1>9, <1>10, <1>18, <2>1, HoldsAppend
<1>19. IpcHeld(r)'
  <2>0. Len(ipc[r].meta) \in Nat
    BY <1>9, LenProperties
  <2>1. PICK q \in Seq(Places), l \in Nat :
           q = ipc[r].meta /\ l = Len(q)
    BY <1>9, <2>0
  <2>a. PICK t : t = Append(q, p)
    OBVIOUS
  <2>2. /\ DOMAIN q = 1 .. l /\ DOMAIN t = 1 .. l + 1 /\ t \in Seq(Places) /\ Len(t) = l + 1
        /\ \A k \in 1 .. l : t[k] = q[k] /\ q[k] \in Places
        /\ t[l + 1] = p
    BY <1>8, <2>1, <2>a, AppendProperties, LenProperties, ElementOfSeq
  <2>3. t # <<>>
    BY <2>2, EmptySeq
  <2>4. ipc'[r].offset \in 0 .. BucketSize
    BY <1>4, <1>10, SMTT(30)
  <2>5. ASSUME NEW i \in DOMAIN t
        PROVE  /\ t[i].area = "ipc" /\ t[i].offset + Sizes[t[i].name] <= off + n
               /\ Holds(r, t[i].name, "ipc", t[i].offset, Sizes[t[i].name])'
    <3>1. CASE i = l + 1
      BY <1>4, <1>10, <1>17, <2>2, <3>1, SMTT(30)
    <3>2. CASE i \in 1 .. l
      <4>1. PICK m \in Places : m = q[i] /\ m = t[i]
        BY <2>2, <3>2
      <4>2. m.name \in Names /\ m.offset \in Nat /\ Sizes[m.name] \in Nat
        BY SizeFacts DEF Places
      <4>3. /\ m.area = "ipc" /\ m.offset + Sizes[m.name] <= off
            /\ Holds(r, m.name, "ipc", m.offset, Sizes[m.name])
        BY <1>4, <2>1, <2>2, <3>2, <4>1 DEF ReceiverInv, IpcHeld
      <4>4. Holds(r, m.name, "ipc", m.offset, Sizes[m.name])'
        BY <1>18, <4>2, <4>3
      <4>5. m.offset + Sizes[m.name] <= off + n
        BY <1>4, <4>2, <4>3, SMTT(30)
      <4> QED
        BY <4>1, <4>3, <4>4, <4>5
    <3> QED
      BY <2>2, <3>1, <3>2
  <2>6. ipc'[r].meta = t
    BY <1>10, <2>1, <2>a
  <2> QED
    BY <1>10, <2>2, <2>3, <2>4, <2>5, <2>6 DEF IpcHeld
<1>20. HandHeld(r)' /\ MessageHeld(r)'
  BY <1>1, <1>3, <1>10, EmptySeq DEF HandHeld, MessageHeld, Message
<1>21. MergeHeld(r)'
  <2>1. ASSUME NEW x, NEW o, NEW l, Holds(r, x, "merged", o, l)
        PROVE  Holds(r, x, "merged", o, l)'
    <3>1. \A i : ~Covers(v, "merged", i)
      BY <1>7 DEF Covers
    <3> QED
      BY <1>3, <1>7, <1>9, <1>10, <2>1, <3>1, HoldsAppend
  <2> QED
    BY <1>3, <2>1 DEF ReceiverInv, MergeHeld
<1>22. OrderInv(r)'
  <2>1. PICK a, b, d \in 0 .. Len(Sizes) : Ordered(r, a, b, d)
    BY DEF ReceiverInv, OrderInv
  <2>2. w = d + 1 /\ PullAt(r)[1] = d + 2 /\ ~sent[r]
    BY <1>1, <1>2, <2>1 DEF Ordered, w
  <2>3. Pending(r) = ipc[r].meta /\ Pending(r)' = Append(ipc[r].meta, p)
    BY <1>3, <1>10, <2>2 DEF Pending
  <2>4. PICK q : q = ipc[r].meta
    OBVIOUS
  <2>5. /\ q \in Seq(Places) /\ Len(q) \in Nat /\ DOMAIN q = 1 .. Len(q)
        /\ Len(Append(q, p)) = Len(q) + 1 /\ DOMAIN Append(q, p) = 1 .. Len(q) + 1
        /\ \A i \in 1 .. Len(q) : Append(q, p)[i] = q[i]
        /\ Append(q, p)[Len(q) + 1] = p
    BY <1>8, <1>9, <2>4, AppendProperties, LenProperties, SMTT(30)
  <2>6. PICK l \in Nat : l = Len(q) /\ d = b + l /\ d + 1 = b + (l + 1)
    <3>1. PICK l \in Nat : l = Len(q)
      BY <2>5
    <3>2. d = b + Len(Pending(r))
      BY <2>1 DEF Ordered
    <3>3. d = b + l
      BY <2>3, <2>4, <3>1, <3>2
    <3>4. d + 1 = b + (l + 1)
      BY <3>3, SizeFacts
    <3> QED
      BY <3>1, <3>3, <3>4
  <2>7. \A i \in 1 .. l : q[i].name = b + i
    BY <2>1, <2>3, <2>4, <2>5, <2>6 DEF Ordered
  <2>8. \A i \in DOMAIN Append(q, p) : Append(q, p)[i].name = b + i
    <3>1. p.name = b + (l + 1)
      BY <1>10, <2>2, <2>6
    <3>2. \A i \in 1 .. l + 1 : i \in 1 .. l \/ i = l + 1
      OBVIOUS
    <3> QED
      BY <2>5, <2>6, <2>7, <3>1, <3>2
  <2>9. d + 1 = b + Len(Pending(r)') /\ d + 1 \in 0 .. Len(Sizes)
    BY <1>4, <2>2, <2>3, <2>4, <2>5, <2>6, SizeFacts
  <2>10. PullAt(r)'[1] = (d + 1) + 1
    <3>1. d + 2 = (d + 1) + 1
      OBVIOUS
    <3> QED
      BY <2>2, <3>1
  <2>11. /\ a = Len(loaded'[r]) /\ b = a + Len(Message(r)') /\ loaded'[r] = SubSeq(Weights, 1, a)
         /\ \A i \in DOMAIN Message(r)' : Message(r)'[i].name = a + i
    BY <1>3, <1>11, <2>1 DEF Ordered
  <2>12. \A i \in DOMAIN Pending(r)' : Pending(r)'[i].name = b + i
    BY <2>3, <2>4, <2>8
  <2>13. Ordered(r, a, b, d + 1)'
    BY <1>10, <2>9, <2>10, <2>11, <2>12 DEF Ordered
  <2> QED
    BY <2>9, <2>13 DEF OrderInv
<1> QED
  BY <1>12, <1>16, <1>19, <1>20, <1>21, <1>22 DEF ReceiverInv

\* A request is a record, and not None.
LEMMA MessageFacts ==
  ASSUME NEW s
  PROVE  [weights |-> s] # None /\ [weights |-> s].weights = s
BY DEF None

LEMMA SendBucketKept ==
  ASSUME ShapeInv, NEW r \in Receivers, ReceiverInv(r), SendBucket(r), PullAt(r)' = PullAt(r)
  PROVE  ReceiverInv(r)'
<1>1. /\ hand[r] # None /\ message[r] = None /\ copies[r] = <<>>
      /\ message' = [message EXCEPT ![r] = [weights |-> ipc[r].meta]]
      /\ ipc' = [ipc EXCEPT ![r] = [meta |-> <<>>, offset |-> 0]]
      /\ UNCHANGED <<mem, copies, into, got, items, merge, hand, sent, loaded>>
  BY DEF SendBucket, merging
<1>2. /\ message'[r] = [weights |-> ipc[r].meta] /\ ipc'[r].meta = <<>> /\ ipc'[r].offset = 0
      /\ message'[r] # None /\ message'[r].weights = ipc[r].meta
  BY <1>1, MessageFacts DEF ShapeInv
<1>3. /\ SendBuf(r)' = SendBuf(r) /\ Message(r) = <<>> /\ Message(r)' = ipc[r].meta
  BY <1>1, <1>2 DEF SendBuf, Message
<1>4. BufferInv(r)' /\ MergeInv(r)'
  BY <1>1, <1>3 DEF ReceiverInv, BufferInv, MergeInv
<1>5. CopyInv(r)'
  BY <1>1, NoCopies
<1>6. ASSUME NEW area, NEW w, NEW off, NEW n, Holds(r, w, area, off, n)
      PROVE  Holds(r, w, area, off, n)'
  BY <1>1, <1>6, HoldsKept
<1>7. IpcHeld(r)'
  <2>1. <<>> \in Seq(Places) /\ DOMAIN <<>> = {} /\ 0 \in 0 .. BucketSize
    BY EmptySeq, SizeFacts
  <2> QED
    BY <1>2, <2>1 DEF IpcHeld
<1>8. HandHeld(r)' /\ MergeHeld(r)'
  <2>1. PICK buf, h : buf = SendBuf(r) /\ h = hand[r]
    OBVIOUS
  <2>2. Holds(r, h.name, h.area, h.offset, Sizes[h.name])'
    BY <1>1, <1>6, <2>1 DEF ReceiverInv, HandHeld
  <2>3. HandHeld(r)'
    BY <1>1, <1>3, <2>1, <2>2 DEF ReceiverInv, HandHeld
  <2>4. MergeHeld(r)'
    BY <1>1, <1>6 DEF ReceiverInv, MergeHeld
  <2> QED
    BY <2>3, <2>4
<1>9. MessageHeld(r)'
  <2>1. PICK q \in Seq(Places) : q = ipc[r].meta
    BY DEF ReceiverInv, IpcHeld
  <2>2. \A i \in DOMAIN q : q[i].area = "ipc" /\ Holds(r, q[i].name, "ipc", q[i].offset, Sizes[q[i].name])
    BY <2>1 DEF ReceiverInv, IpcHeld
  <2>3. \A i \in DOMAIN q :
           q[i].area \in {"ipc", "merged"} /\ Holds(r, q[i].name, q[i].area, q[i].offset, Sizes[q[i].name])'
    BY <1>6, <2>2
  <2>4. Message(r)' = q
    BY <1>3, <2>1
  <2> QED
    BY <2>3, <2>4 DEF MessageHeld
<1>10. OrderInv(r)'
  <2>1. PICK a, b, d \in 0 .. Len(Sizes) : Ordered(r, a, b, d)
    BY DEF ReceiverInv, OrderInv
  <2>2. ~sent[r] /\ hand[r].name = d + 1 /\ PullAt(r)[1] = d + 2
    BY <1>1, <2>1 DEF Ordered
  <2>3. PICK q \in Seq(Places) : q = ipc[r].meta
    BY DEF ReceiverInv, IpcHeld
  <2>4. Pending(r) = q /\ Message(r)' = q /\ Pending(r)' = <<>>
    BY <1>1, <1>2, <1>3, <2>2, <2>3 DEF Pending
  <2>5. Len(<<>>) = 0 /\ DOMAIN <<>> = {}
    BY EmptySeq
  <2>6. a = b /\ a = Len(loaded[r]) /\ d = a + Len(q) /\ loaded[r] = SubSeq(Weights, 1, a)
        /\ \A i \in DOMAIN q : q[i].name = a + i
    <3>1. a = Len(loaded[r]) /\ b = a + 0 /\ d = b + Len(q) /\ loaded[r] = SubSeq(Weights, 1, a)
          /\ \A i \in DOMAIN q : q[i].name = b + i
      BY <1>3, <2>1, <2>4, <2>5 DEF Ordered
    <3>2. a = b
      BY <3>1, SizeFacts
    <3> QED
      BY <3>1, <3>2
  <2>7. d = d + Len(<<>>)
    BY <2>5, SizeFacts
  <2>8. Ordered(r, a, d, d)'
    BY <1>1, <2>2, <2>4, <2>5, <2>6, <2>7 DEF Ordered
  <2> QED
    BY <2>8 DEF OrderInv
<1> QED
  BY <1>4, <1>5, <1>7, <1>8, <1>9, <1>10 DEF ReceiverInv

LEMMA SendLastKept ==
  ASSUME ShapeInv, NEW r \in Receivers, ReceiverInv(r), SendLast(r), PullAt(r)' = PullAt(r)
  PROVE  ReceiverInv(r)'
<1>1. /\ hand[r] = None /\ message[r] = None /\ ~sent[r] /\ copies[r] = <<>>
      /\ message' = [message EXCEPT ![r] = [weights |-> ipc[r].meta]]
      /\ sent' = [sent EXCEPT ![r] = TRUE]
      /\ UNCHANGED <<mem, copies, into, got, items, merge, hand, ipc, loaded>>
  BY DEF SendLast, Pulls, merging
<1>2. /\ message'[r] = [weights |-> ipc[r].meta] /\ sent'[r]
      /\ message'[r] # None /\ message'[r].weights = ipc[r].meta
  BY <1>1, MessageFacts DEF ShapeInv
<1>3. /\ SendBuf(r)' = SendBuf(r) /\ Message(r) = <<>> /\ Message(r)' = ipc[r].meta
  BY <1>1, <1>2 DEF SendBuf, Message
<1>4. BufferInv(r)' /\ MergeInv(r)'
  BY <1>1, <1>3 DEF ReceiverInv, BufferInv, MergeInv
<1>5. CopyInv(r)'
  BY <1>1, NoCopies
<1>6. ASSUME NEW area, NEW w, NEW off, NEW n, Holds(r, w, area, off, n)
      PROVE  Holds(r, w, area, off, n)'
  BY <1>1, <1>6, HoldsKept
<1>7. IpcHeld(r)' /\ HandHeld(r)' /\ MergeHeld(r)'
  BY <1>1, <1>6 DEF ReceiverInv, IpcHeld, HandHeld, MergeHeld
<1>8. MessageHeld(r)'
  <2>1. PICK q \in Seq(Places) : q = ipc[r].meta
    BY DEF ReceiverInv, IpcHeld
  <2>2. \A i \in DOMAIN q : q[i].area = "ipc" /\ Holds(r, q[i].name, "ipc", q[i].offset, Sizes[q[i].name])
    BY <2>1 DEF ReceiverInv, IpcHeld
  <2>3. \A i \in DOMAIN q :
           q[i].area \in {"ipc", "merged"} /\ Holds(r, q[i].name, q[i].area, q[i].offset, Sizes[q[i].name])'
    BY <1>6, <2>2
  <2>4. Message(r)' = q
    BY <1>3, <2>1
  <2> QED
    BY <2>3, <2>4 DEF MessageHeld
<1>9. OrderInv(r)'
  <2>1. PICK a, b, d \in 0 .. Len(Sizes) : Ordered(r, a, b, d)
    BY DEF ReceiverInv, OrderInv
  <2>2. PullAt(r)[1] = d + 1
    BY <1>1, <2>1 DEF Ordered
  <2>3. PICK q \in Seq(Places) : q = ipc[r].meta
    BY DEF ReceiverInv, IpcHeld
  <2>4. Pending(r) = q /\ Message(r)' = q /\ Pending(r)' = <<>>
    BY <1>1, <1>2, <1>3, <2>3 DEF Pending
  <2>5. Len(<<>>) = 0 /\ DOMAIN <<>> = {}
    BY EmptySeq
  <2>6. a = b /\ a = Len(loaded[r]) /\ d = a + Len(q) /\ loaded[r] = SubSeq(Weights, 1, a)
        /\ \A i \in DOMAIN q : q[i].name = a + i
    <3>1. a = Len(loaded[r]) /\ b = a + 0 /\ d = b + Len(q) /\ loaded[r] = SubSeq(Weights, 1, a)
          /\ \A i \in DOMAIN q : q[i].name = b + i
      BY <1>3, <2>1, <2>4, <2>5 DEF Ordered
    <3>2. a = b
      BY <3>1, SizeFacts
    <3> QED
      BY <3>1, <3>2
  <2>7. d = d + Len(<<>>)
    BY <2>5, SizeFacts
  <2>8. Ordered(r, a, d, d)'
    BY <1>1, <2>2, <2>4, <2>5, <2>6, <2>7 DEF Ordered
  <2> QED
    BY <2>8 DEF OrderInv
<1> QED
  BY <1>4, <1>5, <1>7, <1>8, <1>9 DEF ReceiverInv

LEMMA PrefixLength ==
  ASSUME NEW n \in 0 .. Len(Sizes)
  PROVE  /\ SubSeq(Weights, 1, n) = [i \in 1 .. n |-> Weights[i]] /\ Len(SubSeq(Weights, 1, n)) = n
<1>1. n \in Nat
  BY SizeFacts
<1>2. SubSeq(Weights, 1, n) = [i \in 1 .. n |-> Weights[i]]
  BY <1>1
<1> QED
  BY <1>1, <1>2

\* A prefix and what follows it.
LEMMA PrefixGrows ==
  ASSUME NEW a \in Nat, NEW l \in Nat, a + l <= Len(Sizes)
  PROVE  SubSeq(Weights, 1, a) \o [i \in 1 .. l |-> Weights[a + i]] = SubSeq(Weights, 1, a + l)
<1> DEFINE s == SubSeq(Weights, 1, a)
           t == [i \in 1 .. l |-> Weights[a + i]]
           u == SubSeq(Weights, 1, a + l)
<1>1. a \in 0 .. Len(Sizes) /\ a + l \in 0 .. Len(Sizes)
  BY SizeFacts
<1>2. /\ s = [i \in 1 .. a |-> Weights[i]] /\ Len(s) = a
      /\ u = [i \in 1 .. a + l |-> Weights[i]] /\ Len(u) = a + l
  BY <1>1, PrefixLength
<1>3. Len(t) = l
  OBVIOUS
<1> HIDE DEF s, u
<1>4. s \o t = [i \in 1 .. a + l |-> IF i <= a THEN s[i] ELSE t[i - a]]
  BY <1>2, <1>3
<1>5. ASSUME NEW i \in 1 .. a + l PROVE (IF i <= a THEN s[i] ELSE t[i - a]) = Weights[i]
  <2>1. CASE i <= a
    BY <1>2, <2>1
  <2>2. CASE ~(i <= a)
    <3>1. i - a \in 1 .. l /\ a + (i - a) = i
      BY <2>2
    <3> QED
      BY <2>2, <3>1
  <2> QED
    BY <2>1, <2>2
<1> HIDE DEF t
<1> QED
  BY <1>2, <1>4, <1>5 DEF s, t, u

LEMMA SendLargeKept ==
  ASSUME ShapeInv, NEW r \in Receivers, ReceiverInv(r), SendLarge(r), PullAt(r)' = PullAt(r)
  PROVE  ReceiverInv(r)'
<1>1. /\ hand[r] # None /\ message[r] = None /\ ~HandFits(r) /\ ipc[r].meta = <<>>
      /\ message' = [message EXCEPT ![r] = [weights |-> <<hand[r]>>]]
      /\ hand' = [hand EXCEPT ![r] = None]
      /\ UNCHANGED <<mem, copies, into, got, items, merge, ipc, sent, loaded>>
  BY DEF SendLarge, merging
<1>2. PICK h \in Places : h = hand[r]
  BY <1>1 DEF ReceiverInv, HandHeld
<1>3. /\ message'[r] # None /\ message'[r].weights = <<h>> /\ hand'[r] = None
  BY <1>1, <1>2, MessageFacts DEF ShapeInv
<1>4. /\ SendBuf(r)' = SendBuf(r) /\ Message(r) = <<>> /\ Message(r)' = <<h>>
      /\ Pending(r) = <<>> /\ Pending(r)' = <<>>
  BY <1>1, <1>3 DEF SendBuf, Message, Pending
<1>5. h.area = "merged" /\ Holds(r, h.name, "merged", h.offset, Sizes[h.name])
  <2>1. ipc[r].offset = 0 /\ Sizes[h.name] \in Nat
    BY <1>1, SizeFacts DEF ReceiverInv, IpcHeld, Places
  <2>2. ~(Sizes[h.name] <= BucketSize)
    BY <1>1, <1>2, <2>1, SizeFacts DEF HandFits, HandSize
  <2> QED
    BY <1>1, <1>2, <2>2 DEF ReceiverInv, HandHeld
<1>6. BufferInv(r)' /\ MergeInv(r)'
  BY <1>1, <1>4 DEF ReceiverInv, BufferInv, MergeInv
<1>7. CopyInv(r)'
  BY <1>1, <1>3, <1>4 DEF ReceiverInv, CopyInv
<1>8. ASSUME NEW area, NEW w, NEW off, NEW n, Holds(r, w, area, off, n)
      PROVE  Holds(r, w, area, off, n)'
  BY <1>1, <1>8, HoldsKept
<1>9. IpcHeld(r)' /\ MergeHeld(r)'
  BY <1>1, <1>8 DEF ReceiverInv, IpcHeld, MergeHeld
<1>10. HandHeld(r)'
  BY <1>3 DEF HandHeld
<1>11. <<h>> \in Seq(Places) /\ DOMAIN <<h>> = {1} /\ <<h>>[1] = h /\ Len(<<h>>) = 1
  OBVIOUS
<1>12. MessageHeld(r)'
  <2>1. Holds(r, h.name, h.area, h.offset, Sizes[h.name])'
    BY <1>5, <1>8
  <2> QED
    BY <1>4, <1>5, <1>11, <2>1 DEF MessageHeld
<1>13. OrderInv(r)'
  <2>1. PICK a, b, d \in 0 .. Len(Sizes) : Ordered(r, a, b, d)
    BY DEF ReceiverInv, OrderInv
  <2>2. h.name = d + 1 /\ PullAt(r)[1] = d + 2
    BY <1>1, <1>2, <2>1 DEF Ordered
  <2>3. Len(<<>>) = 0 /\ DOMAIN <<>> = {}
    BY EmptySeq
  <2>4. a = Len(loaded[r]) /\ b = a + 0 /\ d = b + 0 /\ loaded[r] = SubSeq(Weights, 1, a)
    BY <1>4, <2>1, <2>3 DEF Ordered
  <2>5. a = b /\ a = d
    BY <2>4, SizeFacts
  <2>6. d + 1 \in 0 .. Len(Sizes)
    BY <2>2, SizeFacts DEF Places
  <2>7. PullAt(r)'[1] = (d + 1) + 1
    <3>1. d + 2 = (d + 1) + 1
      BY SizeFacts
    <3> QED
      BY <2>2, <3>1
  <2>8. d + 1 = a + Len(<<h>>) /\ d + 1 = (d + 1) + Len(<<>>)
    BY <1>11, <2>3, <2>5, SizeFacts
  <2>9. \A i \in DOMAIN <<h>> : <<h>>[i].name = a + i
    BY <1>11, <2>2, <2>5
  <2>10. Ordered(r, a, d + 1, d + 1)'
    BY <1>1, <1>3, <1>4, <2>3, <2>4, <2>7, <2>8, <2>9 DEF Ordered
  <2> QED
    BY <2>6, <2>10 DEF OrderInv
<1> QED
  BY <1>6, <1>7, <1>9, <1>10, <1>12, <1>13 DEF ReceiverInv

\* The engine is given the weights that follow those it has.
LEMMA LoadKept ==
  ASSUME ShapeInv, NEW r \in Receivers, ReceiverInv(r), Load(r), PullAt(r)' = PullAt(r)
  PROVE  /\ ReceiverInv(r)'
         /\ \E a, b \in 0 .. Len(Sizes) : /\ a <= b /\ a = Len(loaded[r])
                                         /\ loaded[r] = SubSeq(Weights, 1, a)
                                         /\ loaded'[r] = SubSeq(Weights, 1, b)
<1>1. /\ message[r] # None /\ copies[r] = <<>>
      /\ message' = [message EXCEPT ![r] = None]
      /\ loaded' = [loaded EXCEPT ![r] = @ \o
            [i \in DOMAIN message[r].weights |->
                LET m == message[r].weights[i] IN Read(mem[r][m.area], m.offset, Sizes[m.name])]]
      /\ UNCHANGED <<mem, copies, into, got, items, merge, hand, ipc, sent>>
  BY DEF Load, merging
<1>2. PICK q \in Seq(Places) : q = message[r].weights
  BY <1>1 DEF ReceiverInv, MessageHeld, Message
<1>3. Message(r) = q /\ Message(r)' = <<>> /\ SendBuf(r)' = SendBuf(r) /\ Pending(r)' = Pending(r)
  BY <1>1, <1>2 DEF ShapeInv, Message, SendBuf, Pending
<1>4. PICK a, b, d \in 0 .. Len(Sizes) : Ordered(r, a, b, d)
  BY DEF ReceiverInv, OrderInv
<1>5. /\ a = Len(loaded[r]) /\ b = a + Len(q) /\ d = b + Len(Pending(r))
      /\ loaded[r] = SubSeq(Weights, 1, a)
      /\ \A i \in DOMAIN q : q[i].name = a + i
      /\ \A i \in DOMAIN Pending(r) : Pending(r)[i].name = b + i
  BY <1>3, <1>4 DEF Ordered
<1>6. /\ a \in Nat /\ b \in Nat /\ Len(q) \in Nat /\ DOMAIN q = 1 .. Len(q) /\ a <= b /\ b <= Len(Sizes)
      /\ \A i \in 1 .. Len(q) : q[i] \in Places
  <2>1. /\ Len(q) \in Nat /\ DOMAIN q = 1 .. Len(q)
        /\ \A i \in 1 .. Len(q) : q[i] \in Places
    BY <1>2, LenProperties, ElementOfSeq
  <2>2. PICK l \in Nat : l = Len(q) /\ b = a + l
    BY <1>5, <2>1
  <2>3. a \in Nat /\ b \in Nat /\ a <= b /\ b <= Len(Sizes)
    BY <2>2, SizeFacts
  <2> QED
    BY <2>1, <2>3
<1>7. ASSUME NEW i \in DOMAIN q
      PROVE  Read(mem[r][q[i].area], q[i].offset, Sizes[q[i].name]) = Weights[a + i]
  <2>1. PICK m \in Places : m = q[i]
    BY <1>6
  <2>2. m.name = a + i /\ m.name \in Names /\ m.offset \in Nat
    BY <1>5, <2>1 DEF Places
  <2>3. Holds(r, m.name, m.area, m.offset, Sizes[m.name])
    BY <1>3, <2>1 DEF ReceiverInv, MessageHeld
  <2>4. Read(mem[r][m.area], m.offset, Sizes[m.name]) = Weights[m.name]
    BY <1>1, <2>2, <2>3, HoldsDone
  <2> QED
    BY <2>1, <2>2, <2>4
<1>8. loaded'[r] = SubSeq(Weights, 1, a) \o [i \in 1 .. Len(q) |-> Weights[a + i]]
  <2>1. loaded'[r] = loaded[r] \o
           [i \in DOMAIN q |-> Read(mem[r][q[i].area], q[i].offset, Sizes[q[i].name])]
    BY <1>1, <1>2 DEF ShapeInv
  <2>2. [i \in DOMAIN q |-> Read(mem[r][q[i].area], q[i].offset, Sizes[q[i].name])]
           = [i \in 1 .. Len(q) |-> Weights[a + i]]
    BY <1>6, <1>7
  <2> QED
    BY <1>5, <2>1, <2>2
<1>9. loaded'[r] = SubSeq(Weights, 1, b)
  <2>1. PICK l \in Nat : l = Len(q) /\ b = a + l
    BY <1>5, <1>6
  <2> QED
    BY <1>6, <1>8, <2>1, SizeFacts, PrefixGrows
<1>10. BufferInv(r)' /\ MergeInv(r)'
  BY <1>1, <1>3 DEF ReceiverInv, BufferInv, MergeInv
<1>11. CopyInv(r)'
  BY <1>1, NoCopies
<1>12. ASSUME NEW area, NEW w, NEW off, NEW n, Holds(r, w, area, off, n)
       PROVE  Holds(r, w, area, off, n)'
  BY <1>1, <1>12, HoldsKept
<1>13. IpcHeld(r)' /\ MergeHeld(r)'
  BY <1>1, <1>12 DEF ReceiverInv, IpcHeld, MergeHeld
<1>14. HandHeld(r)'
  BY <1>1, <1>3, <1>12 DEF ReceiverInv, HandHeld
<1>15. <<>> \in Seq(Places) /\ Len(<<>>) = 0 /\ DOMAIN <<>> = {}
  BY EmptySeq
<1>16. MessageHeld(r)'
  BY <1>3, <1>15 DEF MessageHeld
<1>17. OrderInv(r)'
  <2>1. b = Len(loaded'[r]) /\ b = b + Len(<<>>)
    BY <1>6, <1>9, <1>15, PrefixLength
  <2>2. Ordered(r, b, b, d)'
    BY <1>1, <1>3, <1>4, <1>5, <1>9, <1>15, <2>1 DEF Ordered
  <2> QED
    BY <2>2 DEF OrderInv
<1> QED
  BY <1>5, <1>6, <1>9, <1>10, <1>11, <1>13, <1>14, <1>16, <1>17 DEF ReceiverInv

------------------------------------------------------------------------------
(* The theorems *)

LEMMA Initially == Init => IInv
<1> SUFFICES ASSUME Init PROVE IInv
  OBVIOUS
<1>1. /\ gen = <<1, 0>> /\ fill = 0 /\ bucket = <<>> /\ offset = 0 /\ op = None
      /\ sendBufs = [b \in 0 .. 1 |-> [i \in 0 .. BucketSize - 1 |-> Empty]]
      /\ mem = [r \in Receivers |-> [a \in Areas |-> [i \in 0 .. AreaSize(a) - 1 |-> Empty]]]
      /\ copies = [r \in Receivers |-> <<>>] /\ into = [r \in Receivers |-> 1]
      /\ got = [r \in Receivers |-> None] /\ items = [r \in Receivers |-> <<>>]
      /\ last = [r \in Receivers |-> FALSE] /\ merge = [r \in Receivers |-> None]
      /\ hand = [r \in Receivers |-> None]
      /\ ipc = [r \in Receivers |-> [meta |-> <<>>, offset |-> 0]]
      /\ message = [r \in Receivers |-> None] /\ sent = [r \in Receivers |-> FALSE]
      /\ loaded = [r \in Receivers |-> <<>>]
  BY DEF Init
<1>2. ShapeInv
  BY <1>1 DEF ShapeInv
<1>3. /\ Len(<<>>) = 0 /\ DOMAIN <<>> = {} /\ <<>> \in Seq(Chunks) /\ <<>> \in Seq(Places)
  BY EmptySeq
<1>4. SendInv
  <2>1. 0 .. 1 = {0, 1}
    OBVIOUS
  <2>2. gen \in (1 .. Len(Sizes) + 1) \X Nat
    BY <1>1, SizeFacts
  <2>3. gen[1] \in Names => gen[2] < Sizes[gen[1]] /\ gen[2] = 0
    BY <1>1, SizeFacts
  <2>4. offset \in 0 .. BucketSize
    BY <1>1, SizeFacts
  <2>5. DOMAIN sendBufs = {0, 1} /\ \A b \in {0, 1} : DOMAIN sendBufs[b] = 0 .. BucketSize - 1
    BY <1>1, <2>1
  <2> QED
    BY <1>1, <1>3, <2>2, <2>3, <2>4, <2>5 DEF SendInv
<1>5. OpInv
  BY <1>1 DEF OpInv
<1>6. Unsent = <<>> /\ SendAt = gen
  BY <1>1, LinkedEmpty DEF Unsent, SendAt
<1>7. ASSUME NEW r \in Receivers
      PROVE  OnWay(r) = <<>> /\ Arrived(r) = <<>> /\ items[r] = <<>> /\ OnWayAt(r) = gen
             /\ ArrivedAt(r) = gen /\ PullAt(r) = gen
  <2>1. OnWay(r) = <<>> /\ Arrived(r) = <<>> /\ items[r] = <<>>
    BY <1>1 DEF OnWay, Arrived
  <2> QED
    BY <1>6, <2>1, LinkedEmpty DEF OnWayAt, ArrivedAt, PullAt
<1>8. LinkInv
  BY <1>6, <1>7, LinkedEmpty DEF LinkInv
<1>9. ASSUME NEW r \in Receivers PROVE ReceiverInv(r)
  <2>1. BufferInv(r) /\ MergeInv(r)
    BY <1>1, <1>3, <1>7 DEF BufferInv, MergeInv
  <2>2. CopyInv(r)
    <3>1. copies[r] = <<>> /\ <<>> \in Seq(Moves)
      BY <1>1, EmptySeq
    <3> QED
      BY <1>3, <3>1 DEF CopyInv
  <2>3. Message(r) = <<>> /\ Pending(r) = <<>> /\ ipc[r].meta = <<>> /\ ipc[r].offset = 0
    BY <1>1 DEF Message, Pending
  <2>4. IpcHeld(r) /\ HandHeld(r) /\ MessageHeld(r) /\ MergeHeld(r)
    <3>1. HandHeld(r) /\ MergeHeld(r)
      BY <1>1 DEF HandHeld, MergeHeld
    <3>2. MessageHeld(r)
      BY <1>3, <2>3 DEF MessageHeld
    <3>3. IpcHeld(r)
      BY <1>3, <2>3, SizeFacts DEF IpcHeld
    <3> QED
      BY <3>1, <3>2, <3>3
  <2>5. OrderInv(r)
    <3>1. 0 \in 0 .. Len(Sizes) /\ SubSeq(Weights, 1, 0) = <<>>
      BY SizeFacts
    <3>2. loaded[r] = <<>> /\ hand[r] = None /\ PullAt(r)[1] = 0 + 1 /\ 0 = 0 + 0
      BY <1>1, <1>7
    <3>3. Ordered(r, 0, 0, 0)
      BY <1>3, <2>3, <3>1, <3>2 DEF Ordered
    <3> QED
      BY <3>1, <3>3 DEF OrderInv
  <2> QED
    BY <2>1, <2>2, <2>4, <2>5 DEF ReceiverInv
<1> QED
  BY <1>2, <1>4, <1>5, <1>8, <1>9 DEF IInv

\* Steps in which no chunk moves.
LEMMA LinkStill ==
  ASSUME LinkInv, UNCHANGED <<op, bucket, gen, got, items>>
  PROVE  LinkInv' /\ \A s \in Receivers : PullAt(s)' = PullAt(s)
<1>1. Unsent' = Unsent /\ SendAt' = SendAt
  BY DEF Unsent, SendAt
<1>2. ASSUME NEW s \in Receivers
      PROVE  /\ OnWay(s)' = OnWay(s) /\ OnWayAt(s)' = OnWayAt(s)
             /\ Arrived(s)' = Arrived(s) /\ ArrivedAt(s)' = ArrivedAt(s) /\ PullAt(s)' = PullAt(s)
  <2>1. UNCHANGED <<bucket, gen>> /\ UNCHANGED op /\ got'[s] = got[s] /\ items'[s] = items[s]
    OBVIOUS
  <2> QED
    BY <2>1, LinkSame
<1> QED
  BY <1>1, <1>2 DEF LinkInv

LEMMA Kept ==
  ASSUME IInv, [Next]_vars
  PROVE  IInv'
<1>1. ShapeInv' /\ SendInv' /\ OpInv'
  BY ShapeKept, TrainerKept DEF IInv
<1>2. ShapeInv /\ SendInv /\ OpInv /\ LinkInv /\ \A s \in Receivers : ReceiverInv(s)
  BY DEF IInv
<1>3. ASSUME UNCHANGED <<mem, copies, into, got, items, merge, hand, ipc, message, sent, loaded>>,
             LinkInv', \A s \in Receivers : PullAt(s)' = PullAt(s)
      PROVE  IInv'
  <2>1. ASSUME NEW s \in Receivers PROVE ReceiverInv(s)'
    <3>1. UNCHANGED <<mem[s], copies[s], into[s], got[s], items[s], merge[s], hand[s], ipc[s],
                      message[s], sent[s], loaded[s]>>
      BY <1>3
    <3> QED
      BY <1>2, <1>3, <3>1, Untouched
  <2> QED
    BY <1>1, <1>3, <2>1 DEF IInv
<1>4. CASE Send
  <2>1. UNCHANGED <<mem, copies, into, got, items, merge, hand, ipc, message, sent, loaded>>
    BY <1>4 DEF Send, Fill, Flush, FlushLast, merging, sender
  <2> QED
    BY <1>2, <1>3, <1>4, <2>1, LinkSend
<1>5. CASE UNCHANGED vars
  <2>1. /\ UNCHANGED <<mem, copies, into, got, items, merge, hand, ipc, message, sent, loaded>>
        /\ UNCHANGED <<op, bucket, gen, got, items>>
    BY <1>5 DEF vars, trainer, merging, sender
  <2> QED
    BY <1>2, <1>3, <2>1, LinkStill
<1>6. ASSUME NEW r \in Receivers, Receive(r) \/ Pull(r) \/ Forward(r) \/ Copy(r) \/ Load(r),
             LinkInv', ReceiverInv(r)', \A s \in Receivers \ {r} : PullAt(s)' = PullAt(s)
      PROVE  IInv'
  <2>1. ASSUME NEW s \in Receivers \ {r} PROVE ReceiverInv(s)'
    <3>1. UNCHANGED <<mem[s], copies[s], into[s], got[s], items[s], merge[s], hand[s], ipc[s],
                      message[s], sent[s], loaded[s]>>
      BY <1>2, <1>6, Separate
    <3> QED
      BY <1>2, <1>6, <3>1, Untouched
  <2> QED
    BY <1>1, <1>6, <2>1 DEF IInv
<1>7. ASSUME NEW r \in Receivers, Receive(r) PROVE IInv'
  <2>1. LinkInv' /\ \A s \in Receivers : PullAt(s)' = PullAt(s)
    BY <1>2, <1>7, LinkReceive
  <2>2. ReceiverInv(r)'
    BY <1>2, <1>7, <2>1, ReceiveKept
  <2> QED
    BY <1>6, <1>7, <2>1, <2>2
<1>8. ASSUME NEW r \in Receivers, Pull(r) PROVE IInv'
  <2>1. CASE NextBucket(r)
    <3>1. BufferInv(r)
      BY <1>2 DEF ReceiverInv
    <3>2. LinkInv' /\ \A s \in Receivers : PullAt(s)' = PullAt(s)
      BY <1>2, <2>1, <3>1, LinkNext
    <3>3. ReceiverInv(r)'
      BY <1>2, <2>1, <3>2, NextBucketKept
    <3> QED
      BY <1>6, <1>8, <3>2, <3>3
  <2>2. CASE PullWhole(r) \/ PullChunk(r)
    <3>1. LinkInv' /\ \A s \in Receivers \ {r} : PullAt(s)' = PullAt(s)
      BY <1>2, <2>2, PullFacts
    <3>2. ReceiverInv(r)'
      BY <1>2, <2>2, PullWholeKept, PullChunkKept
    <3> QED
      BY <1>6, <1>8, <3>1, <3>2
  <2> QED
    BY <1>8, <2>1, <2>2 DEF Pull
<1>9. ASSUME NEW r \in Receivers, Forward(r) \/ Copy(r) \/ Load(r) PROVE IInv'
  <2>1. UNCHANGED <<op, bucket, gen, got, items>>
    BY <1>9 DEF Forward, PutWeight, SendBucket, SendLarge, SendLast, Copy, Load, trainer, merging
  <2>2. LinkInv' /\ \A s \in Receivers : PullAt(s)' = PullAt(s)
    BY <1>2, <2>1, LinkStill
  <2>3. ReceiverInv(r)'
    BY <1>2, <1>9, <2>2, PutWeightKept, SendBucketKept, SendLargeKept, SendLastKept, CopyKept,
       LoadKept DEF Forward
  <2> QED
    BY <1>6, <1>9, <2>2, <2>3
<1> QED
  BY <1>4, <1>5, <1>7, <1>8, <1>9 DEF Next

\* The inductive invariant.
THEOREM Invariance == Spec => []IInv
<1>1. Init => IInv
  BY Initially
<1>2. IInv /\ [Next]_vars => IInv'
  BY Kept
<1> QED
  BY <1>1, <1>2, PTL DEF Spec

\* No buffer is overwritten early: each bucket, on its way, received and while
\* its chunks are yielded, holds the bytes of the chunks it is said to hold,
\* though both sides fill their other buffer meanwhile.
THEOREM BucketsStayIntact == Spec => []BucketsIntact
<1>1. IInv => BucketsIntact
  BY DEF IInv, OpInv, ReceiverInv, BufferInv, BucketsIntact
<1> QED
  BY <1>1, Invariance, PTL

\* The assertions of send_weights and merge_weight_chunks hold: a bucket names
\* a weight once, and a large weight's chunks arrive one after the other.
THEOREM ChunksAlwaysMeet == Spec => []ChunksMeet
<1>1. ASSUME IInv PROVE ChunksMeet
  <2>1. ASSUME NEW i \in DOMAIN bucket, NEW j \in DOMAIN bucket, bucket[i].name = bucket[j].name
        PROVE  i = j
    <3>1. /\ bucket \in Seq(Chunks)
          /\ \A k, l \in DOMAIN bucket : k < l => bucket[k].name < bucket[l].name
      BY <1>1 DEF IInv, SendInv
    <3>2. i \in Nat /\ j \in Nat /\ bucket[i] \in Chunks
      BY <3>1, ElementOfSeq, LenProperties
    <3>3. bucket[i].name \in Nat
      BY <3>2, ChunkFacts, SizeFacts
    <3>4. ~(i < j) /\ ~(j < i)
      BY <2>1, <3>1, <3>3
    <3> QED
      BY <3>2, <3>4
  <2>2. ASSUME NEW r \in Receivers, items[r] # <<>>
        PROVE  LET c == Head(items[r])
               IN  IF Sizes[c.name] <= BucketSize THEN merge[r] = None
                   ELSE merge[r] = IF c.chunk_offset = 0 THEN None ELSE <<c.name, c.chunk_offset>>
    <3>1. items[r] \in Seq(Chunks) /\ Linked(items[r], ArrivedAt(r)) /\ MergeInv(r)
      BY <1>1 DEF IInv, ReceiverInv, BufferInv, LinkInv
    <3>2. PICK c \in Chunks : c = Head(items[r]) /\ PullAt(r) = Pos(c)
      BY <2>2, <3>1, LinkedTail DEF PullAt
    <3>3. Sizes[c.name] <= BucketSize => c.chunk_offset = 0
      BY ChunkFacts
    <3>4. merge[r] = IF c.chunk_offset = 0 THEN None ELSE <<c.name, c.chunk_offset>>
      BY <3>1, <3>2 DEF MergeInv, Pos
    <3> QED
      BY <3>2, <3>3, <3>4
  <2> QED
    BY <2>1, <2>2 DEF ChunksMeet
<1> QED
  BY <1>1, Invariance, PTL

\* The safety half of ImplementsStream: every step gives an engine the weights
\* that follow those it has, whole and in order, or none of them.
THEOREM StreamIsSafe == Spec => Stream!Init /\ [][Stream!Next]_loaded
<1>1. Init => Stream!Init
  BY DEF Init, Stream!Init
<1>2. ASSUME IInv, [Next]_vars PROVE [Stream!Next]_loaded
  <2>1. CASE UNCHANGED loaded
    BY <2>1
  <2>2. ASSUME NEW r \in Receivers, Load(r) PROVE [Stream!Next]_loaded
    <3>1. ShapeInv /\ ReceiverInv(r) /\ LinkInv
      BY <1>2 DEF IInv
    <3>2. UNCHANGED <<op, bucket, gen, got, items>>
      BY <2>2 DEF Load, trainer, merging
    <3>3. PullAt(r)' = PullAt(r)
      BY <3>1, <3>2, LinkStill
    <3>4. PICK a, b \in 0 .. Len(Sizes) : /\ a <= b /\ a = Len(loaded[r])
                                         /\ loaded[r] = SubSeq(Weights, 1, a)
                                         /\ loaded'[r] = SubSeq(Weights, 1, b)
      BY <2>2, <3>1, <3>3, LoadKept
    <3>5. PICK x : loaded' = [loaded EXCEPT ![r] = x]
      BY <2>2 DEF Load
    <3>6. /\ loaded' = [loaded EXCEPT ![r] = SubSeq(Weights, 1, b)]
          /\ loaded = [s \in Receivers |-> loaded[s]]
      BY <3>1, <3>4, <3>5 DEF ShapeInv
    <3>7. CASE a = b
      <4>1. loaded' = loaded
        BY <3>4, <3>6, <3>7
      <4> QED
        BY <4>1
    <3>8. CASE a < b
      <4>1. Len(Weights) = Len(Sizes)
        BY SizeFacts DEF Weights
      <4>2. b \in Len(loaded[r]) + 1 .. Len(Weights)
        BY <3>4, <3>8, <4>1, SizeFacts
      <4> QED
        BY <3>6, <4>2 DEF Stream!Next, Stream!Load
    <3> QED
      BY <3>4, <3>7, <3>8, SizeFacts
  <2>3. CASE Send
    BY <2>1, <2>3 DEF Send, Fill, Flush, FlushLast
  <2>4. ASSUME NEW r \in Receivers, Receive(r) \/ Pull(r) \/ Forward(r) \/ Copy(r) PROVE UNCHANGED loaded
    BY <2>4 DEF Receive, Pull, NextBucket, PullWhole, PullChunk, Forward, PutWeight, SendBucket,
                SendLarge, SendLast, Copy
  <2> QED
    BY <1>2, <2>1, <2>2, <2>3, <2>4 DEF Next, vars
<1> QED
  BY <1>1, <1>2, Invariance, PTL DEF Spec
=============================================================================
