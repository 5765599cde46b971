--------------------------- MODULE RewardLoopProofs ---------------------------
(***************************************************************************)
(* Theorems about RewardLoop, for any batch, workers, buckets, permits,     *)
(* threads, servers and numbers of attempts: its types, that every limiter  *)
(* keeps its rate and every worker its concurrency, and that no post is    *)
(* given up while a server is alive.                                        *)
(***************************************************************************)
EXTENDS RewardLoop, FiniteSetTheorems, SequenceTheorems, TLAPS

LEMMA Positive ==
  /\ Batch \in Nat /\ Batch > 0 /\ Workers \in Nat /\ Workers > 0
  /\ MaxConcurrent \in Nat /\ Threads \in Nat /\ Timeout \in Nat
  /\ NumServers \in Nat /\ MaxErrors \in Nat
  /\ MaxAttempts \in Nat /\ MaxAttempts > 0 /\ MaxRetries \in Nat /\ MaxRetries > 0
BY BatchAssumption, LimitsAssumption, RouterAssumption

LEMMA BucketTypes ==
  /\ Len(Buckets) \in Nat /\ Limiters = 1 .. Len(Buckets)
  /\ \A b \in Limiters : /\ Buckets[b].max \in Nat /\ Buckets[b].max > 0
                         /\ Buckets[b].need \in Nat /\ Buckets[b].need > 0
<1>1. Buckets \in Seq([max : Nat \ {0}, need : Nat \ {0}])
  BY LimitsAssumption
<1>2. Len(Buckets) \in Nat /\ Limiters = 1 .. Len(Buckets)
  BY <1>1 DEF Limiters
<1> DEFINE Bs == [max : Nat \ {0}, need : Nat \ {0}]
<1>3. \A b \in Limiters : Buckets[b] \in Bs
  <2> HIDE DEF Bs
  <2>1. Buckets \in Seq(Bs)
    BY <1>1 DEF Bs
  <2> QED
    BY <2>1, <1>2, ElementOfSeq
<1> QED
  BY <1>2, <1>3

\* Division by a positive number, which need not be a numeral.
LEMMA Quotient ==
  ASSUME NEW a \in Nat, NEW d \in Nat, d > 0, NEW n \in Nat, a < d * n
  PROVE  a \div d \in Nat /\ a \div d < n
<1>1. a \div d \in Nat
  OBVIOUS
<1>2. a \div d < n
  OBVIOUS
<1> QED
  BY <1>1, <1>2

\* Every item has a worker: the chunks are of one size.
LEMMA WorkerType == \A i \in Items : WorkerOf(i) \in Pool
<1> SUFFICES ASSUME NEW i \in Items PROVE WorkerOf(i) \in Pool
  OBVIOUS
<1> DEFINE d == Batch \div Workers
<1>1. Batch % Workers = 0
  BY BatchAssumption
<1>2. d \in Nat /\ Batch = Workers * d
  BY <1>1, Positive
<1>3. d > 0
  BY <1>2, Positive
<1>4. i - 1 \in Nat /\ i - 1 < d * Workers
  BY <1>2, Positive DEF Items
<1>5. (i - 1) \div d \in Nat /\ (i - 1) \div d < Workers
  <2> HIDE DEF d
  <2> QED
    BY <1>2, <1>3, <1>4, Positive, Quotient
<1> QED
  BY <1>5, Positive DEF WorkerOf, Pool

LEMMA ItemSets ==
  ASSUME NEW S \in SUBSET Items
  PROVE  IsFiniteSet(S) /\ Cardinality(S) \in Nat
<1>1. IsFiniteSet(Items)
  BY Positive, FS_Interval DEF Items
<1> QED
  BY <1>1, FS_Subset, FS_CardinalityType

LEMMA OneMore ==
  ASSUME NEW S \in SUBSET Items, NEW i \in Items \ S
  PROVE  Cardinality(S \union {i}) = Cardinality(S) + 1
BY ItemSets, FS_AddElement

LEMMA OneLess ==
  ASSUME NEW S \in SUBSET Items, NEW i \in S
  PROVE  Cardinality(S \ {i}) = Cardinality(S) - 1
BY ItemSets, FS_RemoveElement
-----------------------------------------------------------------------------
(***************************************************************************)
(* The inductive invariant: permits and the items that have one add up;     *)
(* who waits for a permit, a thread or in one is where it should be.        *)
(***************************************************************************)
StageInv == \A i \in Items : pc[i] \in {"short", "paying"} => stage[i] \in Limiters

LevelInv == \A w \in Pool, b \in Limiters : level[w][b] <= Buckets[b].max

Holders(w) == {i \in Items : WorkerOf(i) = w /\ pc[i] \in {"granted", "calling"}}

PermitInv == \A w \in Pool : permits[w] + Cardinality(Holders(w)) = MaxConcurrent

WaitersInv ==
    \A w \in Pool :
        /\ \A n \in DOMAIN waiters[w] :
              WorkerOf(waiters[w][n]) = w /\ pc[waiters[w][n]] = "queued"
        /\ \A m, n \in DOMAIN waiters[w] : waiters[w][m] = waiters[w][n] => m = n

\* An item whose job waits for a thread, or is in one.
AtWork(i) == pc[i] = "decoding" \/ (sync /\ pc[i] = "calling")

JobsInv ==
    \A w \in Pool :
        /\ \A n \in DOMAIN jobs[w] :
              WorkerOf(jobs[w][n]) = w /\ AtWork(jobs[w][n]) /\ jobs[w][n] \notin busy[w]
        /\ \A m, n \in DOMAIN jobs[w] : jobs[w][m] = jobs[w][n] => m = n

BusyInv ==
    \A w \in Pool : \A i \in busy[w] :
        /\ WorkerOf(i) = w
        /\ AtWork(i) \/ (pc[i] = "settled" /\ score[i] = "timeout")

IInv ==
    /\ TypeOK /\ StageInv /\ LevelInv /\ PermitInv /\ WaitersInv /\ JobsInv /\ BusyInv

LEMMA Initially == Init => IInv
<1> SUFFICES ASSUME Init PROVE IInv
  OBVIOUS
<1>1. TypeOK
  <2>1. 0 \in 0 .. MaxAttempts - 1 /\ 0 \in 0 .. MaxRetries - 1
    BY Positive
  <2> QED
    BY <2>1, Positive, BucketTypes, EmptySeq DEF Init, TypeOK, Places, Scores, FailedScores
<1>2. StageInv /\ LevelInv
  BY BucketTypes DEF Init, StageInv, LevelInv
<1>3. PermitInv
  <2> SUFFICES ASSUME NEW w \in Pool PROVE permits[w] + Cardinality(Holders(w)) = MaxConcurrent
    BY DEF PermitInv
  <2>1. Holders(w) = {}
    BY DEF Init, Holders
  <2>2. permits[w] = MaxConcurrent
    BY DEF Init
  <2> QED
    BY <2>1, <2>2, FS_EmptySet, Positive
<1>4. WaitersInv /\ JobsInv /\ BusyInv
  BY DEF Init, WaitersInv, JobsInv, BusyInv
<1> QED
  BY <1>1, <1>2, <1>3, <1>4 DEF IInv
-----------------------------------------------------------------------------
(***************************************************************************)
(* Finish, whatever the outcome.                                           *)
(***************************************************************************)
LEMMA HolderHasPermit ==
  ASSUME IInv, NEW i \in Items, pc[i] \in {"granted", "calling"}
  PROVE  permits[WorkerOf(i)] < MaxConcurrent
<1> DEFINE w == WorkerOf(i)
<1>1. w \in Pool
  BY WorkerType
<1>2. i \in Holders(w) /\ Holders(w) \in SUBSET Items
  BY DEF Holders
<1>3. Cardinality(Holders(w)) \in Nat /\ Cardinality(Holders(w)) > 0
  BY <1>2, ItemSets, FS_EmptySet
<1>4. permits[w] + Cardinality(Holders(w)) = MaxConcurrent /\ permits[w] \in Nat
  BY <1>1, Positive DEF IInv, PermitInv, TypeOK
<1> QED
  BY <1>3, <1>4, Positive

LEMMA FirstWaiter ==
  ASSUME IInv, NEW w \in Pool, waiters[w] # <<>>
  PROVE  /\ Head(waiters[w]) \in Items /\ Tail(waiters[w]) \in Seq(Items)
         /\ WorkerOf(Head(waiters[w])) = w /\ pc[Head(waiters[w])] = "queued"
         /\ Len(waiters[w]) \in Nat /\ Len(waiters[w]) > 0
         /\ Head(waiters[w]) = waiters[w][1]
         /\ Len(Tail(waiters[w])) = Len(waiters[w]) - 1
         /\ \A n \in DOMAIN Tail(waiters[w]) :
               n + 1 \in DOMAIN waiters[w] /\ Tail(waiters[w])[n] = waiters[w][n + 1]
<1>1. waiters[w] \in Seq(Items)
  BY DEF IInv, TypeOK
<1>2. Len(waiters[w]) \in Nat /\ Len(waiters[w]) > 0
  BY <1>1, EmptySeq
<1>3. /\ Head(waiters[w]) \in Items /\ Tail(waiters[w]) \in Seq(Items)
      /\ Head(waiters[w]) = waiters[w][1] /\ Len(Tail(waiters[w])) = Len(waiters[w]) - 1
  BY <1>1, <1>2, HeadTailProperties
<1>4. \A n \in DOMAIN Tail(waiters[w]) :
         n + 1 \in DOMAIN waiters[w] /\ Tail(waiters[w])[n] = waiters[w][n + 1]
  BY <1>1, <1>2, <1>3, HeadTailProperties
<1>5. 1 \in DOMAIN waiters[w]
  BY <1>1, <1>2
<1>6. WorkerOf(waiters[w][1]) = w /\ pc[waiters[w][1]] = "queued"
  BY <1>5 DEF IInv, WaitersInv
<1> QED
  BY <1>2, <1>3, <1>4, <1>6

\* The permit is returned or handed on.
LEMMA FinishPermits ==
  ASSUME IInv, NEW i \in Items, pc[i] = "calling", NEW how \in Scores, Finish(i, how)
  PROVE  /\ score' \in [Items -> Scores] /\ pc' \in [Items -> Places]
         /\ permits' \in [Pool -> 0 .. MaxConcurrent] /\ waiters' \in [Pool -> Seq(Items)]
         /\ PermitInv' /\ WaitersInv'
<1> DEFINE w == WorkerOf(i)
<1>1. w \in Pool
  BY WorkerType
<1>2. score' \in [Items -> Scores]
  BY DEF Finish, IInv, TypeOK
<1>3. i \in Holders(w) /\ Holders(w) \in SUBSET Items
  BY DEF Holders
<1>4. Cardinality(Holders(w)) \in Nat
  BY <1>3, ItemSets
<1>5. permits[w] < MaxConcurrent /\ permits \in [Pool -> 0 .. MaxConcurrent]
  BY HolderHasPermit DEF IInv, TypeOK
<1>6. CASE waiters[w] = <<>>
  <2>1. /\ permits' = [permits EXCEPT ![w] = @ + 1]
        /\ pc' = [pc EXCEPT ![i] = "settled"]
        /\ waiters' = waiters
    BY <1>6 DEF Finish, Goto
  <2>2. pc' \in [Items -> Places] /\ waiters' \in [Pool -> Seq(Items)]
    BY <2>1 DEF IInv, TypeOK, Places
  <2>3. permits' \in [Pool -> 0 .. MaxConcurrent]
    BY <2>1, <1>1, <1>5, Positive
  <2>4. PermitInv'
    <3> SUFFICES ASSUME NEW v \in Pool
                 PROVE  permits'[v] + Cardinality(Holders(v)') = MaxConcurrent
      BY DEF PermitInv
    <3>1. CASE v = w
      <4>1. Holders(v)' = Holders(w) \ {i}
        BY <3>1, <2>1 DEF Holders, IInv, TypeOK
      <4> QED
        BY <4>1, <3>1, <1>1, <1>3, <1>4, <1>5, <2>1, OneLess, Positive DEF IInv, PermitInv
    <3>2. CASE v # w
      <4>1. Holders(v)' = Holders(v) /\ permits'[v] = permits[v]
        BY <3>2, <2>1 DEF Holders, IInv, TypeOK
      <4> QED
        BY <4>1 DEF IInv, PermitInv
    <3> QED
      BY <3>1, <3>2
  <2>5. WaitersInv'
    <3>1. \A v \in Pool : \A n \in DOMAIN waiters[v] : waiters[v][n] \in Items
      BY DEF IInv, TypeOK
    <3>2. \A v \in Pool : \A n \in DOMAIN waiters[v] :
             waiters[v][n] # i /\ pc'[waiters[v][n]] = pc[waiters[v][n]]
      BY <3>1, <2>1 DEF IInv, TypeOK, WaitersInv
    <3> QED
      BY <3>2, <2>1 DEF IInv, WaitersInv
  <2> QED
    BY <1>2, <2>2, <2>3, <2>4, <2>5
<1>7. CASE waiters[w] # <<>>
  <2> DEFINE j == Head(waiters[w])
  <2>1. /\ permits' = permits
        /\ pc' = [pc EXCEPT ![i] = "settled", ![j] = "granted"]
        /\ waiters' = [waiters EXCEPT ![w] = Tail(@)]
    BY <1>7 DEF Finish, Goto
  <2>2. j \in Items /\ j # i /\ WorkerOf(j) = w /\ pc[j] = "queued" /\ j \notin Holders(w)
    BY <1>1, <1>7, FirstWaiter DEF Holders
  <2>3. pc' \in [Items -> Places] /\ permits' \in [Pool -> 0 .. MaxConcurrent]
    BY <2>1, <1>5 DEF IInv, TypeOK, Places
  <2>4. waiters' \in [Pool -> Seq(Items)]
    BY <2>1, <1>1, <1>7, FirstWaiter DEF IInv, TypeOK
  <2>5. PermitInv'
    <3> SUFFICES ASSUME NEW v \in Pool
                 PROVE  permits'[v] + Cardinality(Holders(v)') = MaxConcurrent
      BY DEF PermitInv
    <3>1. CASE v = w
      <4> DEFINE rest == Holders(w) \ {i}
      <4>1. Holders(v)' = rest \union {j}
        BY <3>1, <2>1, <2>2 DEF Holders, IInv, TypeOK
      <4>2. rest \in SUBSET Items /\ j \in Items \ rest
        BY <2>2, <1>3
      <4>3. Cardinality(rest) = Cardinality(Holders(w)) - 1
        BY <1>3, OneLess
      <4>4. Cardinality(rest \union {j}) = Cardinality(rest) + 1
        <5> HIDE DEF rest, j
        <5> QED
          BY <4>2, OneMore
      <4>5. permits[w] + Cardinality(Holders(w)) = MaxConcurrent
        BY <1>1 DEF IInv, PermitInv
      <4> HIDE DEF rest, j
      <4> QED
        BY <4>1, <4>3, <4>4, <4>5, <3>1, <2>1, <1>4
    <3>2. CASE v # w
      <4>1. Holders(v)' = Holders(v)
        BY <3>2, <2>1, <2>2 DEF Holders, IInv, TypeOK
      <4> QED
        BY <4>1, <2>1 DEF IInv, PermitInv
    <3> QED
      BY <3>1, <3>2
  <2>6. WaitersInv'
    <3> SUFFICES ASSUME NEW v \in Pool
                 PROVE  /\ \A n \in DOMAIN waiters'[v] :
                              WorkerOf(waiters'[v][n]) = v /\ pc'[waiters'[v][n]] = "queued"
                        /\ \A m, n \in DOMAIN waiters'[v] :
                              waiters'[v][m] = waiters'[v][n] => m = n
      BY DEF WaitersInv
    <3>0. waiters[v] \in Seq(Items)
      BY DEF IInv, TypeOK
    <3>1. CASE v = w
      <4>1. waiters'[v] = Tail(waiters[w])
        BY <3>1, <2>1, <1>1 DEF IInv, TypeOK
      <4>2. \A n \in DOMAIN Tail(waiters[w]) :
               /\ n \in Nat \ {0} /\ n + 1 \in DOMAIN waiters[w]
               /\ Tail(waiters[w])[n] = waiters[w][n + 1]
        <5>1. DOMAIN Tail(waiters[w]) = 1 .. Len(Tail(waiters[w]))
          BY <1>1, <1>7, FirstWaiter
        <5> QED
          BY <5>1, <1>1, <1>7, FirstWaiter
      <4>3. 1 \in DOMAIN waiters[w] /\ j = waiters[w][1]
        BY <3>0, <3>1, <1>1, <1>7, FirstWaiter
      <4>4. \A n \in DOMAIN waiters[w] :
               /\ waiters[w][n] \in Items
               /\ WorkerOf(waiters[w][n]) = w /\ pc[waiters[w][n]] = "queued"
        BY <3>0, <3>1, <1>1 DEF IInv, WaitersInv
      <4>5. \A m, n \in DOMAIN waiters[w] : waiters[w][m] = waiters[w][n] => m = n
        BY <1>1 DEF IInv, WaitersInv
      <4>6. \A n \in DOMAIN Tail(waiters[w]) :
               Tail(waiters[w])[n] # j /\ Tail(waiters[w])[n] # i
        <5> HIDE DEF j
        <5> QED
          BY <4>2, <4>3, <4>4, <4>5
      <4>7. \A n \in DOMAIN Tail(waiters[w]) :
               /\ WorkerOf(Tail(waiters[w])[n]) = w
               /\ pc'[Tail(waiters[w])[n]] = "queued"
        <5>1. pc \in [Items -> Places]
          BY DEF IInv, TypeOK
        <5> HIDE DEF j
        <5>2. \A x \in Items \ {i, j} : pc'[x] = pc[x]
          BY <5>1, <2>1
        <5>3. \A n \in DOMAIN Tail(waiters[w]) :
                 /\ Tail(waiters[w])[n] \in Items \ {i, j}
                 /\ WorkerOf(Tail(waiters[w])[n]) = w
                 /\ pc[Tail(waiters[w])[n]] = "queued"
          BY <4>2, <4>4, <4>6
        <5> QED
          BY <5>2, <5>3
      <4>8. \A m, n \in DOMAIN Tail(waiters[w]) :
               Tail(waiters[w])[m] = Tail(waiters[w])[n] => m = n
        <5> SUFFICES ASSUME NEW m \in DOMAIN Tail(waiters[w]), NEW n \in DOMAIN Tail(waiters[w]),
                            Tail(waiters[w])[m] = Tail(waiters[w])[n]
                     PROVE  m = n
          OBVIOUS
        <5>1. m + 1 = n + 1
          BY <4>2, <4>5
        <5> QED
          BY <5>1, <4>2
      <4> QED
        BY <3>1, <4>1, <4>7, <4>8
    <3>2. CASE v # w
      <4>1. waiters'[v] = waiters[v]
        BY <3>2, <2>1 DEF IInv, TypeOK
      <4>2. \A n \in DOMAIN waiters[v] :
               /\ waiters[v][n] \in Items
               /\ WorkerOf(waiters[v][n]) = v /\ pc[waiters[v][n]] = "queued"
        BY <3>0 DEF IInv, WaitersInv
      <4>3. \A n \in DOMAIN waiters[v] : waiters[v][n] # i /\ waiters[v][n] # j
        BY <4>2, <3>2, <2>2
      <4>4. \A n \in DOMAIN waiters[v] : pc'[waiters[v][n]] = "queued"
        <5> HIDE DEF j
        <5> QED
          BY <4>2, <4>3, <2>1 DEF IInv, TypeOK
      <4> QED
        BY <4>1, <4>2, <4>4 DEF IInv, WaitersInv
    <3> QED
      BY <3>1, <3>2
  <2> QED
    BY <1>2, <2>3, <2>4, <2>5, <2>6
<1> QED
  BY <1>6, <1>7
-----------------------------------------------------------------------------
(***************************************************************************)
(* Types, the stages of sleepers and the levels of buckets.                *)
(***************************************************************************)
LEMMA Elements ==
  ASSUME TypeOK, NEW w \in Pool
  PROVE  /\ waiters[w] \in Seq(Items) /\ jobs[w] \in Seq(Items)
         /\ \A n \in DOMAIN waiters[w] : waiters[w][n] \in Items
         /\ \A n \in DOMAIN jobs[w] : jobs[w][n] \in Items
         /\ DOMAIN waiters[w] = 1 .. Len(waiters[w]) /\ Len(waiters[w]) \in Nat
         /\ DOMAIN jobs[w] = 1 .. Len(jobs[w]) /\ Len(jobs[w]) \in Nat
<1>1. waiters[w] \in Seq(Items) /\ jobs[w] \in Seq(Items)
  BY DEF TypeOK
<1> QED
  BY <1>1

\* A sequence without its k-th element.
LEMMA OneOut ==
  ASSUME NEW s \in Seq(Items), NEW k \in 1 .. Len(s)
  PROVE  LET t == SubSeq(s, 1, k - 1) \o SubSeq(s, k + 1, Len(s))
         IN  /\ t \in Seq(Items) /\ Len(t) = Len(s) - 1
             /\ \A n \in 1 .. Len(s) - 1 : t[n] = s[IF n < k THEN n ELSE n + 1]
<1> DEFINE a == SubSeq(s, 1, k - 1)
           c == SubSeq(s, k + 1, Len(s))
           t == a \o c
<1>0. Len(s) \in Nat /\ k \in Nat /\ k > 0 /\ k <= Len(s)
  OBVIOUS
<1>1. a \in Seq(Items) /\ Len(a) = k - 1 /\ \A n \in 1 .. k - 1 : a[n] = s[n]
  <2>1. \A n \in 1 .. k - 1 : n \in 1 .. Len(s)
    BY <1>0
  <2>2. a \in Seq(Items) /\ Len(a) = (IF 1 <= k - 1 THEN (k - 1) - 1 + 1 ELSE 0)
    BY <1>0, <2>1, SubSeqProperties
  <2>3. \A n \in 1 .. k - 1 : a[n] = s[1 + n - 1]
    BY <1>0, <2>1, SubSeqProperties
  <2> HIDE DEF a
  <2> QED
    BY <1>0, <2>2, <2>3
<1>2. c \in Seq(Items) /\ Len(c) = Len(s) - k /\ \A n \in 1 .. Len(s) - k : c[n] = s[n + k]
  <2>1. \A n \in k + 1 .. Len(s) : n \in 1 .. Len(s)
    BY <1>0
  <2>2. c \in Seq(Items) /\ Len(c) = (IF k + 1 <= Len(s) THEN Len(s) - (k + 1) + 1 ELSE 0)
    BY <1>0, <2>1, SubSeqProperties
  <2>3. \A n \in 1 .. Len(s) - (k + 1) + 1 : c[n] = s[(k + 1) + n - 1]
    BY <1>0, <2>1, SubSeqProperties
  <2> HIDE DEF c
  <2>4. \A n \in 1 .. Len(s) - k : (k + 1) + n - 1 = n + k /\ n \in 1 .. Len(s) - (k + 1) + 1
    BY <1>0
  <2> QED
    BY <1>0, <2>2, <2>3, <2>4
<1> HIDE DEF a, c
<1>3. /\ t \in Seq(Items) /\ Len(t) = Len(a) + Len(c)
      /\ \A n \in 1 .. Len(a) + Len(c) : t[n] = IF n <= Len(a) THEN a[n] ELSE c[n - Len(a)]
  BY <1>1, <1>2, ConcatProperties
<1> HIDE DEF t
<1>4. ASSUME NEW n \in 1 .. Len(s) - 1 PROVE t[n] = s[IF n < k THEN n ELSE n + 1]
  <2>1. CASE n < k
    <3>1. n \in 1 .. k - 1 /\ n <= Len(a) /\ n \in 1 .. Len(a) + Len(c)
      BY <2>1, <1>0, <1>1, <1>2
    <3> QED
      BY <3>1, <2>1, <1>1, <1>3
  <2>2. CASE ~(n < k)
    <3> DEFINE m == n - Len(a)
    <3>1. m \in 1 .. Len(s) - k /\ m + k = n + 1 /\ ~(n <= Len(a)) /\ n \in 1 .. Len(a) + Len(c)
      BY <2>2, <1>0, <1>1, <1>2
    <3>2. t[n] = c[m]
      BY <3>1, <1>3
    <3>3. c[m] = s[m + k]
      <4> HIDE DEF m
      <4> QED
        BY <3>1, <1>2
    <3> HIDE DEF m
    <3> QED
      BY <3>1, <3>2, <3>3, <2>2
  <2> QED
    BY <2>1, <2>2
<1>5. /\ t \in Seq(Items) /\ Len(t) = Len(s) - 1
      /\ \A n \in 1 .. Len(s) - 1 : t[n] = s[IF n < k THEN n ELSE n + 1]
  BY <1>0, <1>1, <1>2, <1>3, <1>4
<1> QED
  BY <1>5 DEF t, a, c

\* A queue without an item: what is left, and that the item is gone.
LEMMA WithoutIt ==
  ASSUME NEW s \in Seq(Items), NEW i \in Items,
         \A m, n \in DOMAIN s : s[m] = s[n] => m = n
  PROVE  /\ Without(s, i) \in Seq(Items)
         /\ \A n \in DOMAIN Without(s, i) : Without(s, i)[n] # i
         /\ \A n \in DOMAIN Without(s, i) : \E m \in DOMAIN s : Without(s, i)[n] = s[m]
         /\ \A m, n \in DOMAIN Without(s, i) : Without(s, i)[m] = Without(s, i)[n] => m = n
<1>1. DOMAIN s = 1 .. Len(s) /\ Len(s) \in Nat
  OBVIOUS
<1>2. CASE ~\E n \in DOMAIN s : s[n] = i
  BY <1>2 DEF Without
<1>3. CASE \E n \in DOMAIN s : s[n] = i
  <2> DEFINE k == CHOOSE n \in DOMAIN s : s[n] = i
             t == SubSeq(s, 1, k - 1) \o SubSeq(s, k + 1, Len(s))
             at(n) == IF n < k THEN n ELSE n + 1
  <2>1. k \in 1 .. Len(s) /\ s[k] = i
    BY <1>1, <1>3
  <2>2. Without(s, i) = t
    BY <1>3 DEF Without
  <2> HIDE DEF k
  <2>3. t \in Seq(Items) /\ Len(t) = Len(s) - 1 /\ \A n \in 1 .. Len(s) - 1 : t[n] = s[at(n)]
    BY <2>1, OneOut
  <2> HIDE DEF t
  <2>4. DOMAIN t = 1 .. Len(s) - 1
    BY <2>3
  <2>5. \A n \in DOMAIN t : at(n) \in DOMAIN s /\ at(n) # k
    BY <1>1, <2>1, <2>4
  <2>6. \A m, n \in DOMAIN t : at(m) = at(n) => m = n
    BY <2>1, <2>4, <1>1
  <2> HIDE DEF at
  <2>7. \A n \in DOMAIN t : t[n] = s[at(n)]
    BY <2>3, <2>4
  <2>8. \A n \in DOMAIN t : t[n] # i
    <3>1. k \in DOMAIN s
      BY <1>1, <2>1
    <3> QED
      BY <3>1, <2>1, <2>5, <2>7
  <2>9. \A m, n \in DOMAIN t : t[m] = t[n] => m = n
    BY <2>5, <2>6, <2>7
  <2> QED
    BY <2>2, <2>3, <2>5, <2>7, <2>8, <2>9
<1> QED
  BY <1>2, <1>3

LEMMA TickTypes ==
  ASSUME IInv, Tick
  PROVE  TypeOK' /\ LevelInv'
<1> USE DEF IInv
<1>1. sleep' \in [Items -> Nat]
  <2>1. \A i \in Sleeping : sleep[i] \in Nat /\ sleep[i] > 0
    BY DEF Sleeping, TypeOK
  <2> QED
    BY <2>1 DEF Tick, TypeOK
<1>2. age' \in [Items -> 0 .. Timeout]
  <2>1. \A i \in Calling : age[i] \in 0 .. Timeout /\ age[i] < Timeout
    BY DEF Calling, TypeOK
  <2> QED
    BY <2>1, Positive DEF Tick, TypeOK
<1>3. level' \in [Pool -> [Limiters -> Int]]
  BY BucketTypes DEF Tick, TypeOK
<1>4. meter' \in [Pool -> [Limiters -> Nat]]
  <2>1. \A n \in Nat : Down(n) \in Nat
    BY DEF Down
  <2> QED
    BY <2>1 DEF Tick, TypeOK
<1>5. LevelInv'
  <2> SUFFICES ASSUME NEW w \in Pool, NEW b \in Limiters
               PROVE  level'[w][b] <= Buckets[b].max
    BY DEF LevelInv
  <2>1. level[w][b] \in Int /\ level[w][b] <= Buckets[b].max /\ Buckets[b].max \in Nat
    BY BucketTypes DEF LevelInv, TypeOK
  <2> QED
    BY <2>1 DEF Tick
<1> QED
  BY <1>1, <1>2, <1>3, <1>4, <1>5 DEF Tick, TypeOK, config, threads, router

LEMMA PayTypes ==
  ASSUME IInv, NEW i \in Items, stage[i] \in Limiters, Pay(i)
  PROVE  level' \in [Pool -> [Limiters -> Int]] /\ LevelInv'
<1> USE DEF IInv
<1> DEFINE w == WorkerOf(i)
           b == stage[i]
<1>1. w \in Pool /\ b \in Limiters
  BY WorkerType
<1>2. level' = [level EXCEPT ![w][b] = @ - Buckets[b].need]
  BY DEF Pay, Bucket
<1>3. level' \in [Pool -> [Limiters -> Int]]
  <2>1. Buckets[b].need \in Nat /\ level \in [Pool -> [Limiters -> Int]]
    BY <1>1, BucketTypes DEF TypeOK
  <2> HIDE DEF w, b
  <2>2. [level[w] EXCEPT ![b] = @ - Buckets[b].need] \in [Limiters -> Int]
    BY <1>1, <2>1
  <2> QED
    BY <1>1, <1>2, <2>1, <2>2
<1>4. ASSUME NEW v \in Pool, NEW c \in Limiters PROVE level'[v][c] <= Buckets[c].max
  <2>1. level[v][c] \in Int /\ level[v][c] <= Buckets[c].max
    BY DEF LevelInv, TypeOK
  <2>2. level'[v][c] = level[v][c] \/ level'[v][c] = level[v][c] - Buckets[c].need
    BY <1>1, <1>2 DEF TypeOK
  <2> QED
    BY <2>1, <2>2, BucketTypes
<1> QED
  BY <1>3, <1>4 DEF LevelInv

LEMMA AdmitTypes ==
  ASSUME IInv, NEW i \in Items, stage[i] \in Limiters, Admit(i)
  PROVE  /\ stage' \in [Items -> 1 .. Len(Buckets) + 1]
         /\ meter' \in [Pool -> [Limiters -> Nat]]
<1> USE DEF IInv
<1>1. WorkerOf(i) \in Pool
  BY WorkerType
<1>2. stage' \in [Items -> 1 .. Len(Buckets) + 1]
  BY BucketTypes DEF Admit, TypeOK
<1>3. meter' \in [Pool -> [Limiters -> Nat]]
  <2> DEFINE w == WorkerOf(i)
             b == stage[i]
  <2>1. meter' = [meter EXCEPT ![w][b] = @ + Buckets[b].need]
    BY DEF Admit, Bucket
  <2>2. w \in Pool /\ b \in Limiters /\ Buckets[b].need \in Nat
    BY <1>1, BucketTypes
  <2>3. meter \in [Pool -> [Limiters -> Nat]]
    BY DEF TypeOK
  <2> HIDE DEF w, b
  <2>4. [meter[w] EXCEPT ![b] = @ + Buckets[b].need] \in [Limiters -> Nat]
    BY <2>2, <2>3
  <2> QED
    BY <2>1, <2>2, <2>3, <2>4
<1> QED
  BY <1>2, <1>3

\* How long a request sleeps.
LEMMA ShortTypes ==
  ASSUME IInv, NEW i \in Items, stage[i] \in Limiters, Bucket(i).need > Level(i)
  PROVE  Bucket(i).need - Level(i) \in Nat
<1>1. WorkerOf(i) \in Pool
  BY WorkerType
<1>2. Level(i) \in Int /\ Bucket(i).need \in Nat
  BY <1>1, BucketTypes DEF Level, Bucket, IInv, TypeOK
<1> QED
  BY <1>2

\* Every step keeps the types; the permits are those of Enter and Finish.
LEMMA TypesStep == IInv /\ [Next]_vars => TypeOK' /\ StageInv' /\ LevelInv'
<1> SUFFICES ASSUME IInv, [Next]_vars PROVE TypeOK' /\ StageInv' /\ LevelInv'
  OBVIOUS
<1> USE DEF IInv
<1>0. \A i \in Items : WorkerOf(i) \in Pool
  BY WorkerType
<1>1. CASE UNCHANGED vars
  BY <1>1 DEF vars, config, items, limits, threads, router, TypeOK, StageInv, LevelInv
<1>2. CASE Tick
  BY <1>2, TickTypes DEF Tick, StageInv
<1>3. ASSUME NEW w \in Pool, StartJob(w) PROVE TypeOK' /\ StageInv' /\ LevelInv'
  <2>1. jobs[w] \in Seq(Items) /\ jobs[w] # <<>>
    BY <1>3 DEF StartJob, TypeOK
  <2>2. Head(jobs[w]) \in Items /\ Tail(jobs[w]) \in Seq(Items)
    BY <2>1, HeadTailProperties
  <2> QED
    BY <1>3, <2>2 DEF StartJob, config, items, limits, router, TypeOK, StageInv, LevelInv
<1>4. ASSUME NEW i \in Items, Begin(i) \/ Call(i) PROVE TypeOK' /\ StageInv' /\ LevelInv'
  <2>1. jobs' \in [Pool -> Seq(Items)]
    <3>1. Append(jobs[WorkerOf(i)], i) \in Seq(Items)
      BY <1>0, AppendProperties DEF TypeOK
    <3> QED
      BY <1>4, <3>1 DEF Begin, Call, TypeOK
  <2>2. pc' \in [Items -> Places] /\ StageInv'
    BY <1>4 DEF Begin, Call, Goto, TypeOK, Places, StageInv
  <2> QED
    BY <1>4, <2>1, <2>2 DEF Begin, Call, config, limits, router, TypeOK, LevelInv
<1>5. ASSUME NEW i \in Items, Decoded(i) \/ ThreadEnds(i) PROVE TypeOK' /\ StageInv' /\ LevelInv'
  <2>1. pc' \in [Items -> Places] /\ StageInv' /\ busy' \in [Pool -> SUBSET Items]
    BY <1>5, ZenonT(30) DEF Decoded, ThreadEnds, Goto, items, TypeOK, Places, StageInv
  <2> QED
    BY <1>5, <2>1 DEF Decoded, ThreadEnds, config, items, limits, router, TypeOK, LevelInv
<1>6. ASSUME NEW i \in Items, Acquire(i) PROVE TypeOK' /\ StageInv' /\ LevelInv'
  <2>1. stage[i] \in Limiters /\ pc[i] = "limited"
    BY <1>6 DEF Acquire, AtLimiter
  <2>2. level' \in [Pool -> [Limiters -> Int]] /\ LevelInv'
    BY <1>6, <2>1, PayTypes DEF Acquire
  <2>3. stage' \in [Items -> 1 .. Len(Buckets) + 1] /\ meter' \in [Pool -> [Limiters -> Nat]]
    BY <1>6, <2>1, AdmitTypes DEF Acquire
  <2>4. StageInv'
    BY <1>6, <2>1 DEF Acquire, Admit, StageInv, TypeOK
  <2> QED
    BY <1>6, <2>2, <2>3, <2>4 DEF Acquire, config, threads, router, TypeOK
<1>7. ASSUME NEW i \in Items, AcquireLater(i) PROVE TypeOK' /\ StageInv' /\ LevelInv'
  <2>1. stage[i] \in Limiters /\ Bucket(i).need > Level(i)
    BY <1>7 DEF AcquireLater, AtLimiter
  <2>2. Bucket(i).need - Level(i) \in Nat
    BY <2>1, ShortTypes
  <2>3. sleep' \in [Items -> Nat] /\ pc' \in [Items -> Places] /\ StageInv'
    BY <1>7, <2>1, <2>2 DEF AcquireLater, Goto, StageInv, TypeOK, Places
  <2> QED
    BY <1>7, <2>3 DEF AcquireLater, config, limits, threads, router, TypeOK, LevelInv
<1>8. ASSUME NEW i \in Items, AcquireLarge(i) PROVE TypeOK' /\ StageInv' /\ LevelInv'
  <2>1. stage[i] \in Limiters /\ Bucket(i).need > Bucket(i).max
    BY <1>8 DEF AcquireLarge, AtLimiter
  <2>2. Bucket(i).need > Level(i)
    <3>1. Level(i) \in Int /\ Level(i) <= Bucket(i).max
      BY <2>1, <1>0 DEF Level, Bucket, TypeOK, LevelInv
    <3>2. Bucket(i).max \in Nat /\ Bucket(i).need \in Nat
      BY <2>1, BucketTypes DEF Bucket
    <3> QED
      BY <2>1, <3>1, <3>2
  <2>3. Bucket(i).need - Level(i) \in Nat
    BY <2>1, <2>2, ShortTypes
  <2>4. level' \in [Pool -> [Limiters -> Int]] /\ LevelInv'
    BY <1>8, <2>1, PayTypes DEF AcquireLarge
  <2>5. sleep' \in [Items -> Nat] /\ pc' \in [Items -> Places] /\ StageInv'
    BY <1>8, <2>1, <2>3 DEF AcquireLarge, Goto, StageInv, TypeOK, Places
  <2> QED
    BY <1>8, <2>4, <2>5 DEF AcquireLarge, config, threads, router, TypeOK
<1>9. ASSUME NEW i \in Items, Wake(i) PROVE TypeOK' /\ StageInv' /\ LevelInv'
  <2>1. stage[i] \in Limiters /\ pc' = [pc EXCEPT ![i] = "limited"]
    BY <1>9 DEF Wake, Goto, StageInv
  <2>2. /\ stage' \in [Items -> 1 .. Len(Buckets) + 1] /\ meter' \in [Pool -> [Limiters -> Nat]]
        /\ \A j \in Items : j # i => stage'[j] = stage[j]
    <3>1. CASE pc[i] = "paying"
      BY <1>9, <2>1, <3>1, AdmitTypes DEF Wake, Admit, TypeOK
    <3>2. CASE pc[i] # "paying"
      BY <1>9, <3>2 DEF Wake, TypeOK
    <3> QED
      BY <3>1, <3>2
  <2>3. pc' \in [Items -> Places] /\ StageInv'
    BY <2>1, <2>2 DEF StageInv, TypeOK, Places
  <2> QED
    BY <1>9, <2>2, <2>3 DEF Wake, config, threads, router, TypeOK, LevelInv
<1>10. ASSUME NEW i \in Items, Enter(i) PROVE TypeOK' /\ StageInv' /\ LevelInv'
  <2> DEFINE w == WorkerOf(i)
  <2>1. w \in Pool /\ Append(waiters[w], i) \in Seq(Items)
    BY <1>0, AppendProperties DEF TypeOK
  <2>2. permits' \in [Pool -> 0 .. MaxConcurrent]
    <3>1. permits \in [Pool -> 0 .. MaxConcurrent]
      BY DEF TypeOK
    <3>2. permits' = permits \/ (permits[w] > 0 /\ permits' = [permits EXCEPT ![w] = @ - 1])
      BY <1>10 DEF Enter
    <3> QED
      BY <3>1, <3>2, <2>1, Positive
  <2>4. waiters' \in [Pool -> Seq(Items)]
    <3>1. waiters \in [Pool -> Seq(Items)]
      BY DEF TypeOK
    <3>2. waiters' = waiters \/ waiters' = [waiters EXCEPT ![w] = Append(@, i)]
      BY <1>10 DEF Enter
    <3> QED
      BY <3>1, <3>2, <2>1
  <2>3. pc' \in [Items -> Places] /\ StageInv'
    BY <1>10, ZenonT(30) DEF Enter, Goto, StageInv, TypeOK, Places
  <2> QED
    BY <1>10, <2>2, <2>3, <2>4 DEF Enter, config, threads, router, TypeOK, LevelInv
<1>11. ASSUME NEW i \in Items, NEW how \in Scores, Finish(i, how), stage' = stage
       PROVE  StageInv'
  <2>1. \A j \in Items : pc'[j] \in {"short", "paying"} => pc'[j] = pc[j]
    BY <1>11 DEF Finish, Goto, TypeOK
  <2> QED
    BY <1>11, <2>1 DEF StageInv
<1>12. ASSUME NEW i \in Items, Answer(i) PROVE TypeOK' /\ StageInv' /\ LevelInv'
  <2>1. PICK how \in {"float", "error"} \union Dicts : Finish(i, how)
    BY <1>12 DEF Answer
  <2>2. how \in Scores /\ pc[i] = "calling"
    BY <1>12 DEF Answer, Scores, FailedScores
  <2>3. /\ score' \in [Items -> Scores] /\ pc' \in [Items -> Places]
        /\ permits' \in [Pool -> 0 .. MaxConcurrent] /\ waiters' \in [Pool -> Seq(Items)]
    BY <2>1, <2>2, FinishPermits
  <2>4. StageInv'
    BY <1>12, <2>1, <2>2, <1>11 DEF Answer
  <2>5. busy' \in [Pool -> SUBSET Items]
    BY <1>12 DEF Answer, TypeOK
  <2> QED
    BY <1>12, <2>3, <2>4, <2>5 DEF Answer, config, router, TypeOK, LevelInv
<1>13. ASSUME NEW i \in Items, TimeOut(i) PROVE TypeOK' /\ StageInv' /\ LevelInv'
  <2>2. "timeout" \in Scores /\ pc[i] = "calling" /\ Finish(i, "timeout")
    BY <1>13 DEF TimeOut, Scores, FailedScores
  <2>3. /\ score' \in [Items -> Scores] /\ pc' \in [Items -> Places]
        /\ permits' \in [Pool -> 0 .. MaxConcurrent] /\ waiters' \in [Pool -> Seq(Items)]
    BY <2>2, FinishPermits
  <2>4. StageInv'
    BY <1>13, <2>2, <1>11 DEF TimeOut
  <2>5. jobs' \in [Pool -> Seq(Items)]
    <3>1. jobs[WorkerOf(i)] \in Seq(Items)
      BY <1>0 DEF TypeOK
    <3>2. Without(jobs[WorkerOf(i)], i) \in Seq(Items)
      BY <3>1, <1>0, WithoutIt DEF JobsInv
    <3> QED
      BY <1>13, <3>2 DEF TimeOut, TypeOK
  <2> QED
    BY <1>13, <2>3, <2>4, <2>5 DEF TimeOut, config, router, TypeOK, LevelInv
<1>14. ASSUME NEW i \in Items, Select(i) PROVE TypeOK' /\ StageInv' /\ LevelInv'
  <2>1. PICK s \in Servers : /\ url' = [url EXCEPT ![i] = s]
                             /\ counts' = [counts EXCEPT ![s] = @ + 1]
    BY <1>14 DEF Select
  <2>2. url' \in [Items -> Servers \union {NoServer}] /\ counts' \in [Servers -> Nat]
    BY <2>1 DEF TypeOK
  <2>3. pc' \in [Items -> Places] /\ StageInv' /\ tries' \in [Items -> 0 .. MaxAttempts - 1]
    BY <1>14, Positive DEF Select, Goto, StageInv, TypeOK, Places
  <2> QED
    BY <1>14, <2>2, <2>3 DEF Select, config, limits, threads, TypeOK, LevelInv
<1>15. ASSUME NEW i \in Items, Serve(i) PROVE TypeOK' /\ StageInv' /\ LevelInv'
  <2>1. \A n \in Nat : Down(n) \in Nat
    BY DEF Down
  <2>2. counts' \in [Servers -> Nat]
    BY <1>15, <2>1 DEF Serve, TypeOK
  <2>3. url' \in [Items -> Servers \union {NoServer}] /\ score' \in [Items -> Scores]
    BY <1>15 DEF Serve, TypeOK, Scores
  <2>4. pc' \in [Items -> Places] /\ StageInv'
    BY <1>15 DEF Serve, Goto, StageInv, TypeOK, Places
  <2> QED
    BY <1>15, <2>2, <2>3, <2>4 DEF Serve, config, limits, threads, TypeOK, LevelInv
<1>16. ASSUME NEW i \in Items, Fail(i), stage' = stage
       PROVE  /\ url' \in [Items -> Servers \union {NoServer}] /\ counts' \in [Servers -> Nat]
              /\ retries' \in [Items -> 0 .. MaxRetries - 1] /\ score' \in [Items -> Scores]
              /\ pc' \in [Items -> Places] /\ StageInv'
  <2>1. retries' \in [Items -> 0 .. MaxRetries - 1]
    <3>1. retries \in [Items -> 0 .. MaxRetries - 1]
      BY DEF TypeOK
    <3>2. CASE retries[i] + 1 < MaxRetries
      <4>1. retries' = [retries EXCEPT ![i] = @ + 1] /\ retries[i] + 1 \in 0 .. MaxRetries - 1
        BY <1>16, <3>1, <3>2, Positive DEF Fail
      <4> QED
        BY <3>1, <4>1
    <3>3. CASE ~(retries[i] + 1 < MaxRetries)
      BY <1>16, <3>1, <3>3 DEF Fail
    <3> QED
      BY <3>2, <3>3
  <2> QED
    BY <1>16, <2>1 DEF Fail, Goto, StageInv, TypeOK, Places, Scores, FailedScores
<1>17. ASSUME NEW i \in Items, Refuse(i) PROVE TypeOK' /\ StageInv' /\ LevelInv'
  <2>1. CASE tries[i] + 1 < MaxAttempts
    <3>1. tries' \in [Items -> 0 .. MaxAttempts - 1]
      <4>1. tries \in [Items -> 0 .. MaxAttempts - 1] /\ tries' = [tries EXCEPT ![i] = @ + 1]
        BY <1>17, <2>1 DEF Refuse, TypeOK
      <4>2. tries[i] + 1 \in 0 .. MaxAttempts - 1
        BY <4>1, <2>1, Positive
      <4> QED
        BY <4>1, <4>2
    <3> QED
      BY <1>17, <2>1, <3>1 DEF Refuse, config, limits, threads, TypeOK, StageInv, LevelInv
  <2>2. CASE ~(tries[i] + 1 < MaxAttempts)
    <3>1. Fail(i) /\ UNCHANGED tries /\ stage' = stage
      BY <1>17, <2>2 DEF Refuse
    <3> QED
      BY <1>17, <1>16, <3>1 DEF Refuse, config, limits, threads, TypeOK, LevelInv
  <2> QED
    BY <2>1, <2>2
<1>18. ASSUME NEW i \in Items, HTTPError(i) PROVE TypeOK' /\ StageInv' /\ LevelInv'
  <2>1. errors' \in 0 .. MaxErrors
    BY <1>18, Positive DEF HTTPError, TypeOK
  <2> QED
    BY <1>18, <1>16, <2>1 DEF HTTPError, config, limits, threads, TypeOK, LevelInv
<1>19. ASSUME NEW s \in Servers, Die(s) PROVE TypeOK' /\ StageInv' /\ LevelInv'
  BY <1>19 DEF Die, config, items, limits, threads, TypeOK, StageInv, LevelInv
<1>20. CASE Collect \/ \E i \in Items : Raise(i)
  BY <1>20 DEF Collect, Raise, config, items, limits, threads, router, TypeOK, StageInv, LevelInv
<1> QED
  BY <1>1, <1>2, <1>3, <1>4, <1>5, <1>6, <1>7, <1>8, <1>9, <1>10, <1>12, <1>13, <1>14, <1>15,
     <1>17, <1>18, <1>19, <1>20 DEF Next, Own, External
-----------------------------------------------------------------------------
(***************************************************************************)
(* Permits, waiters, jobs and threads.                                     *)
(***************************************************************************)
Kept == PermitInv /\ WaitersInv /\ JobsInv /\ BusyInv

\* Steps that leave places, permits, waiters and jobs alone.
LEMMA SamePlaces ==
  ASSUME IInv, UNCHANGED <<sync, pc, permits, waiters, jobs>>,
         \A w \in Pool : busy'[w] \subseteq busy[w],
         score' = score
  PROVE  Kept'
<1> USE DEF IInv
<1>1. \A w \in Pool : Holders(w)' = Holders(w)
  BY DEF Holders
<1> QED
  BY <1>1 DEF Kept, PermitInv, WaitersInv, JobsInv, BusyInv, AtWork

\* Steps that move one item between places where it has neither.
Apart == {"new", "limited", "short", "paying", "posting", "forwarding"}

LEMMA MovesApart ==
  ASSUME IInv, UNCHANGED <<sync, permits, waiters, jobs, busy>>, NEW i \in Items,
         pc[i] \in Apart, NEW place \in Apart \union {"settled"},
         pc' = [pc EXCEPT ![i] = place],
         \A j \in Items : j # i => score'[j] = score[j]
  PROVE  Kept'
<1> USE DEF IInv
<1>1. \A w \in Pool : Holders(w)' = Holders(w)
  BY DEF Holders, TypeOK, Apart
<1>2. /\ \A w \in Pool : \A n \in DOMAIN waiters[w] : waiters[w][n] \in Items
      /\ \A w \in Pool : \A n \in DOMAIN jobs[w] : jobs[w][n] \in Items
      /\ \A w \in Pool : busy[w] \subseteq Items
  BY Elements DEF TypeOK
<1>3. \A j \in Items : j # i => pc'[j] = pc[j]
  BY DEF TypeOK
<1>4. /\ \A w \in Pool : \A n \in DOMAIN waiters[w] : waiters[w][n] # i
      /\ \A w \in Pool : \A n \in DOMAIN jobs[w] : jobs[w][n] # i
      /\ \A w \in Pool : i \notin busy[w]
  BY DEF WaitersInv, JobsInv, BusyInv, AtWork, Apart
<1>5. PermitInv'
  BY <1>1 DEF PermitInv
<1>6. WaitersInv'
  BY <1>2, <1>3, <1>4 DEF WaitersInv
<1>7. JobsInv'
  BY <1>2, <1>3, <1>4 DEF JobsInv, AtWork
<1>8. BusyInv'
  BY <1>2, <1>3, <1>4 DEF BusyInv, AtWork
<1> QED
  BY <1>5, <1>6, <1>7, <1>8 DEF Kept

\* An item is put at the end of a queue that it is not in.
LEMMA Appended ==
  ASSUME NEW s \in Seq(Items), NEW i \in Items, \A n \in DOMAIN s : s[n] # i,
         \A m, n \in DOMAIN s : s[m] = s[n] => m = n
  PROVE  /\ \A n \in DOMAIN Append(s, i) :
               \/ Append(s, i)[n] = i
               \/ n \in DOMAIN s /\ Append(s, i)[n] = s[n]
         /\ \A m, n \in DOMAIN Append(s, i) : Append(s, i)[m] = Append(s, i)[n] => m = n
<1> DEFINE t == Append(s, i)
<1>1. Len(s) \in Nat /\ DOMAIN s = 1 .. Len(s)
  OBVIOUS
<1>2. /\ DOMAIN t = 1 .. Len(s) + 1 /\ t[Len(s) + 1] = i
      /\ \A n \in 1 .. Len(s) : t[n] = s[n]
  BY AppendProperties
<1> HIDE DEF t
<1>3. \A n \in DOMAIN t : n \in DOMAIN s \/ n = Len(s) + 1
  BY <1>1, <1>2
<1>4. /\ \A n \in DOMAIN t : t[n] = i \/ (n \in DOMAIN s /\ t[n] = s[n])
      /\ \A m, n \in DOMAIN t : t[m] = t[n] => m = n
  BY <1>1, <1>2, <1>3
<1> QED
  BY <1>4 DEF t

LEMMA StartJobKeeps ==
  ASSUME IInv, NEW w \in Pool, StartJob(w)
  PROVE  Kept'
<1> USE DEF IInv
<1> DEFINE i == Head(jobs[w])
<1>1. /\ jobs[w] \in Seq(Items) /\ jobs[w] # <<>>
      /\ busy' = [busy EXCEPT ![w] = @ \union {i}]
      /\ jobs' = [jobs EXCEPT ![w] = Tail(@)]
  BY DEF StartJob, TypeOK
<1>2. UNCHANGED <<sync, pc, score, permits, waiters>>
  BY DEF StartJob, config, items, limits
<1>3. /\ Len(jobs[w]) \in Nat /\ Len(jobs[w]) > 0 /\ DOMAIN jobs[w] = 1 .. Len(jobs[w])
      /\ Tail(jobs[w]) \in Seq(Items) /\ DOMAIN Tail(jobs[w]) = 1 .. Len(jobs[w]) - 1
      /\ \A n \in 1 .. Len(jobs[w]) - 1 : Tail(jobs[w])[n] = jobs[w][n + 1]
      /\ i = jobs[w][1] /\ i \in Items
  <2>1. Len(jobs[w]) \in Nat /\ Len(jobs[w]) > 0 /\ DOMAIN jobs[w] = 1 .. Len(jobs[w])
    BY <1>1, EmptySeq
  <2>2. Tail(jobs[w]) \in Seq(Items) /\ Len(Tail(jobs[w])) = Len(jobs[w]) - 1
    BY <1>1, HeadTailProperties
  <2>3. \A n \in 1 .. Len(Tail(jobs[w])) : Tail(jobs[w])[n] = jobs[w][n + 1]
    BY <1>1, HeadTailProperties
  <2>4. i = jobs[w][1] /\ i \in Items
    BY <1>1, HeadTailProperties
  <2> QED
    BY <2>1, <2>2, <2>3, <2>4
<1> HIDE DEF i
<1>4. PermitInv' /\ WaitersInv'
  <2>1. \A v \in Pool : Holders(v)' = Holders(v)
    BY <1>2 DEF Holders
  <2> QED
    BY <1>2, <2>1 DEF PermitInv, WaitersInv
<1>5. WorkerOf(i) = w /\ AtWork(i) /\ 1 \in DOMAIN jobs[w]
  BY <1>3 DEF JobsInv
<1>6. \A n \in 1 .. Len(jobs[w]) - 1 :
         /\ n + 1 \in DOMAIN jobs[w] /\ Tail(jobs[w])[n] = jobs[w][n + 1]
         /\ Tail(jobs[w])[n] # i
  <2> SUFFICES ASSUME NEW n \in 1 .. Len(jobs[w]) - 1
               PROVE  /\ n + 1 \in DOMAIN jobs[w] /\ Tail(jobs[w])[n] = jobs[w][n + 1]
                      /\ Tail(jobs[w])[n] # i
    OBVIOUS
  <2>1. n + 1 \in DOMAIN jobs[w] /\ Tail(jobs[w])[n] = jobs[w][n + 1] /\ n + 1 # 1
    BY <1>3
  <2> QED
    BY <2>1, <1>3, <1>5 DEF JobsInv
<1>7. JobsInv'
  <2> SUFFICES ASSUME NEW v \in Pool
               PROVE  /\ \A n \in DOMAIN jobs'[v] :
                            /\ WorkerOf(jobs'[v][n]) = v /\ AtWork(jobs[v][n])'
                            /\ jobs'[v][n] \notin busy'[v]
                      /\ \A m, n \in DOMAIN jobs'[v] : jobs'[v][m] = jobs'[v][n] => m = n
    BY DEF JobsInv
  <2>1. CASE v = w
    <3>1. jobs'[v] = Tail(jobs[w]) /\ busy'[v] = busy[w] \union {i}
      BY <2>1, <1>1 DEF TypeOK
    <3>2. \A n \in 1 .. Len(jobs[w]) - 1 :
             /\ WorkerOf(jobs[w][n + 1]) = w /\ AtWork(jobs[w][n + 1])
             /\ jobs[w][n + 1] \notin busy[w]
      BY <1>6 DEF JobsInv
    <3>3. \A m, n \in 1 .. Len(jobs[w]) - 1 : jobs[w][m + 1] = jobs[w][n + 1] => m = n
      <4>1. \A m, n \in 1 .. Len(jobs[w]) - 1 : jobs[w][m + 1] = jobs[w][n + 1] => m + 1 = n + 1
        BY <1>6 DEF JobsInv
      <4> QED
        BY <4>1
    <3>4. \A n \in DOMAIN jobs'[v] :
             /\ n \in 1 .. Len(jobs[w]) - 1 /\ jobs'[v][n] = jobs[w][n + 1]
             /\ jobs'[v][n] # i
      BY <3>1, <1>3, <1>6
    <3>5. \A j : AtWork(j)' <=> AtWork(j)
      BY <1>2 DEF AtWork
    <3> QED
      BY <3>1, <3>2, <3>3, <3>4, <3>5, <2>1
  <2>2. CASE v # w
    <3>1. jobs'[v] = jobs[v] /\ busy'[v] = busy[v]
      BY <2>2, <1>1 DEF TypeOK
    <3>2. \A j : AtWork(j)' <=> AtWork(j)
      BY <1>2 DEF AtWork
    <3> QED
      BY <3>1, <3>2 DEF JobsInv
  <2> QED
    BY <2>1, <2>2
<1>8. BusyInv'
  <2>1. \A v \in Pool : \A j \in busy'[v] : j \in busy[v] \/ (v = w /\ j = i)
    BY <1>1 DEF TypeOK
  <2> QED
    BY <2>1, <1>2, <1>5 DEF BusyInv, AtWork
<1> QED
  BY <1>4, <1>7, <1>8 DEF Kept

\* A job is put at the end of the queue of a worker's threads, if there is one.
LEMMA PutToWork ==
  ASSUME IInv, NEW i \in Items, NEW place \in {"decoding", "calling"},
         UNCHANGED <<sync, permits, waiters, busy, score>>,
         pc[i] = IF place = "calling" THEN "granted" ELSE "new",
         pc' = [pc EXCEPT ![i] = place],
         jobs' = IF place = "decoding" \/ sync
                 THEN [jobs EXCEPT ![WorkerOf(i)] = Append(@, i)] ELSE jobs
  PROVE  Kept'
<1> USE DEF IInv
<1>0. TypeOK
  OBVIOUS
<1>1. \A v \in Pool : Holders(v)' = Holders(v)
  BY DEF Holders, TypeOK
<1>2. /\ \A v \in Pool : \A n \in DOMAIN waiters[v] : waiters[v][n] \in Items
      /\ \A v \in Pool : \A n \in DOMAIN jobs[v] : jobs[v][n] \in Items
      /\ \A v \in Pool : busy[v] \subseteq Items
  BY Elements DEF TypeOK
<1>3. pc'[i] = place /\ \A j \in Items : j # i => pc'[j] = pc[j]
  BY DEF TypeOK
<1>4. /\ \A v \in Pool : \A n \in DOMAIN waiters[v] : waiters[v][n] # i
      /\ \A v \in Pool : \A n \in DOMAIN jobs[v] : jobs[v][n] # i
      /\ \A v \in Pool : i \notin busy[v]
  BY DEF WaitersInv, JobsInv, BusyInv, AtWork
<1>5. PermitInv'
  BY <1>1 DEF PermitInv
<1>6. WaitersInv'
  BY <1>2, <1>3, <1>4 DEF WaitersInv
<1>7. \A j \in Items : AtWork(j) => j # i /\ AtWork(j)'
  BY <1>3 DEF AtWork
<1>8. BusyInv'
  BY <1>2, <1>3, <1>4, <1>7 DEF BusyInv
<1>9. JobsInv'
  <2> SUFFICES ASSUME NEW v \in Pool
               PROVE  /\ \A n \in DOMAIN jobs'[v] :
                            /\ WorkerOf(jobs'[v][n]) = v /\ AtWork(jobs[v][n])'
                            /\ jobs'[v][n] \notin busy'[v]
                      /\ \A m, n \in DOMAIN jobs'[v] : jobs'[v][m] = jobs'[v][n] => m = n
    BY DEF JobsInv
  <2>1. /\ \A n \in DOMAIN jobs[v] :
              /\ WorkerOf(jobs[v][n]) = v /\ AtWork(jobs[v][n])
              /\ jobs[v][n] \notin busy[v] /\ jobs[v][n] \in Items
        /\ \A m, n \in DOMAIN jobs[v] : jobs[v][m] = jobs[v][n] => m = n
    BY <1>2 DEF JobsInv
  <2>2. CASE v = WorkerOf(i) /\ (place = "decoding" \/ sync)
    <3> DEFINE t == Append(jobs[v], i)
    <3>1. jobs[v] \in Seq(Items) /\ jobs'[v] = t /\ busy'[v] = busy[v]
      BY <2>2 DEF TypeOK
    <3>2. /\ \A n \in DOMAIN t : t[n] = i \/ (n \in DOMAIN jobs[v] /\ t[n] = jobs[v][n])
          /\ \A m, n \in DOMAIN t : t[m] = t[n] => m = n
      BY <3>1, <2>1, <1>4, Appended
    <3>3. AtWork(i)' /\ i \notin busy[v]
      BY <2>2, <1>3, <1>4 DEF AtWork
    <3> HIDE DEF t
    <3> QED
      BY <3>1, <3>2, <3>3, <2>1, <2>2, <1>7
  <2>3. CASE ~(v = WorkerOf(i) /\ (place = "decoding" \/ sync))
    <3>1. jobs'[v] = jobs[v] /\ busy'[v] = busy[v]
      BY <2>3 DEF TypeOK
    <3> QED
      BY <3>1, <2>1, <1>7
  <2> QED
    BY <2>2, <2>3
<1> QED
  BY <1>5, <1>6, <1>8, <1>9 DEF Kept

LEMMA DecodedKeeps ==
  ASSUME IInv, NEW i \in Items, Decoded(i)
  PROVE  Kept'
<1> USE DEF IInv
<1>0. /\ pc[i] = "decoding" /\ pc' = [pc EXCEPT ![i] = "limited"] /\ i \in busy[WorkerOf(i)]
      /\ busy' = [busy EXCEPT ![WorkerOf(i)] = @ \ {i}]
      /\ UNCHANGED <<sync, score, permits, waiters, jobs>>
  BY DEF Decoded, Goto, config, limits
<1>1. \A v \in Pool : Holders(v)' = Holders(v)
  BY <1>0 DEF Holders, TypeOK
<1>2. /\ \A v \in Pool : \A n \in DOMAIN waiters[v] : waiters[v][n] \in Items
      /\ \A v \in Pool : \A n \in DOMAIN jobs[v] : jobs[v][n] \in Items
      /\ \A v \in Pool : busy[v] \subseteq Items
  BY Elements DEF TypeOK
<1>3. \A j \in Items : j # i => pc'[j] = pc[j]
  BY <1>0 DEF TypeOK
<1>4. /\ \A v \in Pool : \A n \in DOMAIN waiters[v] : waiters[v][n] # i
      /\ \A v \in Pool : \A n \in DOMAIN jobs[v] : jobs[v][n] # i
      /\ \A v \in Pool : i \notin busy'[v] /\ busy'[v] \subseteq busy[v]
  <2>1. WorkerOf(i) \in Pool
    BY WorkerType
  <2> QED
    BY <1>0, <2>1 DEF WaitersInv, JobsInv, BusyInv, TypeOK
<1>5. PermitInv' /\ WaitersInv'
  BY <1>0, <1>1, <1>2, <1>3, <1>4 DEF PermitInv, WaitersInv
<1>6. \A j \in Items : j # i => (AtWork(j)' <=> AtWork(j))
  BY <1>0, <1>3 DEF AtWork
<1>7. JobsInv'
  BY <1>0, <1>2, <1>4, <1>6 DEF JobsInv
<1>8. BusyInv'
  BY <1>0, <1>2, <1>3, <1>4, <1>6 DEF BusyInv
<1> QED
  BY <1>5, <1>7, <1>8 DEF Kept

LEMMA EnterKeeps ==
  ASSUME IInv, NEW i \in Items, Enter(i)
  PROVE  Kept'
<1> USE DEF IInv
<1> DEFINE w == WorkerOf(i)
<1>0. w \in Pool /\ pc[i] = "limited" /\ UNCHANGED <<sync, score, jobs, busy>>
  BY WorkerType DEF Enter, config, threads
<1>1. \/ /\ permits[w] > 0 /\ waiters' = waiters /\ permits' = [permits EXCEPT ![w] = @ - 1]
         /\ pc' = [pc EXCEPT ![i] = "granted"]
      \/ /\ permits' = permits /\ waiters' = [waiters EXCEPT ![w] = Append(@, i)]
         /\ pc' = [pc EXCEPT ![i] = "queued"]
  BY DEF Enter, Goto
<1>2. /\ \A v \in Pool : \A n \in DOMAIN waiters[v] : waiters[v][n] \in Items
      /\ \A v \in Pool : \A n \in DOMAIN jobs[v] : jobs[v][n] \in Items
      /\ \A v \in Pool : busy[v] \subseteq Items
  BY Elements DEF TypeOK
<1>3. \A j \in Items : j # i => pc'[j] = pc[j]
  BY <1>1 DEF TypeOK
<1>4. /\ \A v \in Pool : \A n \in DOMAIN waiters[v] : waiters[v][n] # i
      /\ \A v \in Pool : \A n \in DOMAIN jobs[v] : jobs[v][n] # i
      /\ \A v \in Pool : i \notin busy[v]
  BY <1>0 DEF WaitersInv, JobsInv, BusyInv, AtWork
<1>5. \A j \in Items : j # i => (AtWork(j)' <=> AtWork(j))
  BY <1>0, <1>3 DEF AtWork
<1>6. JobsInv'
  BY <1>0, <1>2, <1>4, <1>5 DEF JobsInv
<1>7. BusyInv'
  BY <1>0, <1>2, <1>3, <1>4, <1>5 DEF BusyInv
<1>8. CASE /\ permits[w] > 0 /\ waiters' = waiters /\ permits' = [permits EXCEPT ![w] = @ - 1]
           /\ pc' = [pc EXCEPT ![i] = "granted"]
  <2>1. WaitersInv'
    BY <1>8, <1>2, <1>3, <1>4 DEF WaitersInv
  <2>2. ASSUME NEW v \in Pool PROVE permits'[v] + Cardinality(Holders(v)') = MaxConcurrent
    <3>1. CASE v = w
      <4>1. Holders(v)' = Holders(w) \union {i} /\ i \notin Holders(w)
        BY <3>1, <1>0, <1>8 DEF Holders, TypeOK
      <4>2. Holders(w) \in SUBSET Items
        BY DEF Holders
      <4>3. Cardinality(Holders(w)) \in Nat /\ permits[w] \in Nat
        BY <4>2, <1>0, ItemSets, Positive, SMTT(30) DEF TypeOK
      <4>4. Cardinality(Holders(w) \union {i}) = Cardinality(Holders(w)) + 1
        BY <4>1, <4>2, OneMore
      <4>5. permits'[w] = permits[w] - 1 /\ permits[w] + Cardinality(Holders(w)) = MaxConcurrent
        BY <1>0, <1>8 DEF PermitInv, TypeOK
      <4> QED
        BY <3>1, <4>1, <4>3, <4>4, <4>5
    <3>2. CASE v # w
      <4>1. Holders(v)' = Holders(v) /\ permits'[v] = permits[v]
        BY <3>2, <1>8 DEF Holders, TypeOK
      <4> QED
        BY <4>1 DEF PermitInv
    <3> QED
      BY <3>1, <3>2
  <2> QED
    BY <2>1, <2>2, <1>6, <1>7 DEF Kept, PermitInv
<1>9. CASE /\ permits' = permits /\ waiters' = [waiters EXCEPT ![w] = Append(@, i)]
           /\ pc' = [pc EXCEPT ![i] = "queued"]
  <2>1. PermitInv'
    <3>1. \A v \in Pool : Holders(v)' = Holders(v)
      BY <1>0, <1>9 DEF Holders, TypeOK
    <3> QED
      BY <3>1, <1>9 DEF PermitInv
  <2>2. ASSUME NEW v \in Pool
        PROVE  /\ \A n \in DOMAIN waiters'[v] :
                     WorkerOf(waiters'[v][n]) = v /\ pc'[waiters'[v][n]] = "queued"
               /\ \A m, n \in DOMAIN waiters'[v] : waiters'[v][m] = waiters'[v][n] => m = n
    <3>1. /\ \A n \in DOMAIN waiters[v] :
                /\ waiters[v][n] \in Items /\ waiters[v][n] # i
                /\ WorkerOf(waiters[v][n]) = v /\ pc[waiters[v][n]] = "queued"
          /\ \A m, n \in DOMAIN waiters[v] : waiters[v][m] = waiters[v][n] => m = n
      BY <1>2, <1>4 DEF WaitersInv
    <3>2. CASE v = w
      <4> DEFINE t == Append(waiters[v], i)
      <4>1. waiters[v] \in Seq(Items) /\ waiters'[v] = t /\ pc'[i] = "queued"
        BY <3>2, <1>9 DEF TypeOK
      <4>2. /\ \A n \in DOMAIN t : t[n] = i \/ (n \in DOMAIN waiters[v] /\ t[n] = waiters[v][n])
            /\ \A m, n \in DOMAIN t : t[m] = t[n] => m = n
        BY <4>1, <3>1, Appended
      <4> HIDE DEF t
      <4> QED
        BY <4>1, <4>2, <3>1, <3>2, <1>3
    <3>3. CASE v # w
      <4>1. waiters'[v] = waiters[v]
        BY <3>3, <1>9 DEF TypeOK
      <4> QED
        BY <4>1, <3>1, <1>3
    <3> QED
      BY <3>2, <3>3
  <2> QED
    BY <2>1, <2>2, <1>6, <1>7 DEF Kept, WaitersInv
<1> QED
  BY <1>1, <1>8, <1>9

\* What Finish leaves alone.
LEMMA FinishOthers ==
  ASSUME IInv, NEW i \in Items, pc[i] = "calling", NEW how, Finish(i, how), UNCHANGED sync
  PROVE  /\ pc'[i] = "settled" /\ score'[i] = how
         /\ \A x \in Items : x # i => /\ score'[x] = score[x]
                                      /\ AtWork(x)' <=> AtWork(x)
                                      /\ pc[x] = "settled" => pc'[x] = "settled"
<1> USE DEF IInv
<1> DEFINE w == WorkerOf(i)
<1>1. score'[i] = how /\ \A x \in Items : x # i => score'[x] = score[x]
  BY DEF Finish, TypeOK
<1>2. CASE waiters[w] = <<>>
  <2>1. pc' = [pc EXCEPT ![i] = "settled"]
    BY <1>2 DEF Finish, Goto
  <2> QED
    BY <1>1, <2>1 DEF TypeOK, AtWork
<1>3. CASE waiters[w] # <<>>
  <2> DEFINE j == Head(waiters[w])
  <2>1. pc' = [pc EXCEPT ![i] = "settled", ![j] = "granted"]
    BY <1>3 DEF Finish
  <2>2. w \in Pool
    BY WorkerType
  <2>3. j \in Items /\ pc[j] = "queued" /\ j # i
    BY <1>3, <2>2, FirstWaiter
  <2> HIDE DEF j
  <2>4. pc'[i] = "settled" /\ pc'[j] = "granted" /\ \A x \in Items \ {i, j} : pc'[x] = pc[x]
    BY <2>1, <2>3 DEF TypeOK
  <2> QED
    BY <1>1, <2>3, <2>4 DEF AtWork
<1> QED
  BY <1>2, <1>3

LEMMA AnswerKeeps ==
  ASSUME IInv, NEW i \in Items, Answer(i)
  PROVE  Kept'
<1> USE DEF IInv
<1>1. PICK how \in {"float", "error"} \union Dicts : Finish(i, how)
  BY DEF Answer
<1>2. /\ pc[i] = "calling" /\ (sync => i \in busy[WorkerOf(i)]) /\ UNCHANGED <<sync, jobs>>
      /\ busy' = [busy EXCEPT ![WorkerOf(i)] = @ \ {i}] /\ how \in Scores
  BY DEF Answer, config, Scores, FailedScores
<1>3. PermitInv' /\ WaitersInv'
  BY <1>1, <1>2, FinishPermits
<1>4. \A x \in Items : x # i => /\ score'[x] = score[x] /\ (AtWork(x)' <=> AtWork(x))
                                /\ pc[x] = "settled" => pc'[x] = "settled"
  BY <1>1, <1>2, FinishOthers
<1>5. WorkerOf(i) \in Pool /\ TypeOK
  BY WorkerType
<1>6. /\ \A v \in Pool : busy'[v] \subseteq busy[v] /\ busy[v] \subseteq Items
      /\ \A v \in Pool : \A n \in DOMAIN jobs[v] : jobs[v][n] \in Items
  BY <1>2, Elements DEF TypeOK
<1>7. \A v \in Pool : i \notin busy'[v] /\ \A n \in DOMAIN jobs[v] : jobs[v][n] # i
  <2> SUFFICES ASSUME NEW v \in Pool
               PROVE  i \notin busy'[v] /\ \A n \in DOMAIN jobs[v] : jobs[v][n] # i
    OBVIOUS
  <2>1. i \notin busy'[v]
    BY <1>2, <1>5 DEF BusyInv, TypeOK
  <2>2. ASSUME NEW n \in DOMAIN jobs[v], jobs[v][n] = i PROVE FALSE
    <3>1. WorkerOf(i) = v /\ AtWork(i) /\ i \notin busy[v]
      BY <2>2 DEF JobsInv
    <3> QED
      BY <3>1, <1>2 DEF AtWork
  <2> QED
    BY <2>1, <2>2
<1>8. JobsInv'
  BY <1>2, <1>4, <1>6, <1>7 DEF JobsInv
<1>9. BusyInv'
  BY <1>4, <1>6, <1>7 DEF BusyInv
<1> QED
  BY <1>3, <1>8, <1>9 DEF Kept

LEMMA TimeOutKeeps ==
  ASSUME IInv, NEW i \in Items, TimeOut(i)
  PROVE  Kept'
<1> USE DEF IInv
<1>1. /\ Finish(i, "timeout") /\ pc[i] = "calling" /\ "timeout" \in Scores
      /\ jobs' = [jobs EXCEPT ![WorkerOf(i)] = Without(@, i)] /\ UNCHANGED <<sync, busy>>
  BY DEF TimeOut, config, Scores, FailedScores
<1>3. PermitInv' /\ WaitersInv'
  BY <1>1, FinishPermits
<1>4. /\ pc'[i] = "settled" /\ score'[i] = "timeout"
      /\ \A x \in Items : x # i => /\ score'[x] = score[x] /\ (AtWork(x)' <=> AtWork(x))
                                   /\ pc[x] = "settled" => pc'[x] = "settled"
  BY <1>1, FinishOthers
<1>5. WorkerOf(i) \in Pool /\ TypeOK
  BY WorkerType
<1>6. \A v \in Pool : /\ busy[v] \subseteq Items /\ jobs[v] \in Seq(Items)
                      /\ \A n \in DOMAIN jobs[v] : jobs[v][n] \in Items
  BY <1>5, Elements DEF TypeOK
<1>7. BusyInv'
  BY <1>1, <1>4, <1>6 DEF BusyInv
<1>8. JobsInv'
  <2> SUFFICES ASSUME NEW v \in Pool
               PROVE  /\ \A n \in DOMAIN jobs'[v] :
                            /\ WorkerOf(jobs'[v][n]) = v /\ AtWork(jobs[v][n])'
                            /\ jobs'[v][n] \notin busy'[v]
                      /\ \A m, n \in DOMAIN jobs'[v] : jobs'[v][m] = jobs'[v][n] => m = n
    BY DEF JobsInv
  <2>1. /\ \A n \in DOMAIN jobs[v] :
              /\ WorkerOf(jobs[v][n]) = v /\ AtWork(jobs[v][n])
              /\ jobs[v][n] \notin busy[v] /\ jobs[v][n] \in Items
        /\ \A m, n \in DOMAIN jobs[v] : jobs[v][m] = jobs[v][n] => m = n
    BY <1>6 DEF JobsInv
  <2>2. CASE v = WorkerOf(i)
    <3> DEFINE t == Without(jobs[v], i)
    <3>1. jobs'[v] = t /\ busy'[v] = busy[v]
      BY <2>2, <1>1 DEF TypeOK
    <3>2. /\ \A n \in DOMAIN t : t[n] # i
          /\ \A n \in DOMAIN t : \E m \in DOMAIN jobs[v] : t[n] = jobs[v][m]
          /\ \A m, n \in DOMAIN t : t[m] = t[n] => m = n
      BY <2>1, <1>6, WithoutIt
    <3> HIDE DEF t
    <3> QED
      BY <3>1, <3>2, <2>1, <1>4
  <2>3. CASE v # WorkerOf(i)
    <3>1. jobs'[v] = jobs[v] /\ busy'[v] = busy[v]
      BY <2>3, <1>1 DEF TypeOK
    <3> QED
      BY <3>1, <2>1, <2>3, <1>4
  <2> QED
    BY <2>2, <2>3
<1> QED
  BY <1>3, <1>7, <1>8 DEF Kept

LEMMA KeptStep == IInv /\ [Next]_vars => Kept'
<1> SUFFICES ASSUME IInv, [Next]_vars PROVE Kept'
  OBVIOUS
<1>0. TypeOK
  BY DEF IInv
<1>1. CASE \/ UNCHANGED vars \/ Tick \/ Collect \/ (\E s \in Servers : Die(s))
           \/ \E i \in Items : Raise(i) \/ Acquire(i)
  <2>1. UNCHANGED <<sync, pc, permits, waiters, jobs, busy, score>>
    BY <1>1 DEF vars, config, items, limits, threads, Tick, Collect, Die, Raise, Acquire
  <2> QED
    BY <2>1, SamePlaces
<1>2. ASSUME NEW i \in Items, ThreadEnds(i) PROVE Kept'
  <2>1. UNCHANGED <<sync, pc, permits, waiters, jobs, score>>
    BY <1>2 DEF ThreadEnds, config, items, limits
  <2>2. \A w \in Pool : busy'[w] \subseteq busy[w]
    BY <1>2, <1>0 DEF ThreadEnds, TypeOK
  <2> QED
    BY <2>1, <2>2, SamePlaces
<1>3. ASSUME NEW w \in Pool, StartJob(w) PROVE Kept'
  BY <1>3, StartJobKeeps
<1>4. ASSUME NEW i \in Items, Begin(i) PROVE Kept'
  <2>1. pc[i] = "new" /\ UNCHANGED <<sync, permits, waiters, busy, score>>
    BY <1>4 DEF Begin, config, limits
  <2>2. CASE flow = "custom"
    <3>1. /\ pc' = [pc EXCEPT ![i] = "decoding"]
          /\ jobs' = [jobs EXCEPT ![WorkerOf(i)] = Append(@, i)]
      BY <1>4, <2>2 DEF Begin, Goto
    <3> QED
      BY <2>1, <3>1, PutToWork
  <2>3. CASE flow # "custom"
    <3>1. pc' = [pc EXCEPT ![i] = "posting"] /\ UNCHANGED jobs
      BY <1>4, <2>3 DEF Begin, Goto
    <3> QED
      BY <2>1, <3>1, MovesApart DEF Apart
  <2> QED
    BY <2>2, <2>3
<1>5. ASSUME NEW i \in Items, Decoded(i) PROVE Kept'
  BY <1>5, DecodedKeeps
<1>6. ASSUME NEW i \in Items, AcquireLater(i) \/ AcquireLarge(i) PROVE Kept'
  <2>1. pc[i] = "limited" /\ UNCHANGED <<sync, permits, waiters, jobs, busy, score>>
    BY <1>6 DEF AcquireLater, AcquireLarge, AtLimiter, config, limits, threads
  <2>2. pc' = [pc EXCEPT ![i] = "short"] \/ pc' = [pc EXCEPT ![i] = "paying"]
    BY <1>6 DEF AcquireLater, AcquireLarge, Goto
  <2> QED
    BY <2>1, <2>2, MovesApart DEF Apart
<1>7. ASSUME NEW i \in Items, Wake(i) PROVE Kept'
  <2>1. /\ pc[i] \in {"short", "paying"} /\ pc' = [pc EXCEPT ![i] = "limited"]
        /\ UNCHANGED <<sync, permits, waiters, jobs, busy, score>>
    BY <1>7 DEF Wake, Goto, config, threads
  <2> QED
    BY <2>1, MovesApart DEF Apart
<1>8. ASSUME NEW i \in Items, Enter(i) PROVE Kept'
  BY <1>8, EnterKeeps
<1>9. ASSUME NEW i \in Items, Call(i) PROVE Kept'
  <2>1. /\ pc[i] = "granted" /\ pc' = [pc EXCEPT ![i] = "calling"]
        /\ UNCHANGED <<sync, permits, waiters, busy, score>>
        /\ jobs' = IF sync THEN [jobs EXCEPT ![WorkerOf(i)] = Append(@, i)] ELSE jobs
    BY <1>9 DEF Call, Goto, config, limits
  <2> QED
    BY <2>1, PutToWork
<1>10. ASSUME NEW i \in Items, Answer(i) PROVE Kept'
  BY <1>10, AnswerKeeps
<1>11. ASSUME NEW i \in Items, TimeOut(i) PROVE Kept'
  BY <1>11, TimeOutKeeps
<1>12. ASSUME NEW i \in Items, Select(i) PROVE Kept'
  <2>1. /\ pc[i] = "posting" /\ pc' = [pc EXCEPT ![i] = "forwarding"]
        /\ UNCHANGED <<sync, permits, waiters, jobs, busy, score>>
    BY <1>12 DEF Select, Goto, config, limits, threads
  <2> QED
    BY <2>1, MovesApart DEF Apart
<1>13. ASSUME NEW i \in Items, Serve(i) PROVE Kept'
  <2>1. /\ pc[i] = "forwarding" /\ pc' = [pc EXCEPT ![i] = "settled"]
        /\ UNCHANGED <<sync, permits, waiters, jobs, busy>>
        /\ \A j \in Items : j # i => score'[j] = score[j]
    BY <1>13, <1>0 DEF Serve, Goto, config, limits, threads, TypeOK
  <2> QED
    BY <2>1, MovesApart DEF Apart
<1>14. ASSUME NEW i \in Items, Fail(i), pc[i] = "forwarding",
              UNCHANGED <<sync, permits, waiters, jobs, busy>>
       PROVE  Kept'
  <2>1. /\ pc' = [pc EXCEPT ![i] = "posting"] \/ pc' = [pc EXCEPT ![i] = "settled"]
        /\ \A j \in Items : j # i => score'[j] = score[j]
    BY <1>14, <1>0 DEF Fail, Goto, TypeOK
  <2> QED
    BY <1>14, <2>1, MovesApart DEF Apart
<1>15. ASSUME NEW i \in Items, HTTPError(i) PROVE Kept'
  BY <1>15, <1>14 DEF HTTPError, config, limits, threads
<1>16. ASSUME NEW i \in Items, Refuse(i) PROVE Kept'
  <2>1. UNCHANGED <<sync, permits, waiters, jobs, busy>> /\ pc[i] = "forwarding"
    BY <1>16 DEF Refuse, config, limits, threads
  <2>2. CASE tries[i] + 1 < MaxAttempts
    BY <1>16, <2>1, <2>2, SamePlaces DEF Refuse
  <2>3. CASE ~(tries[i] + 1 < MaxAttempts)
    BY <1>16, <2>1, <2>3, <1>14 DEF Refuse
  <2> QED
    BY <2>2, <2>3
<1> QED
  BY <1>1, <1>2, <1>3, <1>4, <1>5, <1>6, <1>7, <1>8, <1>9, <1>10, <1>11, <1>12, <1>13,
     <1>15, <1>16 DEF Next, Own, External

LEMMA Inductive == Spec => []IInv
<1>1. Init => IInv
  BY Initially
<1>2. IInv /\ [Next]_vars => IInv'
  BY TypesStep, KeptStep DEF IInv, Kept
<1> QED
  BY <1>1, <1>2, PTL DEF Spec

\* Every variable keeps its type: no attempt is counted past its limit, no
\* semaphore holds more permits than it was made with.
THEOREM TypeCorrect == Spec => []TypeOK
<1>1. IInv => TypeOK
  BY DEF IInv
<1> QED
  BY <1>1, Inductive, PTL

\* Every call of a worker that is being executed, but for those it has given
\* up, has a permit: with any number of threads, and whoever times out while
\* it waits for a thread or in one.
THEOREM ConcurrencyIsKept == Spec => []ConcurrencyKept
<1>1. ASSUME IInv PROVE ConcurrencyKept
  <2> SUFFICES ASSUME NEW w \in Pool
               PROVE  Cardinality({i \in InFlight(w) : score[i] # "timeout"}) <= MaxConcurrent
    BY DEF ConcurrencyKept
  <2> DEFINE S == {i \in InFlight(w) : score[i] # "timeout"}
  <2>1. S \subseteq Holders(w) /\ Holders(w) \in SUBSET Items /\ S \in SUBSET Items
    BY <1>1 DEF InFlight, Holders, IInv, BusyInv, AtWork
  <2> HIDE DEF S
  <2>2. Cardinality(S) <= Cardinality(Holders(w))
    BY <2>1, ItemSets, FS_Subset
  <2>3. permits[w] \in Nat /\ permits[w] + Cardinality(Holders(w)) = MaxConcurrent
    BY <1>1, Positive DEF IInv, PermitInv, TypeOK
  <2>4. Cardinality(S) \in Nat /\ Cardinality(Holders(w)) \in Nat
    BY <2>1, ItemSets
  <2> QED
    BY <2>2, <2>3, <2>4, Positive DEF S
<1> QED
  BY <1>1, Inductive, PTL
-----------------------------------------------------------------------------
(***************************************************************************)
(* The rate.  A bucket that holds a request never goes into debt, and what *)
(* has passed and what is left add up to a bucket at most.  One that does  *)
(* not goes into debt, and those who pay wait for each other: their sleeps *)
(* are a request apart, and end when what passed before has leaked away.   *)
(***************************************************************************)
Small(b) == Buckets[b].need <= Buckets[b].max

SmallInv ==
    \A w \in Pool, b \in Limiters :
        Small(b) => level[w][b] >= 0 /\ meter[w][b] + level[w][b] <= Buckets[b].max

LargeInv ==
    \A w \in Pool, b \in Limiters :
        ~Small(b) => /\ meter[w][b] <= Buckets[b].need
                     /\ meter[w][b] + level[w][b] <= Buckets[b].need

PayerInv ==
    \A i \in Items : pc[i] = "paying" =>
        /\ ~Small(stage[i])
        /\ meter[WorkerOf(i)][stage[i]] <= sleep[i]
        /\ level[WorkerOf(i)][stage[i]] <= -sleep[i]

ApartInv ==
    \A i, j \in Items :
        /\ pc[i] = "paying" /\ pc[j] = "paying" /\ i # j
        /\ WorkerOf(i) = WorkerOf(j) /\ stage[i] = stage[j]
        => \/ sleep[i] >= sleep[j] + Buckets[stage[i]].need
           \/ sleep[j] >= sleep[i] + Buckets[stage[i]].need

RateInv == SmallInv /\ LargeInv /\ PayerInv /\ ApartInv

LEMMA Numbers ==
  ASSUME IInv
  PROVE  /\ \A w \in Pool, b \in Limiters :
               /\ level[w][b] \in Int /\ meter[w][b] \in Nat /\ level[w][b] <= Buckets[b].max
         /\ \A i \in Items : sleep[i] \in Nat /\ WorkerOf(i) \in Pool
         /\ \A i \in Items : pc[i] = "paying" => stage[i] \in Limiters
BY WorkerType DEF IInv, TypeOK, LevelInv, StageInv

\* A step that lets nothing pass and lets nobody begin to pay.
LEMMA RateSame ==
  ASSUME IInv, RateInv, UNCHANGED <<level, meter>>,
         \A i \in Items : pc'[i] = "paying" =>
             pc[i] = "paying" /\ sleep'[i] = sleep[i] /\ stage'[i] = stage[i]
  PROVE  RateInv'
<1>1. SmallInv' /\ LargeInv'
  BY DEF RateInv, SmallInv, LargeInv, Small
<1>2. PayerInv'
  BY DEF RateInv, PayerInv, Small
<1>3. ApartInv'
  BY DEF RateInv, ApartInv
<1> QED
  BY <1>1, <1>2, <1>3 DEF RateInv

LEMMA RateTick ==
  ASSUME IInv, RateInv, Tick
  PROVE  RateInv'
<1>1. ASSUME NEW w \in Pool, NEW b \in Limiters
      PROVE  /\ level'[w][b] = IF level[w][b] < Buckets[b].max THEN level[w][b] + 1 ELSE level[w][b]
             /\ meter'[w][b] = IF meter[w][b] > 0 THEN meter[w][b] - 1 ELSE 0
  <2>1. meter'[w][b] = Down(meter[w][b]) /\ meter[w][b] \in Nat
    BY Numbers DEF Tick
  <2> QED
    BY <2>1 DEF Tick, Down
<1>2. ASSUME NEW i \in Items, pc'[i] = "paying"
      PROVE  /\ pc[i] = "paying" /\ stage'[i] = stage[i]
             /\ sleep[i] > 0 /\ sleep'[i] = sleep[i] - 1
  <2>1. pc[i] = "paying" /\ stage'[i] = stage[i] /\ sleep[i] > 0
    BY <1>2 DEF Tick
  <2> QED
    BY <2>1 DEF Tick, Sleeping
<1>3. SmallInv'
  <2> SUFFICES ASSUME NEW w \in Pool, NEW b \in Limiters, Small(b)
               PROVE  level'[w][b] >= 0 /\ meter'[w][b] + level'[w][b] <= Buckets[b].max
    BY DEF SmallInv, Small
  <2>1. level[w][b] >= 0 /\ meter[w][b] + level[w][b] <= Buckets[b].max
    BY DEF RateInv, SmallInv
  <2>2. level[w][b] \in Int /\ meter[w][b] \in Nat /\ Buckets[b].max \in Nat
    BY Numbers, BucketTypes
  <2>3. CASE level[w][b] < Buckets[b].max
    <3>1. level'[w][b] = level[w][b] + 1
      BY <2>3, <1>1
    <3>2. CASE meter[w][b] > 0
      <4>1. meter'[w][b] = meter[w][b] - 1
        BY <3>2, <1>1
      <4> QED
        BY <4>1, <3>1, <2>1, <2>2
    <3>3. CASE ~(meter[w][b] > 0)
      <4>1. meter'[w][b] = 0
        BY <3>3, <1>1
      <4> QED
        BY <4>1, <3>1, <2>1, <2>2, <2>3
    <3> QED
      BY <3>2, <3>3
  <2>4. CASE ~(level[w][b] < Buckets[b].max)
    <3>1. level'[w][b] = level[w][b] /\ meter[w][b] = 0
      BY <2>1, <2>2, <2>4, <1>1
    <3>2. meter'[w][b] = 0
      BY <3>1, <1>1
    <3> QED
      BY <3>1, <3>2, <2>1, <2>2
  <2> QED
    BY <2>3, <2>4
<1>4. LargeInv'
  <2> SUFFICES ASSUME NEW w \in Pool, NEW b \in Limiters, ~Small(b)
               PROVE  /\ meter'[w][b] <= Buckets[b].need
                      /\ meter'[w][b] + level'[w][b] <= Buckets[b].need
    BY DEF LargeInv, Small
  <2>1. /\ meter[w][b] <= Buckets[b].need
        /\ meter[w][b] + level[w][b] <= Buckets[b].need
    BY DEF RateInv, LargeInv
  <2>2. /\ Buckets[b].max < Buckets[b].need
        /\ Buckets[b].max \in Nat /\ Buckets[b].need \in Nat
    BY BucketTypes DEF Small
  <2>3. level[w][b] \in Int /\ meter[w][b] \in Nat
    BY Numbers
  <2>4. CASE meter[w][b] > 0
    <3>1. meter'[w][b] = meter[w][b] - 1 /\ level'[w][b] \in {level[w][b], level[w][b] + 1}
      BY <2>4, <1>1
    <3> QED
      BY <3>1, <2>1, <2>2, <2>3
  <2>5. CASE ~(meter[w][b] > 0)
    <3>1. meter'[w][b] = 0 /\ (level'[w][b] = level[w][b] \/ level'[w][b] <= Buckets[b].max)
      BY <2>2, <2>3, <2>5, <1>1
    <3>2. meter[w][b] = 0 /\ level'[w][b] \in Int
      BY <2>3, <2>5, <1>1
    <3> QED
      BY <3>1, <3>2, <2>1, <2>2, <2>3
  <2> QED
    BY <2>4, <2>5
<1>5. PayerInv'
  <2> SUFFICES ASSUME NEW i \in Items, pc'[i] = "paying"
               PROVE  /\ ~Small(stage'[i])
                      /\ meter'[WorkerOf(i)][stage'[i]] <= sleep'[i]
                      /\ level'[WorkerOf(i)][stage'[i]] <= -sleep'[i]
    BY DEF PayerInv, Small
  <2>1. /\ ~Small(stage[i]) /\ meter[WorkerOf(i)][stage[i]] <= sleep[i]
        /\ level[WorkerOf(i)][stage[i]] <= -sleep[i]
    BY <1>2 DEF RateInv, PayerInv
  <2>2. stage[i] \in Limiters /\ WorkerOf(i) \in Pool /\ sleep[i] \in Nat
    BY <1>2, Numbers
  <2>3. level[WorkerOf(i)][stage[i]] \in Int /\ meter[WorkerOf(i)][stage[i]] \in Nat
    BY <2>2, Numbers
  <2>4. stage'[i] = stage[i] /\ sleep[i] > 0 /\ sleep'[i] = sleep[i] - 1
    BY <1>2
  <2>5. meter'[WorkerOf(i)][stage[i]] <= sleep[i] - 1
    BY <2>1, <2>2, <2>3, <2>4, <1>1
  <2>6. level'[WorkerOf(i)][stage[i]] <= -(sleep[i] - 1)
    <3>1. level'[WorkerOf(i)][stage[i]] \in {level[WorkerOf(i)][stage[i]],
                                             level[WorkerOf(i)][stage[i]] + 1}
      BY <2>2, <1>1
    <3> QED
      BY <3>1, <2>1, <2>2, <2>3
  <2> QED
    BY <2>1, <2>4, <2>5, <2>6
<1>6. ApartInv'
  <2> SUFFICES ASSUME NEW i \in Items, NEW j \in Items, pc'[i] = "paying", pc'[j] = "paying",
                      i # j, WorkerOf(i) = WorkerOf(j), stage'[i] = stage'[j]
               PROVE  \/ sleep'[i] >= sleep'[j] + Buckets[stage'[i]].need
                      \/ sleep'[j] >= sleep'[i] + Buckets[stage'[i]].need
    BY DEF ApartInv
  <2>1. /\ stage'[i] = stage[i] /\ stage'[j] = stage[j]
        /\ sleep'[i] = sleep[i] - 1 /\ sleep'[j] = sleep[j] - 1
        /\ pc[i] = "paying" /\ pc[j] = "paying"
    BY <1>2
  <2>2. \/ sleep[i] >= sleep[j] + Buckets[stage[i]].need
        \/ sleep[j] >= sleep[i] + Buckets[stage[i]].need
    BY <2>1 DEF RateInv, ApartInv
  <2>3. stage[i] \in Limiters /\ sleep[i] \in Nat /\ sleep[j] \in Nat
    BY <2>1, Numbers
  <2>4. Buckets[stage[i]].need \in Nat
    BY <2>3, BucketTypes
  <2> QED
    BY <2>1, <2>2, <2>3, <2>4
<1> QED
  BY <1>3, <1>4, <1>5, <1>6 DEF RateInv

LEMMA RateAcquire ==
  ASSUME IInv, RateInv, NEW i \in Items, Acquire(i)
  PROVE  RateInv'
<1> DEFINE w == WorkerOf(i)
           b == stage[i]
           n == Buckets[b].need
<1>1. /\ w \in Pool /\ b \in Limiters /\ pc[i] = "limited" /\ UNCHANGED <<pc, sleep>>
      /\ Small(b) /\ n <= level[w][b] /\ n \in Nat
      /\ level' = [level EXCEPT ![w][b] = @ - n]
      /\ meter' = [meter EXCEPT ![w][b] = @ + n]
      /\ stage' = [stage EXCEPT ![i] = @ + 1]
  BY WorkerType, BucketTypes DEF Acquire, AtLimiter, Pay, Admit, Small, Level, Bucket
<1> HIDE DEF w, b, n
<1>2. level \in [Pool -> [Limiters -> Int]] /\ meter \in [Pool -> [Limiters -> Nat]]
  BY DEF IInv, TypeOK
<1>3. level'[w][b] = level[w][b] - n /\ meter'[w][b] = meter[w][b] + n
  BY <1>1, <1>2
<1>4. \A v \in Pool, c \in Limiters :
         v # w \/ c # b => level'[v][c] = level[v][c] /\ meter'[v][c] = meter[v][c]
  BY <1>1, <1>2
<1>5. SmallInv'
  <2> SUFFICES ASSUME NEW v \in Pool, NEW c \in Limiters, Small(c)
               PROVE  level'[v][c] >= 0 /\ meter'[v][c] + level'[v][c] <= Buckets[c].max
    BY DEF SmallInv, Small
  <2>1. level[v][c] >= 0 /\ meter[v][c] + level[v][c] <= Buckets[c].max
    BY DEF RateInv, SmallInv
  <2>2. level[v][c] \in Int /\ meter[v][c] \in Nat
    BY Numbers
  <2>3. CASE v = w /\ c = b
    BY <2>1, <2>2, <2>3, <1>1, <1>3, BucketTypes, SMTT(30)
  <2>4. CASE v # w \/ c # b
    BY <2>1, <2>4, <1>4
  <2> QED
    BY <2>3, <2>4
<1>6. LargeInv'
  BY <1>1, <1>4 DEF RateInv, LargeInv, Small
<1>7. \A j \in Items : pc'[j] = "paying" =>
         /\ pc[j] = "paying" /\ sleep'[j] = sleep[j] /\ stage'[j] = stage[j]
         /\ stage[j] \in Limiters /\ WorkerOf(j) \in Pool /\ stage[j] # b
  BY <1>1, Numbers DEF IInv, TypeOK, RateInv, PayerInv
<1>8. PayerInv'
  BY <1>4, <1>7 DEF RateInv, PayerInv, Small
<1>9. ApartInv'
  BY <1>7 DEF RateInv, ApartInv
<1> QED
  BY <1>5, <1>6, <1>8, <1>9 DEF RateInv

LEMMA RateLarge ==
  ASSUME IInv, RateInv, NEW i \in Items, AcquireLarge(i)
  PROVE  RateInv'
<1> DEFINE w == WorkerOf(i)
           b == stage[i]
           n == Buckets[b].need
<1>1. /\ w \in Pool /\ b \in Limiters /\ pc[i] = "limited" /\ UNCHANGED <<stage, meter>>
      /\ ~Small(b) /\ n \in Nat
      /\ level' = [level EXCEPT ![w][b] = @ - n]
      /\ sleep' = [sleep EXCEPT ![i] = n - level[w][b]]
      /\ pc' = [pc EXCEPT ![i] = "paying"]
  BY WorkerType, BucketTypes DEF AcquireLarge, AtLimiter, Pay, Goto, Small, Level, Bucket
<1>0. w = WorkerOf(i) /\ b = stage[i] /\ n = Buckets[b].need
  OBVIOUS
<1> HIDE DEF w, b, n
<1>2. level \in [Pool -> [Limiters -> Int]]
  BY DEF IInv, TypeOK
<1>3. level'[w][b] = level[w][b] - n /\ level[w][b] \in Int /\ meter[w][b] \in Nat
  BY <1>1, <1>2, Numbers
<1>4. \A v \in Pool, c \in Limiters : v # w \/ c # b => level'[v][c] = level[v][c]
  BY <1>1, <1>2
<1>5. SmallInv'
  BY <1>1, <1>4 DEF RateInv, SmallInv, Small
<1>6. LargeInv'
  <2> SUFFICES ASSUME NEW v \in Pool, NEW c \in Limiters, ~Small(c)
               PROVE  /\ meter'[v][c] <= Buckets[c].need
                      /\ meter'[v][c] + level'[v][c] <= Buckets[c].need
    BY DEF LargeInv, Small
  <2>1. meter[v][c] <= Buckets[c].need /\ meter[v][c] + level[v][c] <= Buckets[c].need
    BY DEF RateInv, LargeInv
  <2>2. level[v][c] \in Int /\ meter[v][c] \in Nat /\ Buckets[c].need \in Nat
    BY Numbers, BucketTypes
  <2>3. level'[v][c] = level[v][c] \/ level'[v][c] = level[v][c] - n
    BY <1>3, <1>4
  <2> QED
    BY <2>1, <2>2, <2>3, <1>1
<1>7. \A j \in Items : j # i => pc'[j] = pc[j] /\ sleep'[j] = sleep[j]
  BY <1>1 DEF IInv, TypeOK
<1>8. pc'[i] = "paying" /\ sleep'[i] = n - level[w][b]
  BY <1>1 DEF IInv, TypeOK
<1>9. PayerInv'
  <2> SUFFICES ASSUME NEW j \in Items, pc'[j] = "paying"
               PROVE  /\ ~Small(stage[j])
                      /\ meter[WorkerOf(j)][stage[j]] <= sleep'[j]
                      /\ level'[WorkerOf(j)][stage[j]] <= -sleep'[j]
    BY <1>1 DEF PayerInv, Small
  <2>1. CASE j = i
    <3>1. meter[w][b] + level[w][b] <= n
      BY <1>0, <1>1 DEF RateInv, LargeInv
    <3> QED
      BY <3>1, <2>1, <1>0, <1>1, <1>3, <1>8
  <2>2. CASE j # i
    <3>1. /\ ~Small(stage[j]) /\ meter[WorkerOf(j)][stage[j]] <= sleep[j]
          /\ level[WorkerOf(j)][stage[j]] <= -sleep[j] /\ pc[j] = "paying"
      BY <2>2, <1>7 DEF RateInv, PayerInv
    <3>2. stage[j] \in Limiters /\ WorkerOf(j) \in Pool /\ sleep[j] \in Nat
      BY <3>1, Numbers
    <3>3. level[WorkerOf(j)][stage[j]] \in Int
      BY <3>2, Numbers
    <3>4. level'[WorkerOf(j)][stage[j]] \in {level[WorkerOf(j)][stage[j]],
                                             level[WorkerOf(j)][stage[j]] - n}
      BY <3>2, <1>3, <1>4
    <3>5. level'[WorkerOf(j)][stage[j]] <= -sleep[j]
      BY <3>1, <3>2, <3>3, <3>4, <1>1
    <3> QED
      BY <3>1, <3>5, <2>2, <1>7
  <2> QED
    BY <2>1, <2>2
<1>10. ASSUME NEW j \in Items, j # i, pc'[j] = "paying", WorkerOf(j) = w, stage[j] = b
       PROVE  sleep'[i] >= sleep'[j] + n
  <2>1. pc[j] = "paying" /\ sleep'[j] = sleep[j] /\ level[w][b] <= -sleep[j]
    BY <1>7, <1>10 DEF RateInv, PayerInv
  <2>2. sleep[j] \in Nat
    BY Numbers
  <2> QED
    BY <2>1, <2>2, <1>1, <1>3, <1>8
<1>11. ApartInv'
  <2> SUFFICES ASSUME NEW j \in Items, NEW k \in Items, pc'[j] = "paying", pc'[k] = "paying",
                      j # k, WorkerOf(j) = WorkerOf(k), stage[j] = stage[k]
               PROVE  \/ sleep'[j] >= sleep'[k] + Buckets[stage[j]].need
                      \/ sleep'[k] >= sleep'[j] + Buckets[stage[j]].need
    BY <1>1 DEF ApartInv
  <2>1. CASE j = i
    BY <2>1, <1>0, <1>10
  <2>2. CASE k = i
    BY <2>2, <1>0, <1>10
  <2>3. CASE j # i /\ k # i
    BY <2>3, <1>7 DEF RateInv, ApartInv
  <2> QED
    BY <2>1, <2>2, <2>3
<1> QED
  BY <1>5, <1>6, <1>9, <1>11 DEF RateInv

LEMMA RateWake ==
  ASSUME IInv, RateInv, NEW i \in Items, Wake(i)
  PROVE  RateInv'
<1>1. CASE pc[i] # "paying"
  <2>1. UNCHANGED <<level, meter, sleep, stage>> /\ pc' = [pc EXCEPT ![i] = "limited"]
    BY <1>1 DEF Wake, Goto
  <2>2. \A j \in Items : pc'[j] = "paying" => pc[j] = "paying"
    BY <2>1 DEF IInv, TypeOK
  <2> QED
    BY <2>1, <2>2, RateSame
<1>2. CASE pc[i] = "paying"
  <2> DEFINE w == WorkerOf(i)
             b == stage[i]
             n == Buckets[b].need
  <2>1. /\ w \in Pool /\ b \in Limiters /\ n \in Nat
        /\ sleep[i] = 0 /\ UNCHANGED <<level, sleep>>
        /\ pc' = [pc EXCEPT ![i] = "limited"]
        /\ stage' = [stage EXCEPT ![i] = @ + 1]
        /\ meter' = [meter EXCEPT ![w][b] = @ + n]
    BY <1>2, Numbers, BucketTypes DEF Wake, Goto, Admit, Bucket
  <2>2. /\ ~Small(b) /\ meter[w][b] <= 0 /\ level[w][b] <= 0
        /\ meter[w][b] \in Nat /\ level[w][b] \in Int
    BY <1>2, <2>1, Numbers DEF RateInv, PayerInv
  <2>0. w = WorkerOf(i) /\ b = stage[i] /\ n = Buckets[b].need
    OBVIOUS
  <2> HIDE DEF w, b, n
  <2>3. meter \in [Pool -> [Limiters -> Nat]]
    BY DEF IInv, TypeOK
  <2>4. /\ meter'[w][b] = n
        /\ \A v \in Pool, c \in Limiters : v # w \/ c # b => meter'[v][c] = meter[v][c]
    <3>1. meter[w][b] = 0
      BY <2>2
    <3> QED
      BY <3>1, <2>1, <2>3
  <2>5. \A j \in Items : pc'[j] = "paying" =>
           /\ j # i /\ pc[j] = "paying" /\ stage'[j] = stage[j]
           /\ stage[j] \in Limiters /\ WorkerOf(j) \in Pool
    BY <2>1, Numbers DEF IInv, TypeOK
  <2>6. SmallInv'
    BY <2>1, <2>2, <2>4 DEF RateInv, SmallInv, Small
  <2>7. LargeInv'
    <3> SUFFICES ASSUME NEW v \in Pool, NEW c \in Limiters, ~Small(c)
                 PROVE  /\ meter'[v][c] <= Buckets[c].need
                        /\ meter'[v][c] + level[v][c] <= Buckets[c].need
      BY <2>1 DEF LargeInv, Small
    <3>1. CASE v = w /\ c = b
      BY <3>1, <2>0, <2>1, <2>2, <2>4
    <3>2. CASE v # w \/ c # b
      BY <3>2, <2>4 DEF RateInv, LargeInv
    <3> QED
      BY <3>1, <3>2
  <2>8. PayerInv'
    <3> SUFFICES ASSUME NEW j \in Items, pc'[j] = "paying"
                 PROVE  /\ ~Small(stage[j])
                        /\ meter'[WorkerOf(j)][stage[j]] <= sleep[j]
                        /\ level[WorkerOf(j)][stage[j]] <= -sleep[j]
      BY <2>1, <2>5 DEF PayerInv, Small
    <3>1. /\ ~Small(stage[j]) /\ meter[WorkerOf(j)][stage[j]] <= sleep[j]
          /\ level[WorkerOf(j)][stage[j]] <= -sleep[j]
      BY <2>5 DEF RateInv, PayerInv
    <3>2. CASE WorkerOf(j) = w /\ stage[j] = b
      <4>1. sleep[i] >= sleep[j] + n \/ sleep[j] >= sleep[i] + n
        BY <3>2, <2>0, <2>5, <1>2 DEF RateInv, ApartInv
      <4>2. n > 0 /\ sleep[j] \in Nat
        BY <2>0, <2>1, BucketTypes, Numbers
      <4>3. n <= sleep[j]
        BY <4>1, <4>2, <2>1
      <4> QED
        BY <3>1, <3>2, <4>3, <2>4
    <3>3. CASE ~(WorkerOf(j) = w /\ stage[j] = b)
      BY <3>1, <3>3, <2>4, <2>5
    <3> QED
      BY <3>2, <3>3
  <2>9. ApartInv'
    BY <2>1, <2>5 DEF RateInv, ApartInv
  <2> QED
    BY <2>6, <2>7, <2>8, <2>9 DEF RateInv
<1> QED
  BY <1>1, <1>2

LEMMA RateInitially == Init => RateInv
<1> SUFFICES ASSUME Init PROVE RateInv
  OBVIOUS
<1>1. /\ \A w \in Pool, b \in Limiters : level[w][b] = Buckets[b].max /\ meter[w][b] = 0
      /\ \A i \in Items : pc[i] = "new"
  BY DEF Init
<1>2. SmallInv /\ PayerInv /\ ApartInv
  BY <1>1, BucketTypes DEF SmallInv, PayerInv, ApartInv
<1>3. LargeInv
  BY <1>1, BucketTypes DEF LargeInv, Small
<1> QED
  BY <1>2, <1>3 DEF RateInv

LEMMA RateStep == IInv /\ RateInv /\ [Next]_vars => RateInv'
<1> SUFFICES ASSUME IInv, RateInv, [Next]_vars PROVE RateInv'
  OBVIOUS
<1>0. TypeOK
  BY DEF IInv
<1> DEFINE Quiet == /\ UNCHANGED <<level, meter>>
                    /\ \A i \in Items : pc'[i] = "paying" =>
                          pc[i] = "paying" /\ sleep'[i] = sleep[i] /\ stage'[i] = stage[i]
<1>1. CASE Tick
  BY <1>1, RateTick
<1>2. CASE \E i \in Items : Acquire(i) \/ AcquireLarge(i) \/ Wake(i)
  BY <1>2, RateAcquire, RateLarge, RateWake
<1>3. CASE \/ UNCHANGED vars \/ Collect \/ (\E s \in Servers : Die(s))
           \/ (\E w \in Pool : StartJob(w)) \/ (\E i \in Items : Raise(i) \/ ThreadEnds(i))
  <2>1. UNCHANGED <<level, meter, pc, sleep, stage>>
    BY <1>3 DEF vars, items, limits, Collect, Die, StartJob, Raise, ThreadEnds
  <2> QED
    BY <2>1, RateSame
<1>4. ASSUME NEW i \in Items, AcquireLater(i) PROVE RateInv'
  <2>1. /\ UNCHANGED <<level, meter, stage>> /\ pc' = [pc EXCEPT ![i] = "short"]
        /\ \A j \in Items : j # i => sleep'[j] = sleep[j]
    BY <1>4, <1>0 DEF AcquireLater, limits, Goto, TypeOK
  <2>2. Quiet
    BY <2>1, <1>0 DEF TypeOK
  <2> QED
    BY <2>2, RateSame
<1>5. ASSUME NEW i \in Items, Begin(i) \/ Decoded(i) \/ Call(i) \/ Select(i) \/ Serve(i) \/ Enter(i)
      PROVE  RateInv'
  <2>1. /\ UNCHANGED <<level, meter, stage, sleep>>
        /\ \E place \in Places \ {"paying"} : pc' = [pc EXCEPT ![i] = place]
    BY <1>5 DEF Begin, Decoded, Call, Select, Serve, Enter, limits, Goto, Places
  <2>2. Quiet
    BY <2>1, <1>0 DEF TypeOK
  <2> QED
    BY <2>2, RateSame
<1>6. ASSUME NEW i \in Items, Answer(i) \/ TimeOut(i) PROVE RateInv'
  <2>1. UNCHANGED <<level, meter, stage, sleep>> /\ \E how : Finish(i, how)
    BY <1>6 DEF Answer, TimeOut
  <2>2. Quiet
    BY <2>1, <1>0 DEF Finish, Goto, TypeOK
  <2> QED
    BY <2>2, RateSame
<1>7. ASSUME NEW i \in Items, Refuse(i) \/ HTTPError(i) PROVE RateInv'
  <2>1. UNCHANGED <<level, meter, stage, sleep>> /\ (pc' = pc \/ Fail(i))
    BY <1>7 DEF Refuse, HTTPError, limits
  <2>2. Quiet
    BY <2>1, <1>0 DEF Fail, Goto, TypeOK
  <2> QED
    BY <2>2, RateSame
<1> QED
  BY <1>1, <1>2, <1>3, <1>4, <1>5, <1>6, <1>7 DEF Next, Own, External

\* No limiter lets more pass than its rate, in any stretch of time, whatever
\* its size and that of the requests: also not when requests that are larger
\* than the bucket take it into debt together.
THEOREM RateIsKept == Spec => []RateKept
<1>1. Init => RateInv
  BY RateInitially
<1>2. IInv /\ RateInv /\ [Next]_vars => RateInv'
  BY RateStep
<1>3. IInv /\ RateInv => RateKept
  <2> SUFFICES ASSUME IInv, RateInv, NEW w \in Pool, NEW b \in Limiters
               PROVE  meter[w][b] <= IF Small(b) THEN Buckets[b].max ELSE Buckets[b].need
    BY DEF RateKept, Small
  <2>1. level[w][b] \in Int /\ meter[w][b] \in Nat
    BY Numbers
  <2>2. CASE Small(b)
    BY <2>1, <2>2, BucketTypes DEF RateInv, SmallInv
  <2>3. CASE ~Small(b)
    BY <2>3 DEF RateInv, LargeInv
  <2> QED
    BY <2>2, <2>3
<1> QED
  BY <1>1, <1>2, <1>3, Inductive, PTL DEF Spec
-----------------------------------------------------------------------------
(***************************************************************************)
(* The router.  A failed request stays counted, so every failure of a post  *)
(* has a count of its own to blame: one that a server which is dead by now  *)
(* has for good, or one of the errors.  As long as a server is alive, no     *)
(* count exceeds what that server's can be.                                 *)
(***************************************************************************)
Forwarded(s) == {i \in Items : pc[i] = "forwarding" /\ url[i] = s}

Highest == Batch + MaxErrors

\* The counts of the dead servers, one by one.
Slots == {p \in Servers \X (0 .. Highest - 1) : p[1] \in dead /\ p[2] < counts[p[1]]}

Failing(i) == score[i] = "raised" \/ (pc[i] = "forwarding" /\ url[i] \in dead)

Failures(i) == retries[i] + (IF Failing(i) THEN 1 ELSE 0)

PostInv ==
    \A i \in Items :
        /\ pc[i] = "forwarding" => url[i] \in Servers
        /\ score[i] = "raised" => pc[i] = "settled" /\ retries[i] + 1 >= MaxRetries

CountInv == \A s \in Servers : Cardinality(Forwarded(s)) <= counts[s]

AliveInv == \A s \in Servers \ dead : counts[s] <= Cardinality(Forwarded(s)) + errors

HighestInv == dead # Servers => \A s \in Servers : counts[s] <= Highest

BlameInv == dead # Servers => \A i \in Items : Failures(i) <= Cardinality(Slots) + errors

RouterInv == PostInv /\ CountInv /\ AliveInv /\ HighestInv /\ BlameInv

LEMMA RouterTypes ==
  ASSUME TypeOK
  PROVE  /\ Highest \in Nat /\ Highest > 0
         /\ IsFiniteSet(Servers \X (0 .. Highest - 1))
         /\ IsFiniteSet(Slots) /\ Cardinality(Slots) \in Nat
         /\ errors \in Nat /\ errors <= MaxErrors /\ dead \subseteq Servers
         /\ \A s \in Servers : counts[s] \in Nat
         /\ \A s : Forwarded(s) \in SUBSET Items /\ Cardinality(Forwarded(s)) \in Nat
         /\ \A i \in Items : retries[i] \in Nat /\ retries[i] < MaxRetries /\ Failures(i) \in Nat
<1>1. Highest \in Nat /\ Highest > 0
  BY Positive DEF Highest
<1>2. IsFiniteSet(Servers) /\ IsFiniteSet(0 .. Highest - 1)
  BY <1>1, Positive, FS_Interval DEF Servers
<1>3. IsFiniteSet(Servers \X (0 .. Highest - 1))
  BY <1>2, FS_Product
<1>4. IsFiniteSet(Slots) /\ Cardinality(Slots) \in Nat
  <2>1. Slots \in SUBSET (Servers \X (0 .. Highest - 1))
    BY DEF Slots
  <2> QED
    BY <2>1, <1>3, FS_Subset, FS_CardinalityType
<1>5. \A s : Forwarded(s) \in SUBSET Items /\ Cardinality(Forwarded(s)) \in Nat
  BY ItemSets DEF Forwarded
<1>6. \A i \in Items : retries[i] \in Nat /\ retries[i] < MaxRetries
  BY Positive DEF TypeOK
<1>7. errors \in Nat /\ errors <= MaxErrors /\ dead \subseteq Servers
  BY Positive DEF TypeOK
<1>8. \A s \in Servers : counts[s] \in Nat
  BY DEF TypeOK
<1>9. \A i \in Items : Failures(i) \in Nat
  BY <1>6 DEF Failures
<1> QED
  BY <1>1, <1>3, <1>4, <1>5, <1>6, <1>7, <1>8, <1>9

LEMMA RouterInitially == Init => RouterInv
<1> SUFFICES ASSUME Init PROVE RouterInv
  OBVIOUS
<1>0. TypeOK
  BY Initially DEF IInv
<1>1. /\ \A i \in Items : pc[i] = "new" /\ score[i] = "none" /\ retries[i] = 0
      /\ \A s \in Servers : counts[s] = 0
      /\ errors = 0
  BY DEF Init
<1>2. \A s : Forwarded(s) = {}
  BY <1>1 DEF Forwarded
<1>3. PostInv
  BY <1>1 DEF PostInv
<1>4. CountInv /\ AliveInv
  BY <1>1, <1>2, FS_EmptySet DEF CountInv, AliveInv
<1>5. HighestInv
  BY <1>0, <1>1, RouterTypes DEF HighestInv
<1>6. BlameInv
  <2>1. \A i \in Items : Failures(i) = 0
    BY <1>1 DEF Failures, Failing
  <2> QED
    BY <2>1, <1>0, <1>1, RouterTypes DEF BlameInv
<1> QED
  BY <1>3, <1>4, <1>5, <1>6 DEF RouterInv

\* Steps that have nothing to do with the router.
LEMMA RouterSame ==
  ASSUME TypeOK, RouterInv, UNCHANGED router,
         \A i \in Items : /\ pc'[i] = "forwarding" <=> pc[i] = "forwarding"
                          /\ score'[i] = "raised" => score[i] = "raised"
                          /\ score[i] = "raised" => pc'[i] = "settled"
  PROVE  RouterInv'
<1>1. UNCHANGED <<url, retries, counts, dead, errors>>
  BY DEF router
<1>2. \A s : Forwarded(s)' = Forwarded(s)
  BY <1>1 DEF Forwarded
<1>3. Slots' = Slots
  BY <1>1 DEF Slots
<1>4. \A i \in Items : score'[i] = "raised" => pc'[i] = "settled"
  OBVIOUS
<1>5. \A i \in Items : Failing(i)' => Failing(i)
  BY <1>1 DEF Failing
<1>6. PostInv'
  BY <1>1, <1>4 DEF RouterInv, PostInv
<1>7. CountInv' /\ AliveInv' /\ HighestInv'
  BY <1>1, <1>2 DEF RouterInv, CountInv, AliveInv, HighestInv
<1>8. \A i \in Items : Failures(i)' <= Failures(i)
  BY <1>1, <1>5, RouterTypes DEF Failures
<1>9. BlameInv'
  <2> SUFFICES ASSUME dead # Servers, NEW i \in Items
               PROVE  Failures(i)' <= Cardinality(Slots)' + errors
    BY <1>1 DEF BlameInv
  <2>1. Failures(i) <= Cardinality(Slots) + errors
    BY DEF RouterInv, BlameInv
  <2>2. Failures(i)' \in Nat
    BY <1>1, RouterTypes DEF Failures
  <2> QED
    BY <2>1, <2>2, <1>3, <1>8, RouterTypes
<1> QED
  BY <1>6, <1>7, <1>9 DEF RouterInv

\* Counts of dead servers only go up, and no server comes back.
LEMMA SlotsGrow ==
  ASSUME TypeOK, dead \subseteq dead', \A s \in dead : counts'[s] \in Nat /\ counts[s] <= counts'[s]
  PROVE  /\ Slots \subseteq Slots' /\ IsFiniteSet(Slots') /\ Cardinality(Slots') \in Nat
         /\ Cardinality(Slots) <= Cardinality(Slots')
<1>1. Slots' \subseteq Servers \X (0 .. Highest - 1)
  BY DEF Slots, Highest
<1>2. IsFiniteSet(Slots') /\ Cardinality(Slots') \in Nat
  BY <1>1, RouterTypes, FS_Subset, FS_CardinalityType
<1>3. Slots \subseteq Slots'
  <2> SUFFICES ASSUME NEW p \in Slots PROVE p \in Slots'
    OBVIOUS
  <2>1. p \in Servers \X (0 .. Highest - 1) /\ p[1] \in dead /\ p[2] < counts[p[1]]
    BY DEF Slots
  <2>2. p[2] \in Nat /\ counts[p[1]] \in Nat /\ counts'[p[1]] \in Nat /\ counts[p[1]] <= counts'[p[1]]
    <3>1. p[2] \in 0 .. Highest - 1
      BY <2>1
    <3> QED
      BY <2>1, <3>1, RouterTypes
  <2>3. p[1] \in dead' /\ p[2] < counts'[p[1]]
    BY <2>1, <2>2
  <2> QED
    BY <2>1, <2>3 DEF Slots, Highest
<1> QED
  BY <1>2, <1>3, FS_Subset

LEMMA RouterSelect ==
  ASSUME TypeOK, RouterInv, NEW i \in Items, Select(i)
  PROVE  RouterInv'
<1>1. PICK s \in Servers :
         /\ LeastLoaded(s)
         /\ url' = [url EXCEPT ![i] = s]
         /\ counts' = [counts EXCEPT ![s] = @ + 1]
  BY DEF Select
<1>2. /\ pc[i] = "posting" /\ pc' = [pc EXCEPT ![i] = "forwarding"]
      /\ UNCHANGED <<score, retries, dead, errors>>
  BY DEF Select, Goto
<1>3. /\ pc'[i] = "forwarding" /\ url'[i] = s
      /\ \A j \in Items : j # i => pc'[j] = pc[j] /\ url'[j] = url[j]
  BY <1>1, <1>2 DEF TypeOK
<1>4. /\ counts'[s] = counts[s] + 1 /\ counts[s] \in Nat
      /\ \A t \in Servers : t # s => counts'[t] = counts[t]
  BY <1>1 DEF TypeOK
<1>5. \A t : i \notin Forwarded(t)
  BY <1>2 DEF Forwarded
<1>6. /\ Forwarded(s)' = Forwarded(s) \union {i}
      /\ \A t \in Servers : t # s => Forwarded(t)' = Forwarded(t)
  BY <1>2, <1>3 DEF Forwarded
<1>7. Cardinality(Forwarded(s) \union {i}) = Cardinality(Forwarded(s)) + 1
  BY <1>5, RouterTypes, OneMore
<1>8. PostInv'
  <2>1. \A j \in Items : score[j] = "raised" => j # i
    BY <1>2 DEF RouterInv, PostInv
  <2> QED
    BY <2>1, <1>2, <1>3 DEF RouterInv, PostInv
<1>9. CountInv'
  <2> SUFFICES ASSUME NEW t \in Servers PROVE Cardinality(Forwarded(t)') <= counts'[t]
    BY DEF CountInv
  <2>1. Cardinality(Forwarded(t)) <= counts[t] /\ Cardinality(Forwarded(t)) \in Nat
    BY RouterTypes DEF RouterInv, CountInv
  <2>2. CASE t = s
    BY <2>1, <2>2, <1>4, <1>6, <1>7
  <2>3. CASE t # s
    BY <2>1, <2>3, <1>4, <1>6
  <2> QED
    BY <2>2, <2>3
<1>10. AliveInv'
  <2> SUFFICES ASSUME NEW t \in Servers \ dead
               PROVE  counts'[t] <= Cardinality(Forwarded(t)') + errors
    BY <1>2 DEF AliveInv
  <2>1. counts[t] <= Cardinality(Forwarded(t)) + errors /\ Cardinality(Forwarded(t)) \in Nat
    BY RouterTypes DEF RouterInv, AliveInv
  <2>2. CASE t = s
    BY <2>1, <2>2, <1>4, <1>6, <1>7, RouterTypes
  <2>3. CASE t # s
    BY <2>1, <2>3, <1>4, <1>6
  <2> QED
    BY <2>2, <2>3
\* The least loaded server has no more than one that is alive.
<1>11. ASSUME dead # Servers PROVE counts[s] < Highest
  <2>1. PICK t \in Servers : t \notin dead
    BY <1>11, RouterTypes
  <2>2. counts[t] <= Cardinality(Forwarded(t)) + errors
    BY <2>1 DEF RouterInv, AliveInv
  <2>3. Cardinality(Forwarded(t)) < Batch
    <3> DEFINE S == Forwarded(t)
    <3>1. S \in SUBSET Items /\ S \union {i} \in SUBSET Items /\ i \in Items \ S
      BY <1>5, RouterTypes
    <3>2. Cardinality(S \union {i}) = Cardinality(S) + 1
      <4> HIDE DEF S
      <4> QED
        BY <3>1, OneMore
    <3>3. Cardinality(Items) = Batch /\ IsFiniteSet(Items)
      BY Positive, FS_Interval DEF Items
    <3>4. Cardinality(S \union {i}) <= Batch
      <4> HIDE DEF S
      <4> QED
        BY <3>1, <3>3, FS_Subset
    <3>5. Cardinality(S) \in Nat
      BY RouterTypes
    <3> HIDE DEF S
    <3>6. Cardinality(S) < Batch
      BY <3>2, <3>4, <3>5, Positive
    <3> QED
      BY <3>6 DEF S
  <2>4. counts[s] <= counts[t]
    BY <1>1, <2>1, RouterTypes DEF LeastLoaded
  <2> QED
    BY <2>1, <2>2, <2>3, <2>4, <1>4, RouterTypes, Positive DEF Highest
<1>12. HighestInv'
  <2> SUFFICES ASSUME dead # Servers, NEW t \in Servers PROVE counts'[t] <= Highest
    BY <1>2 DEF HighestInv, Highest
  <2>1. counts[t] <= Highest
    BY DEF RouterInv, HighestInv
  <2> QED
    BY <2>1, <1>4, <1>11, RouterTypes
<1>13. BlameInv'
  <2> SUFFICES ASSUME dead # Servers, NEW j \in Items
               PROVE  Failures(j)' <= Cardinality(Slots') + errors
    BY <1>2 DEF BlameInv
  <2>1. Failures(j) <= Cardinality(Slots) + errors /\ Failures(j) \in Nat
    BY RouterTypes DEF RouterInv, BlameInv
  <2>2. /\ Slots \subseteq Slots' /\ IsFiniteSet(Slots') /\ Cardinality(Slots') \in Nat
        /\ Cardinality(Slots) <= Cardinality(Slots')
    <3>1. \A t \in dead : counts'[t] \in Nat /\ counts[t] <= counts'[t]
      BY <1>4, RouterTypes
    <3> QED
      BY <3>1, <1>2, SlotsGrow
  <2>3. CASE j # i \/ s \notin dead
    <3>1. Failing(j)' => Failing(j)
      BY <2>3, <1>2, <1>3 DEF Failing
    <3>2. Failures(j)' <= Failures(j) /\ Failures(j)' \in Nat
      BY <3>1, <1>2, RouterTypes DEF Failures
    <3> QED
      BY <3>2, <2>1, <2>2, RouterTypes
  <2>4. CASE j = i /\ s \in dead
    <3> DEFINE p == <<s, counts[s]>>
    <3>1. counts[s] \in 0 .. Highest - 1
      BY <1>4, <1>11, RouterTypes
    <3>2. p \in Slots' /\ p \notin Slots
      <4>1. p \in Servers \X (0 .. Highest - 1)
        BY <3>1
      <4>2. p[1] = s /\ p[2] = counts[s] /\ p[2] < counts'[p[1]]
        BY <1>4
      <4>3. s \in dead'
        BY <2>4, <1>2
      <4> HIDE DEF p
      <4> QED
        BY <4>1, <4>2, <4>3, <1>4 DEF Slots, Highest
    <3>3. Cardinality(Slots \union {p}) = Cardinality(Slots) + 1
      BY <3>2, RouterTypes, FS_AddElement
    <3>4. Cardinality(Slots \union {p}) <= Cardinality(Slots')
      BY <2>2, <3>2, FS_Subset
    <3>5. Failures(j)' <= Failures(j) + 1 /\ Failures(j)' \in Nat
      BY <1>2, RouterTypes DEF Failures
    <3> QED
      BY <2>1, <2>2, <3>3, <3>4, <3>5, RouterTypes
  <2> QED
    BY <2>3, <2>4
<1> QED
  BY <1>8, <1>9, <1>10, <1>12, <1>13 DEF RouterInv

LEMMA RouterServe ==
  ASSUME TypeOK, RouterInv, NEW i \in Items, Serve(i)
  PROVE  RouterInv'
<1>0. PICK s \in Servers : url[i] = s
  BY DEF Serve, RouterInv, PostInv
<1>1. /\ pc[i] = "forwarding" /\ s \in Servers /\ s \notin dead
      /\ pc' = [pc EXCEPT ![i] = "settled"]
      /\ url' = [url EXCEPT ![i] = NoServer]
      /\ score' = [score EXCEPT ![i] = "reward"]
      /\ counts' = [counts EXCEPT ![s] = Down(@)]
      /\ UNCHANGED <<retries, dead, errors>>
  BY <1>0 DEF Serve, Goto
<1>2. /\ pc'[i] = "settled" /\ score'[i] = "reward"
      /\ \A j \in Items : j # i => pc'[j] = pc[j] /\ url'[j] = url[j] /\ score'[j] = score[j]
  BY <1>1 DEF TypeOK
<1>3. i \in Forwarded(s)
  BY <1>0, <1>1 DEF Forwarded
<1>4. /\ Forwarded(s)' = Forwarded(s) \ {i}
      /\ \A t \in Servers : t # s => Forwarded(t)' = Forwarded(t)
  BY <1>0, <1>1, <1>2 DEF Forwarded
<1>5. Cardinality(Forwarded(s) \ {i}) = Cardinality(Forwarded(s)) - 1
  BY <1>3, RouterTypes, OneLess
\* The count that goes down is that of the request itself.
<1>6. counts[s] > 0
  <2>1. Cardinality(Forwarded(s)) <= counts[s] /\ Cardinality(Forwarded(s)) \in Nat
    BY <1>1, RouterTypes DEF RouterInv, CountInv
  <2>2. Cardinality(Forwarded(s) \ {i}) \in Nat
    BY RouterTypes, ItemSets
  <2> QED
    BY <2>1, <2>2, <1>1, <1>5, RouterTypes
<1>7. /\ counts'[s] = counts[s] - 1 /\ counts[s] \in Nat
      /\ \A t \in Servers : t # s => counts'[t] = counts[t]
  BY <1>1, <1>6 DEF TypeOK, Down
<1>8. PostInv'
  BY <1>1, <1>2 DEF RouterInv, PostInv
<1>9. CountInv' /\ AliveInv'
  <2>1. \A t \in Servers :
           /\ Cardinality(Forwarded(t)) <= counts[t] /\ Cardinality(Forwarded(t)) \in Nat
           /\ t \notin dead => counts[t] <= Cardinality(Forwarded(t)) + errors
    BY RouterTypes DEF RouterInv, CountInv, AliveInv
  <2>2. \A t \in Servers :
           /\ Cardinality(Forwarded(t)') <= counts'[t]
           /\ t \notin dead => counts'[t] <= Cardinality(Forwarded(t)') + errors
    <3> SUFFICES ASSUME NEW t \in Servers
                 PROVE  /\ Cardinality(Forwarded(t)') <= counts'[t]
                        /\ t \notin dead => counts'[t] <= Cardinality(Forwarded(t)') + errors
      OBVIOUS
    <3>1. CASE t = s
      BY <3>1, <2>1, <1>4, <1>5, <1>7, RouterTypes
    <3>2. CASE t # s
      BY <3>2, <2>1, <1>4, <1>7
    <3> QED
      BY <3>1, <3>2
  <2> QED
    BY <2>2, <1>1 DEF CountInv, AliveInv
<1>10. HighestInv'
  BY <1>1, <1>7, RouterTypes DEF RouterInv, HighestInv, Highest
<1>11. BlameInv'
  <2> SUFFICES ASSUME dead # Servers, NEW j \in Items
               PROVE  Failures(j)' <= Cardinality(Slots') + errors
    BY <1>1 DEF BlameInv
  <2>1. Failures(j) <= Cardinality(Slots) + errors /\ Failures(j) \in Nat
    BY RouterTypes DEF RouterInv, BlameInv
  <2>2. Cardinality(Slots') \in Nat /\ Cardinality(Slots) <= Cardinality(Slots')
    <3>1. \A t \in dead : counts'[t] \in Nat /\ counts[t] <= counts'[t]
      BY <1>1, <1>7, RouterTypes
    <3> QED
      BY <3>1, <1>1, SlotsGrow
  <2>3. Failing(j)' => Failing(j)
    BY <1>1, <1>2 DEF Failing
  <2>4. Failures(j)' <= Failures(j) /\ Failures(j)' \in Nat
    BY <2>3, <1>1, RouterTypes DEF Failures
  <2> QED
    BY <2>1, <2>2, <2>4, RouterTypes
<1> QED
  BY <1>8, <1>9, <1>10, <1>11 DEF RouterInv

\* A post fails, by a dead server or by an error.
LEMMA RouterFail ==
  ASSUME TypeOK, RouterInv, NEW i \in Items, pc[i] = "forwarding", Fail(i), UNCHANGED dead,
         errors' \in Nat, \/ url[i] \in dead /\ errors' = errors
                          \/ url[i] \notin dead /\ errors' = errors + 1
  PROVE  RouterInv'
<1>1. PICK s \in Servers : url[i] = s
  BY DEF RouterInv, PostInv
<1>2. url' = [url EXCEPT ![i] = NoServer] /\ counts' = counts /\ score[i] # "raised"
  BY DEF Fail, RouterInv, PostInv
<1>3. /\ \A j \in Items : j # i => /\ pc'[j] = pc[j] /\ url'[j] = url[j]
                                   /\ score'[j] = score[j] /\ retries'[j] = retries[j]
      /\ pc'[i] # "forwarding"
  BY DEF Fail, Goto, TypeOK
<1>4. \/ score'[i] = score[i] /\ retries'[i] = retries[i] + 1
      \/ score'[i] = "raised" /\ retries'[i] = retries[i] /\ pc'[i] = "settled"
                              /\ ~(retries[i] + 1 < MaxRetries)
  BY DEF Fail, Goto, TypeOK
<1>5. errors \in Nat /\ errors <= errors'
  BY RouterTypes
<1>6. i \in Forwarded(s)
  BY <1>1 DEF Forwarded
<1>7. /\ Forwarded(s)' = Forwarded(s) \ {i}
      /\ \A t \in Servers : t # s => Forwarded(t)' = Forwarded(t)
  BY <1>1, <1>3 DEF Forwarded
<1>8. Cardinality(Forwarded(s) \ {i}) = Cardinality(Forwarded(s)) - 1
  BY <1>6, RouterTypes, OneLess
<1>9. PostInv'
  BY <1>2, <1>3, <1>4, RouterTypes, Positive DEF RouterInv, PostInv
<1>10. CountInv'
  <2>1. \A t \in Servers :
           Cardinality(Forwarded(t)') <= Cardinality(Forwarded(t)) /\ Cardinality(Forwarded(t)') \in Nat
    <3>1. Cardinality(Forwarded(s) \ {i}) \in Nat
      BY RouterTypes, ItemSets
    <3>2. \A t : Cardinality(Forwarded(t)) \in Nat
      BY RouterTypes
    <3> QED
      BY <3>1, <3>2, <1>7, <1>8
  <2>2. \A t \in Servers : Cardinality(Forwarded(t)) <= counts[t]
    BY DEF RouterInv, CountInv
  <2> QED
    BY <2>1, <2>2, <1>2, RouterTypes DEF CountInv
<1>11. AliveInv'
  <2> SUFFICES ASSUME NEW t \in Servers \ dead
               PROVE  counts[t] <= Cardinality(Forwarded(t)') + errors'
    BY <1>2 DEF AliveInv
  <2>1. counts[t] <= Cardinality(Forwarded(t)) + errors /\ Cardinality(Forwarded(t)) \in Nat
    BY RouterTypes DEF RouterInv, AliveInv
  <2>2. CASE t = s
    <3>1. errors' = errors + 1
      BY <2>2, <1>1
    <3> QED
      BY <3>1, <2>1, <2>2, <1>5, <1>7, <1>8, RouterTypes
  <2>3. CASE t # s
    BY <2>1, <2>3, <1>5, <1>7, RouterTypes
  <2> QED
    BY <2>2, <2>3
<1>12. HighestInv'
  BY <1>2 DEF RouterInv, HighestInv, Highest
<1>13. BlameInv'
  <2> SUFFICES ASSUME dead # Servers, NEW j \in Items
               PROVE  Failures(j)' <= Cardinality(Slots') + errors'
    BY DEF BlameInv
  <2>1. /\ Failures(j) <= Cardinality(Slots) + errors
        /\ Failures(j) \in Nat /\ Cardinality(Slots) \in Nat
    BY RouterTypes DEF RouterInv, BlameInv
  <2>2. Slots' = Slots
    BY <1>2 DEF Slots
  <2>3. CASE j # i
    <3>1. Failures(j)' = Failures(j)
      BY <2>3, <1>3 DEF Failures, Failing
    <3> QED
      BY <3>1, <2>1, <2>2, <1>5
  <2>4. CASE j = i
    <3>1. Failures(i)' = retries[i] + 1 /\ retries[i] \in Nat
      BY <1>2, <1>3, <1>4, RouterTypes DEF Failures, Failing
    <3>2. CASE url[i] \in dead
      <4>1. Failures(i) = retries[i] + 1
        BY <3>2 DEF Failures, Failing
      <4> QED
        BY <4>1, <3>1, <3>2, <2>1, <2>2, <2>4
    <3>3. CASE url[i] \notin dead
      <4>1. Failures(i) = retries[i]
        BY <3>1, <3>3, <1>2 DEF Failures, Failing
      <4> QED
        BY <4>1, <3>1, <3>3, <2>1, <2>2, <2>4, <1>5
    <3> QED
      BY <3>2, <3>3
  <2> QED
    BY <2>3, <2>4
<1> QED
  BY <1>9, <1>10, <1>11, <1>12, <1>13 DEF RouterInv

\* A request that is with the server that dies has its count there.
LEMMA RouterDie ==
  ASSUME TypeOK, RouterInv, NEW s \in Servers, Die(s)
  PROVE  RouterInv'
<1>1. /\ s \notin dead /\ dead' = dead \union {s}
      /\ UNCHANGED <<pc, url, score, retries, counts, errors>>
  BY DEF Die, items
<1>2. \A t : Forwarded(t)' = Forwarded(t)
  BY <1>1 DEF Forwarded
<1>3. PostInv' /\ CountInv' /\ AliveInv'
  BY <1>1, <1>2 DEF RouterInv, PostInv, CountInv, AliveInv
<1>4. ASSUME dead' # Servers PROVE dead # Servers
  BY <1>1, <1>4
<1>5. HighestInv'
  BY <1>1, <1>4 DEF RouterInv, HighestInv, Highest
<1>6. BlameInv'
  <2> SUFFICES ASSUME dead' # Servers, NEW j \in Items
               PROVE  Failures(j)' <= Cardinality(Slots') + errors
    BY <1>1 DEF BlameInv
  <2>1. Failures(j) <= Cardinality(Slots) + errors /\ Failures(j) \in Nat
    BY <1>4, RouterTypes DEF RouterInv, BlameInv
  <2>2. /\ Slots \subseteq Slots' /\ IsFiniteSet(Slots') /\ Cardinality(Slots') \in Nat
        /\ Cardinality(Slots) <= Cardinality(Slots')
    <3>1. \A t \in dead : counts'[t] \in Nat /\ counts[t] <= counts'[t]
      BY <1>1, RouterTypes
    <3> QED
      BY <3>1, <1>1, SlotsGrow
  <2>3. CASE ~(pc[j] = "forwarding" /\ url[j] = s)
    <3>1. Failing(j)' => Failing(j)
      BY <2>3, <1>1 DEF Failing
    <3>2. Failures(j)' <= Failures(j) /\ Failures(j)' \in Nat
      BY <3>1, <1>1, RouterTypes DEF Failures
    <3> QED
      BY <3>2, <2>1, <2>2, RouterTypes
  <2>4. CASE pc[j] = "forwarding" /\ url[j] = s
    <3> DEFINE p == <<s, 0>>
    <3>1. counts[s] > 0
      <4>1. Cardinality(Forwarded(s)) <= counts[s] /\ Cardinality(Forwarded(s)) \in Nat
        BY RouterTypes DEF RouterInv, CountInv
      <4>2. Cardinality(Forwarded(s)) # 0
        <5>1. j \in Forwarded(s)
          BY <2>4 DEF Forwarded
        <5> QED
          BY <5>1, RouterTypes, ItemSets, FS_EmptySet
      <4> QED
        BY <4>1, <4>2, RouterTypes
    <3>2. p \in Slots' /\ p \notin Slots
      <4>1. p \in Servers \X (0 .. Highest - 1) /\ p[1] = s /\ p[2] = 0
        BY RouterTypes
      <4> HIDE DEF p
      <4> QED
        BY <4>1, <3>1, <1>1 DEF Slots, Highest
    <3>3. Cardinality(Slots \union {p}) = Cardinality(Slots) + 1
      BY <3>2, RouterTypes, FS_AddElement
    <3>4. Cardinality(Slots \union {p}) <= Cardinality(Slots')
      BY <2>2, <3>2, FS_Subset
    <3>5. Failures(j)' <= Failures(j) + 1 /\ Failures(j)' \in Nat
      BY <1>1, RouterTypes DEF Failures
    <3> QED
      BY <2>1, <2>2, <3>3, <3>4, <3>5, RouterTypes
  <2> QED
    BY <2>3, <2>4
<1> QED
  BY <1>3, <1>5, <1>6 DEF RouterInv

LEMMA RouterStep == IInv /\ RouterInv /\ [Next]_vars => RouterInv'
<1> SUFFICES ASSUME IInv, RouterInv, [Next]_vars PROVE RouterInv'
  OBVIOUS
<1>0. TypeOK /\ WaitersInv
  BY DEF IInv
<1> DEFINE Aside == \A i \in Items :
               /\ pc'[i] = "forwarding" <=> pc[i] = "forwarding"
               /\ score'[i] = "raised" => score[i] = "raised"
               /\ score[i] = "raised" => pc'[i] = "settled"
<1>1. \A i \in Items : score[i] = "raised" => pc[i] = "settled"
  BY DEF RouterInv, PostInv
<1>2. CASE \/ UNCHANGED vars \/ Tick \/ Collect \/ (\E w \in Pool : StartJob(w))
           \/ \E i \in Items : Raise(i) \/ ThreadEnds(i) \/ Acquire(i)
  <2>1. UNCHANGED <<router, pc, score>>
    BY <1>2 DEF vars, items, Tick, Collect, StartJob, Raise, ThreadEnds, Acquire
  <2> QED
    BY <2>1, <1>0, <1>1, RouterSame
<1>3. ASSUME NEW i \in Items,
             \/ Begin(i) \/ Decoded(i) \/ AcquireLater(i) \/ AcquireLarge(i)
             \/ Wake(i) \/ Enter(i) \/ Call(i)
      PROVE  RouterInv'
  <2>1. /\ UNCHANGED <<router, score>> /\ pc[i] \notin {"settled", "forwarding"}
        /\ \E place \in Places \ {"forwarding"} : pc' = [pc EXCEPT ![i] = place]
    BY <1>3 DEF Begin, Decoded, AcquireLater, AcquireLarge, AtLimiter, Wake, Enter, Call, Goto, Places
  <2>2. Aside
    BY <2>1, <1>0, <1>1 DEF TypeOK
  <2> QED
    BY <2>1, <2>2, <1>0, RouterSame
<1>4. ASSUME NEW i \in Items, Answer(i) \/ TimeOut(i) PROVE RouterInv'
  <2>1. pc[i] = "calling" /\ UNCHANGED router
    BY <1>4 DEF Answer, TimeOut
  <2>2. PICK how \in {"float", "error", "timeout"} \union Dicts : Finish(i, how)
    BY <1>4 DEF Answer, TimeOut
  <2>3. /\ \A j \in Items : j # i => score'[j] = score[j]
        /\ score'[i] # "raised"
    <3>1. how # "raised"
      BY <2>2, ResultsAssumption DEF FailedScores
    <3> QED
      BY <2>2, <3>1, <1>0 DEF Finish, TypeOK
  <2>4. \A j \in Items :
           \/ pc'[j] = pc[j]
           \/ pc[j] \in {"calling", "queued"} /\ pc'[j] \in {"settled", "granted"}
    <3>0. pc \in [Items -> Places]
      BY <1>0 DEF TypeOK
    <3>1. CASE waiters[WorkerOf(i)] = <<>>
      <4>1. pc' = [pc EXCEPT ![i] = "settled"]
        BY <3>1, <2>2 DEF Finish, Goto
      <4> QED
        BY <4>1, <3>0, <2>1
    <3>2. CASE waiters[WorkerOf(i)] # <<>>
      <4> DEFINE h == Head(waiters[WorkerOf(i)])
      <4>1. pc[h] = "queued" /\ h \in Items
        BY <3>2, WorkerType, FirstWaiter
      <4>2. pc' = [pc EXCEPT ![i] = "settled", ![h] = "granted"]
        BY <3>2, <2>2 DEF Finish
      <4> HIDE DEF h
      <4> QED
        BY <4>1, <4>2, <3>0, <2>1
    <3> QED
      BY <3>1, <3>2
  <2>5. Aside
    BY <2>1, <2>3, <2>4, <1>1
  <2> QED
    BY <2>1, <2>5, <1>0, RouterSame
<1>5. ASSUME NEW i \in Items, Select(i) PROVE RouterInv'
  BY <1>5, <1>0, RouterSelect
<1>6. ASSUME NEW i \in Items, Serve(i) PROVE RouterInv'
  BY <1>6, <1>0, RouterServe
<1>7. ASSUME NEW i \in Items, HTTPError(i) PROVE RouterInv'
  <2>1. /\ pc[i] = "forwarding" /\ url[i] \notin dead /\ Fail(i)
        /\ errors' = errors + 1 /\ UNCHANGED dead
    BY <1>7 DEF HTTPError
  <2>2. errors' \in Nat
    BY <2>1, <1>0, RouterTypes
  <2> QED
    BY <2>1, <2>2, <1>0, RouterFail
<1>8. ASSUME NEW i \in Items, Refuse(i) PROVE RouterInv'
  <2>1. pc[i] = "forwarding" /\ url[i] \in dead /\ UNCHANGED <<dead, errors>>
    BY <1>8 DEF Refuse
  <2>2. CASE tries[i] + 1 < MaxAttempts
    <3>1. UNCHANGED <<pc, score, url, retries, counts, dead, errors>>
      BY <1>8, <2>1, <2>2 DEF Refuse
    <3> QED
      BY <3>1 DEF RouterInv, PostInv, CountInv, AliveInv, HighestInv, BlameInv, Forwarded,
                  Highest, Slots, Failing, Failures
  <2>3. CASE ~(tries[i] + 1 < MaxAttempts)
    <3>1. Fail(i) /\ errors' \in Nat
      BY <1>0, <1>8, <2>1, <2>3, RouterTypes DEF Refuse
    <3> QED
      BY <3>1, <2>1, <1>0, RouterFail
  <2> QED
    BY <2>2, <2>3
<1>9. ASSUME NEW s \in Servers, Die(s) PROVE RouterInv'
  BY <1>9, <1>0, RouterDie
<1> QED
  BY <1>2, <1>3, <1>4, <1>5, <1>6, <1>7, <1>8, <1>9 DEF Next, Own, External

\* The counts that dead servers have, while one is alive.
LEMMA FewSlots ==
  ASSUME TypeOK, dead # Servers
  PROVE  Cardinality(Slots) <= (NumServers - 1) * Highest
<1>1. PICK t \in Servers : t \notin dead
  BY RouterTypes
<1> DEFINE Others == Servers \ {t}
<1>2. IsFiniteSet(Servers) /\ Cardinality(Servers) = NumServers
  BY Positive, FS_Interval DEF Servers
<1>3. IsFiniteSet(Others) /\ Cardinality(Others) = NumServers - 1
  BY <1>2, FS_RemoveElement
<1>4. IsFiniteSet(0 .. Highest - 1) /\ Cardinality(0 .. Highest - 1) = Highest
  <2>1. Highest - 1 \in Int /\ 0 <= Highest - 1 /\ (Highest - 1) - 0 + 1 = Highest
    BY RouterTypes
  <2> DEFINE h == Highest - 1
  <2>2. h \in Int /\ 0 <= h /\ h - 0 + 1 = Highest
    BY <2>1
  <2> HIDE DEF h
  <2>3. IsFiniteSet(0 .. h) /\ Cardinality(0 .. h) = Highest
    BY <2>2, FS_Interval
  <2> QED
    BY <2>3 DEF h
<1> HIDE DEF Others
<1>5. /\ IsFiniteSet(Others \X (0 .. Highest - 1))
      /\ Cardinality(Others \X (0 .. Highest - 1)) = (NumServers - 1) * Highest
  BY <1>3, <1>4, FS_Product, ZenonT(30)
<1>6. Slots \subseteq Others \X (0 .. Highest - 1)
  BY <1>1 DEF Slots, Others
<1> QED
  BY <1>5, <1>6, FS_Subset

\* While a server is alive, no post fails more often than MostFailures says,
\* whichever others die and whenever; if it is given up, there are no more
\* retries than that.  _post_request has 16: for larger batches, or with errors,
\* this does not rule out that a post is given up.
THEOREM PostsFailFewTimes == Spec => []NobodyGivesUp
<1>1. Init => RouterInv
  BY RouterInitially
<1>2. IInv /\ RouterInv /\ [Next]_vars => RouterInv'
  BY RouterStep
<1>3. IInv /\ RouterInv => NobodyGivesUp
  <2> SUFFICES ASSUME IInv, RouterInv, NEW i \in Items, dead # Servers
               PROVE  /\ FailedPosts(i) <= MostFailures
                      /\ score[i] = "raised" => MaxRetries <= MostFailures
    BY DEF NobodyGivesUp
  <2>0. TypeOK
    BY DEF IInv
  <2> DEFINE most == (NumServers - 1) * Highest
  <2>1. Failures(i) <= Cardinality(Slots) + errors
    BY DEF RouterInv, BlameInv
  <2>2. Cardinality(Slots) <= most
    BY <2>0, FewSlots
  <2>3. most \in Int /\ MostFailures = most + MaxErrors
    BY <2>0, RouterTypes, Positive DEF MostFailures, Highest
  <2> HIDE DEF most
  <2>4. Failures(i) <= MostFailures
    BY <2>0, <2>1, <2>2, <2>3, RouterTypes, Positive
  <2>5. FailedPosts(i) <= Failures(i) /\ FailedPosts(i) \in Nat
    BY <2>0, RouterTypes DEF FailedPosts, Failures, Failing
  <2>6. FailedPosts(i) <= MostFailures
    BY <2>0, <2>3, <2>4, <2>5, RouterTypes, Positive
  <2>7. ASSUME score[i] = "raised" PROVE MaxRetries <= MostFailures
    <3>1. FailedPosts(i) = retries[i] + 1 /\ retries[i] + 1 >= MaxRetries
      BY <2>7 DEF FailedPosts, RouterInv, PostInv
    <3> QED
      BY <2>0, <2>3, <2>6, <3>1, RouterTypes, Positive
  <2> QED
    BY <2>6, <2>7
<1> QED
  BY <1>1, <1>2, <1>3, Inductive, PTL DEF Spec
=============================================================================
