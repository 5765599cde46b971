---------------------------- MODULE BalancingProofs ----------------------------
(***************************************************************************)
(* Theorems about the two balancers: LoadBalancer, for any conversations,  *)
(* servers, cache and number of turns; and BatchPath with KarmarkarKarp,   *)
(* for any ranks, samples, token counts and divisors.                      *)
(***************************************************************************)
EXTENDS LoadBalancer, BatchPath, FiniteSetTheorems, FunctionTheorems,
        SequenceTheorems, WellFoundedInduction, TLAPS


(***************************************************************************)
(* CountsExact needs to know that a turn in progress has a server and owes *)
(* no release: the release of the turn before was served first, because    *)
(* the calls of a conversation arrive in order.                            *)
(***************************************************************************)
CountTypes ==
    /\ inflight \in [Servers -> Nat]
    /\ turn \in [Requests -> Stages]
    /\ server \in [Requests -> Assigned]
    /\ owed \in [Requests -> Assigned]

TurnInv ==
    \A r \in Requests : turn[r] = "generating" =>
        server[r] \in Servers /\ owed[r] = NoServer

IInv == CountTypes /\ TurnInv /\ CountsExact
-----------------------------------------------------------------------------
\* The sets that are counted are finite.
LEMMA CountedSets ==
  ASSUME NEW S \in SUBSET Requests
  PROVE  IsFiniteSet(S) /\ Cardinality(S) \in Nat
BY RequestsAssumption, FS_Subset, FS_CardinalityType

\* One more, one less.
LEMMA OneMore ==
  ASSUME NEW S \in SUBSET Requests, NEW r \in Requests \ S
  PROVE  Cardinality(S \union {r}) = Cardinality(S) + 1
BY CountedSets, FS_AddElement

LEMMA OneLess ==
  ASSUME NEW S \in SUBSET Requests, NEW r \in S
  PROVE  Cardinality(S \ {r}) = Cardinality(S) - 1
BY CountedSets, FS_RemoveElement

LEMMA ServerNames == NoServer \notin Servers /\ Servers \subseteq Assigned
  BY ServersAssumption DEF Assigned

\* A request that a conversation begins changes no count.
LEMMA AskKeeps ==
  ASSUME IInv, NEW r \in Requests, Ask(r)
  PROVE  IInv'
<1>1. CountTypes' /\ TurnInv'
  BY DEF Ask, balancer, IInv, CountTypes, TurnInv, Stages
<1>2. UNCHANGED <<inflight, server, owed>>
  BY DEF Ask, balancer
<1>3. \A s \in Servers : Generating(s)' = Generating(s) /\ Releasing(s)' = Releasing(s)
  BY <1>2 DEF Ask, Generating, Releasing, IInv, CountTypes
<1>4. CountsExact'
  BY <1>2, <1>3 DEF IInv, CountsExact
<1> QED
  BY <1>1, <1>4 DEF IInv

\* A turn that ends becomes a release on its way.
LEMMA FinishKeeps ==
  ASSUME IInv, NEW r \in Requests, Finish(r)
  PROVE  IInv'
<1> DEFINE s0 == server[r]
<1>1. s0 \in Servers /\ owed[r] = NoServer /\ turn[r] = "generating"
  BY DEF Finish, IInv, TurnInv
<1>2. PICK next \in {"idle", "over"} : turn' = [turn EXCEPT ![r] = next]
  BY DEF Finish
<1>3. owed' = [owed EXCEPT ![r] = s0] /\ UNCHANGED <<inflight, server>>
  BY DEF Finish, balancer
<1>4. CountTypes' /\ TurnInv'
  BY <1>1, <1>2, <1>3, ServerNames DEF IInv, CountTypes, TurnInv, Stages
<1>5. ASSUME NEW s \in Servers
      PROVE  inflight'[s] = Cardinality(Generating(s)') + Cardinality(Releasing(s)')
  <2>1. Generating(s) \in SUBSET Requests /\ Releasing(s) \in SUBSET Requests
    BY DEF Generating, Releasing
  <2>2. inflight[s] = Cardinality(Generating(s)) + Cardinality(Releasing(s))
    BY DEF IInv, CountsExact
  <2>3. CASE s = s0
    <3>1. r \in Generating(s) /\ r \notin Releasing(s)
      BY <1>1, <2>3, ServerNames DEF Generating, Releasing
    <3>2. Generating(s)' = Generating(s) \ {r}
      BY <1>2, <1>3 DEF Generating, IInv, CountTypes
    <3>3. Releasing(s)' = Releasing(s) \union {r}
      BY <1>3, <2>3 DEF Releasing, IInv, CountTypes
    <3>4. Cardinality(Generating(s)') = Cardinality(Generating(s)) - 1
      BY <2>1, <3>1, <3>2, OneLess
    <3>5. Cardinality(Releasing(s)') = Cardinality(Releasing(s)) + 1
      BY <2>1, <3>1, <3>3, OneMore
    <3> QED
      BY <1>3, <2>1, <2>2, <3>4, <3>5, CountedSets
  <2>4. CASE s # s0
    <3>1. Generating(s)' = Generating(s)
      BY <1>2, <1>3, <2>4 DEF Generating, IInv, CountTypes
    <3>2. Releasing(s)' = Releasing(s)
      BY <1>1, <1>3, <2>4, ServerNames DEF Releasing, IInv, CountTypes
    <3> QED
      BY <1>3, <2>2, <3>1, <3>2
  <2> QED
    BY <2>3, <2>4
<1>6. CountsExact'
  BY <1>5 DEF CountsExact
<1> QED
  BY <1>4, <1>6 DEF IInv

\* A turn that gets its server is counted there.
LEMMA AcquireKeeps ==
  ASSUME IInv, NEW r \in Requests, Acquire(r)
  PROVE  IInv'
<1>1. turn[r] = "asked" /\ owed[r] = NoServer
  BY DEF Acquire
<1>2. PICK s0 \in Servers : /\ inflight' = [inflight EXCEPT ![s0] = @ + 1]
                            /\ server' = [server EXCEPT ![r] = s0]
  BY DEF Acquire
<1>3. turn' = [turn EXCEPT ![r] = "generating"] /\ owed' = owed
  BY DEF Acquire
<1>4. CountTypes' /\ TurnInv'
  BY <1>1, <1>2, <1>3, ServerNames DEF IInv, CountTypes, TurnInv, Stages
<1>5. ASSUME NEW s \in Servers
      PROVE  inflight'[s] = Cardinality(Generating(s)') + Cardinality(Releasing(s)')
  <2>1. Generating(s) \in SUBSET Requests /\ Releasing(s) \in SUBSET Requests
    BY DEF Generating, Releasing
  <2>2. inflight[s] = Cardinality(Generating(s)) + Cardinality(Releasing(s))
    BY DEF IInv, CountsExact
  <2>3. Releasing(s)' = Releasing(s)
    BY <1>3 DEF Releasing
  <2>4. r \notin Generating(s)
    BY <1>1 DEF Generating
  <2>5. CASE s = s0
    <3>1. Generating(s)' = Generating(s) \union {r}
      BY <1>2, <1>3, <2>5 DEF Generating, IInv, CountTypes
    <3>2. Cardinality(Generating(s)') = Cardinality(Generating(s)) + 1
      BY <2>1, <2>4, <3>1, OneMore
    <3>3. inflight'[s] = inflight[s] + 1
      BY <1>2, <2>5 DEF IInv, CountTypes
    <3> QED
      BY <2>1, <2>2, <2>3, <3>2, <3>3, CountedSets
  <2>6. CASE s # s0
    <3>1. Generating(s)' = Generating(s)
      BY <1>1, <1>2, <1>3, <2>6 DEF Generating, IInv, CountTypes
    <3>2. inflight'[s] = inflight[s]
      BY <1>2, <2>6 DEF IInv, CountTypes
    <3> QED
      BY <2>2, <2>3, <3>1, <3>2
  <2> QED
    BY <2>5, <2>6
<1>6. CountsExact'
  BY <1>5 DEF CountsExact
<1> QED
  BY <1>4, <1>6 DEF IInv

\* A release finds a count above zero.
LEMMA ReleasePositive ==
  ASSUME IInv, NEW r \in Requests, owed[r] # NoServer
  PROVE  owed[r] \in Servers /\ inflight[owed[r]] > 0
<1>1. owed[r] \in Servers
  BY DEF IInv, CountTypes, Assigned
<1> DEFINE s == owed[r]
<1>2. Generating(s) \in SUBSET Requests /\ Releasing(s) \in SUBSET Requests
  BY DEF Generating, Releasing
<1>3. r \in Releasing(s)
  BY DEF Releasing
<1>4. Cardinality(Releasing(s) \ {r}) = Cardinality(Releasing(s)) - 1
  BY <1>2, <1>3, OneLess
<1>5. Releasing(s) \ {r} \in SUBSET Requests
  BY <1>2
<1>6. /\ Cardinality(Generating(s)) \in Nat /\ Cardinality(Releasing(s)) \in Nat
      /\ Cardinality(Releasing(s) \ {r}) \in Nat
  BY <1>2, <1>5, CountedSets
<1>7. inflight[s] = Cardinality(Generating(s)) + Cardinality(Releasing(s))
  BY <1>1 DEF IInv, CountsExact
<1> QED
  BY <1>1, <1>4, <1>6, <1>7

\* A release that is served is one less on its way, and one less counted.
LEMMA ReleaseKeeps ==
  ASSUME IInv, NEW r \in Requests, Release(r)
  PROVE  IInv'
<1> DEFINE s0 == owed[r]
<1>1. s0 # NoServer /\ s0 \in Servers /\ inflight[s0] > 0
  BY ReleasePositive DEF Release
<1>2. inflight' = [inflight EXCEPT ![s0] = @ - 1]
  BY <1>1 DEF Release, IInv, CountTypes
<1>3. owed' = [owed EXCEPT ![r] = NoServer] /\ UNCHANGED <<turn, server>>
  BY DEF Release
<1>4. CountTypes' /\ TurnInv'
  BY <1>1, <1>2, <1>3, ServerNames DEF IInv, CountTypes, TurnInv, Assigned
<1>5. ASSUME NEW s \in Servers
      PROVE  inflight'[s] = Cardinality(Generating(s)') + Cardinality(Releasing(s)')
  <2>1. Generating(s) \in SUBSET Requests /\ Releasing(s) \in SUBSET Requests
    BY DEF Generating, Releasing
  <2>2. inflight[s] = Cardinality(Generating(s)) + Cardinality(Releasing(s))
    BY DEF IInv, CountsExact
  <2>3. Generating(s)' = Generating(s)
    BY <1>3 DEF Generating
  <2>4. CASE s = s0
    <3>1. r \in Releasing(s)
      BY <2>4 DEF Releasing
    <3>2. Releasing(s)' = Releasing(s) \ {r}
      BY <1>1, <1>3, <2>4 DEF Releasing, IInv, CountTypes
    <3>3. Cardinality(Releasing(s)') = Cardinality(Releasing(s)) - 1
      BY <2>1, <3>1, <3>2, OneLess
    <3>4. inflight'[s] = inflight[s] - 1
      BY <1>2, <2>4 DEF IInv, CountTypes
    <3> QED
      BY <2>1, <2>2, <2>3, <3>3, <3>4, CountedSets
  <2>5. CASE s # s0
    <3>1. Releasing(s)' = Releasing(s)
      BY <1>3, <2>5, ServerNames DEF Releasing, IInv, CountTypes
    <3>2. inflight'[s] = inflight[s]
      BY <1>2, <2>5 DEF IInv, CountTypes
    <3> QED
      BY <2>2, <2>3, <3>1, <3>2
  <2> QED
    BY <2>4, <2>5
<1>6. CountsExact'
  BY <1>5 DEF CountsExact
<1> QED
  BY <1>4, <1>6 DEF IInv

\* IInv is inductive: every call and every step of a turn keeps it.
THEOREM Invariance == Spec => []IInv
<1>1. Init => IInv
  <2> SUFFICES ASSUME Init PROVE IInv
    OBVIOUS
  <2>1. CountTypes /\ TurnInv
    BY DEF Init, CountTypes, TurnInv, Stages, Assigned
  <2>2. \A s \in Servers : Generating(s) = {} /\ Releasing(s) = {}
    BY ServerNames DEF Init, Generating, Releasing
  <2>3. Cardinality({}) = 0
    BY FS_EmptySet
  <2>4. CountsExact
    <3> SUFFICES ASSUME NEW s \in Servers
                 PROVE  inflight[s] = Cardinality(Generating(s)) + Cardinality(Releasing(s))
      BY DEF CountsExact
    <3>1. Cardinality(Generating(s)) = 0 /\ Cardinality(Releasing(s)) = 0
      BY <2>2, <2>3
    <3>2. inflight[s] = 0
      BY DEF Init
    <3> QED
      BY <3>1, <3>2
  <2> QED
    BY <2>1, <2>4 DEF IInv
<1>2. IInv /\ [Next]_vars => IInv'
  <2> SUFFICES ASSUME IInv, [Next]_vars PROVE IInv'
    OBVIOUS
  <2>1. ASSUME NEW r \in Requests, Turn(r)
        PROVE  IInv'
    BY <2>1, AskKeeps, FinishKeeps, AcquireKeeps, ReleaseKeeps DEF Turn
  <2>2. CASE UNCHANGED vars
    BY <2>2 DEF vars, balancer, callers, IInv, CountTypes, TurnInv, CountsExact,
      Generating, Releasing
  <2> QED
    BY <2>1, <2>2 DEF Next, Terminating
<1> QED
  BY <1>1, <1>2, PTL DEF Spec

\* The count of every server is the number of turns on it and of releases on
\* their way, for any number of conversations, servers and turns.
THEOREM ExactCounts == Spec => []CountsExact
<1>1. IInv => CountsExact
  BY DEF IInv
<1> QED
  BY <1>1, Invariance, PTL

\* release_server never meets a count of zero: the exception nobody would see
\* is never raised.
NoUnderflow == \A r \in Requests : owed[r] # NoServer => inflight[owed[r]] > 0

\* For any conversations, servers and turns: every release finds the count of
\* its server above zero.
THEOREM ReleasesSucceed == Spec => []NoUnderflow
<1>1. IInv => NoUnderflow
  BY ReleasePositive DEF NoUnderflow
<1> QED
  BY <1>1, Invariance, PTL
-----------------------------------------------------------------------------
(***************************************************************************)
(* Sticky rests on the order of the cache: the keys that were used later   *)
(* than a conversation's are of conversations that acquired a server since *)
(* it did.  When its key is dropped there are CacheSize of them, and more  *)
(* it never forgets.                                                       *)
(***************************************************************************)
Distinct(s) == \A m, n \in DOMAIN s : s[m] = s[n] => m = n

CacheInv == Distinct(recency) /\ Len(recency) <= CacheSize

KeyInv ==
    \A q \in Requests : server[q] # NoServer =>
        \/ \E k \in DOMAIN recency :
              /\ recency[k] = q /\ cached[q] = server[q]
              /\ \A m \in DOMAIN recency : m > k => recency[m] \in others[q]
        \/ Cardinality(others[q]) >= CacheSize

StickyInv == TypeOK /\ CacheInv /\ KeyInv

\* A sequence without its k-th element.
LEMMA OneOut ==
  ASSUME NEW S, NEW s \in Seq(S), NEW k \in 1 .. Len(s)
  PROVE  LET t == SubSeq(s, 1, k - 1) \o SubSeq(s, k + 1, Len(s))
         IN  /\ t \in Seq(S) /\ Len(t) = Len(s) - 1
             /\ \A n \in 1 .. Len(s) - 1 : t[n] = s[IF n < k THEN n ELSE n + 1]
<1> DEFINE a == SubSeq(s, 1, k - 1)
           c == SubSeq(s, k + 1, Len(s))
           t == a \o c
<1>0. Len(s) \in Nat /\ k \in Nat /\ k > 0 /\ k <= Len(s)
  OBVIOUS
<1>1. a \in Seq(S) /\ Len(a) = k - 1 /\ \A n \in 1 .. k - 1 : a[n] = s[n]
  <2>1. \A n \in 1 .. k - 1 : n \in 1 .. Len(s)
    BY <1>0
  <2>2. a \in Seq(S) /\ Len(a) = (IF 1 <= k - 1 THEN (k - 1) - 1 + 1 ELSE 0)
    BY <1>0, <2>1, SubSeqProperties
  <2>3. \A n \in 1 .. k - 1 : a[n] = s[1 + n - 1]
    BY <1>0, <2>1, SubSeqProperties
  <2> HIDE DEF a
  <2> QED
    BY <1>0, <2>2, <2>3
<1>2. c \in Seq(S) /\ Len(c) = Len(s) - k /\ \A n \in 1 .. Len(s) - k : c[n] = s[n + k]
  <2>1. \A n \in k + 1 .. Len(s) : n \in 1 .. Len(s)
    BY <1>0
  <2>2. c \in Seq(S) /\ Len(c) = (IF k + 1 <= Len(s) THEN Len(s) - (k + 1) + 1 ELSE 0)
    BY <1>0, <2>1, SubSeqProperties
  <2>3. \A n \in 1 .. Len(s) - (k + 1) + 1 : c[n] = s[(k + 1) + n - 1]
    BY <1>0, <2>1, SubSeqProperties
  <2> HIDE DEF c
  <2>4. \A n \in 1 .. Len(s) - k : (k + 1) + n - 1 = n + k /\ n \in 1 .. Len(s) - (k + 1) + 1
    BY <1>0
  <2> QED
    BY <1>0, <2>2, <2>3, <2>4
<1> HIDE DEF a, c
<1>3. /\ t \in Seq(S) /\ Len(t) = Len(a) + Len(c)
      /\ \A n \in 1 .. Len(a) + Len(c) : t[n] = IF n <= Len(a) THEN a[n] ELSE c[n - Len(a)]
  BY <1>1, <1>2, ConcatProperties
<1> HIDE DEF t
<1>4. ASSUME NEW n \in 1 .. Len(s) - 1 PROVE t[n] = s[IF n < k THEN n ELSE n + 1]
  <2>1. CASE n < k
    <3>1. n \in 1 .. k - 1 /\ n <= Len(a) /\ n \in 1 .. Len(a) + Len(c)
      BY <2>1, <1>0, <1>1, <1>2
    <3> QED
      BY <3>1, <2>1, <1>1, <1>3
  <2>2. CASE ~(n < k)
    <3> DEFINE m == n - Len(a)
    <3>1. m \in 1 .. Len(s) - k /\ m + k = n + 1 /\ ~(n <= Len(a)) /\ n \in 1 .. Len(a) + Len(c)
      BY <2>2, <1>0, <1>1, <1>2
    <3>2. t[n] = c[m]
      BY <3>1, <1>3
    <3>3. c[m] = s[m + k]
      <4> HIDE DEF m
      <4> QED
        BY <3>1, <1>2
    <3> HIDE DEF m
    <3> QED
      BY <3>1, <3>2, <3>3, <2>2
  <2> QED
    BY <2>1, <2>2
<1>5. /\ t \in Seq(S) /\ Len(t) = Len(s) - 1
      /\ \A n \in 1 .. Len(s) - 1 : t[n] = s[IF n < k THEN n ELSE n + 1]
  BY <1>0, <1>1, <1>2, <1>3, <1>4
<1> QED
  BY <1>5 DEF t, a, c

\* The other keys, in the order in which they were used.
LEMMA OthersInOrder ==
  ASSUME StickyInv, NEW r \in Requests
  PROVE  \E at \in [DOMAIN Others(r) -> DOMAIN recency] :
            /\ Others(r) \in Seq(Requests) /\ Len(Others(r)) <= Len(recency)
            /\ \A n \in DOMAIN Others(r) : Others(r)[n] = recency[at[n]] /\ Others(r)[n] # r
            /\ \A m, n \in DOMAIN Others(r) : m < n => at[m] < at[n]
            /\ \A k \in DOMAIN recency : recency[k] = r \/ \E n \in DOMAIN Others(r) : at[n] = k
<1>1. recency \in Seq(Requests) /\ DOMAIN recency = 1 .. Len(recency) /\ Len(recency) \in Nat
  BY DEF StickyInv, TypeOK
<1>2. CASE ~\E n \in DOMAIN recency : recency[n] = r
  <2> DEFINE at == [n \in DOMAIN recency |-> n]
  <2>1. Others(r) = recency
    BY <1>2 DEF Others
  <2>2. /\ at \in [DOMAIN Others(r) -> DOMAIN recency]
        /\ \A n \in DOMAIN recency : at[n] = n
    BY <2>1
  <2> HIDE DEF at
  <2>3. /\ Others(r) \in Seq(Requests) /\ Len(Others(r)) <= Len(recency)
        /\ \A n \in DOMAIN Others(r) : Others(r)[n] = recency[at[n]] /\ Others(r)[n] # r
        /\ \A m, n \in DOMAIN Others(r) : m < n => at[m] < at[n]
        /\ \A k \in DOMAIN recency : recency[k] = r \/ \E n \in DOMAIN Others(r) : at[n] = k
    BY <1>1, <1>2, <2>1, <2>2
  <2> QED
    BY <2>2, <2>3
<1>3. CASE \E n \in DOMAIN recency : recency[n] = r
  <2> DEFINE k == CHOOSE n \in DOMAIN recency : recency[n] = r
             t == SubSeq(recency, 1, k - 1) \o SubSeq(recency, k + 1, Len(recency))
             at == [n \in DOMAIN t |-> IF n < k THEN n ELSE n + 1]
  <2>1. k \in 1 .. Len(recency) /\ recency[k] = r
    BY <1>1, <1>3
  <2>2. Others(r) = t
    BY <1>3 DEF Others
  <2> HIDE DEF k
  <2>3. /\ t \in Seq(Requests) /\ Len(t) = Len(recency) - 1
        /\ \A n \in 1 .. Len(recency) - 1 : t[n] = recency[IF n < k THEN n ELSE n + 1]
    BY <1>1, <2>1, OneOut
  <2> HIDE DEF t
  <2>4. DOMAIN t = 1 .. Len(recency) - 1
    BY <2>3
  <2>5. \A n \in DOMAIN t : /\ at[n] \in DOMAIN recency /\ at[n] # k
                            /\ at[n] = IF n < k THEN n ELSE n + 1
    BY <1>1, <2>1, <2>4
  <2>6. at \in [DOMAIN t -> DOMAIN recency]
    BY <2>5
  <2> HIDE DEF at
  <2>7. \A m, n \in DOMAIN t : m < n => at[m] < at[n]
    BY <2>1, <2>4, <2>5
  <2>8. \A n \in DOMAIN t : t[n] = recency[at[n]]
    BY <2>3, <2>4, <2>5
  <2>9. \A n \in DOMAIN t : t[n] # r
    <3>1. k \in DOMAIN recency
      BY <1>1, <2>1
    <3> QED
      BY <3>1, <2>1, <2>5, <2>8 DEF StickyInv, CacheInv, Distinct
  <2>10. ASSUME NEW j \in DOMAIN recency, recency[j] # r
         PROVE  \E n \in DOMAIN t : at[n] = j
    <3>1. j # k /\ j \in 1 .. Len(recency)
      BY <1>1, <2>1, <2>10
    <3>2. CASE j < k
      <4>1. j \in DOMAIN t /\ at[j] = j
        BY <3>1, <3>2, <2>1, <2>4, <2>5, <1>1
      <4> QED
        BY <4>1
    <3>3. CASE j > k
      <4>1. j - 1 \in DOMAIN t /\ ~(j - 1 < k) /\ (j - 1) + 1 = j
        BY <3>1, <3>3, <2>1, <2>4, <1>1
      <4>2. at[j - 1] = j
        BY <4>1, <2>5
      <4> QED
        BY <4>1, <4>2
    <3> QED
      BY <3>1, <3>2, <3>3, <2>1
  <2>11. Len(t) <= Len(recency)
    BY <1>1, <2>3
  <2> QED
    BY <2>2, <2>3, <2>6, <2>7, <2>8, <2>9, <2>10, <2>11
<1> QED
  BY <1>2, <1>3

\* A key that is dropped has as many used after it as the cache can hold.
LEMMA ManyAfter ==
  ASSUME NEW s \in Seq(Requests), Distinct(s), NEW S \in SUBSET Requests,
         Len(s) > CacheSize, \A m \in DOMAIN s : m > 1 => s[m] \in S
  PROVE  Cardinality(S) >= CacheSize
<1> DEFINE f == [n \in 1 .. CacheSize |-> s[n + 1]]
<1>1. /\ CacheSize \in Nat /\ DOMAIN s = 1 .. Len(s) /\ Len(s) \in Nat
      /\ \A n \in 1 .. CacheSize : n + 1 \in DOMAIN s /\ n + 1 > 1
  BY BoundsAssumption
<1>2. f \in [1 .. CacheSize -> S]
  BY <1>1
<1>3. \A m, n \in 1 .. CacheSize : f[m] = f[n] => m = n
  <2> SUFFICES ASSUME NEW m \in 1 .. CacheSize, NEW n \in 1 .. CacheSize, f[m] = f[n]
               PROVE  m = n
    OBVIOUS
  <2>1. m + 1 = n + 1
    BY <1>1 DEF Distinct
  <2> QED
    BY <2>1
<1> HIDE DEF f
<1>4. f \in Injection(1 .. CacheSize, S)
  BY <1>2, <1>3 DEF Injection, IsInjective
<1>5. IsFiniteSet(S) /\ Cardinality(S) \in Nat
  BY CountedSets
<1>6. Cardinality(1 .. CacheSize) <= Cardinality(S)
  BY <1>4, <1>5, FS_Injection
<1>7. Cardinality(1 .. CacheSize) = CacheSize
  BY <1>1, FS_Interval
<1> QED
  BY <1>6, <1>7

\* acquire_server keeps StickyInv, whether the key is cached or not.
LEMMA AcquireSticks ==
  ASSUME StickyInv, NEW r \in Requests, Acquire(r)
  PROVE  StickyInv'
<1> DEFINE o == Others(r)
           u == Used(r)
<1>0. /\ CacheSize \in Nat /\ CacheSize > 0
      /\ recency \in Seq(Requests) /\ DOMAIN recency = 1 .. Len(recency) /\ Len(recency) \in Nat
      /\ others \in [Requests -> SUBSET Requests]
      /\ server \in [Requests -> Assigned] /\ cached \in [Requests -> Assigned]
  BY BoundsAssumption DEF StickyInv, TypeOK
<1>1. PICK at \in [DOMAIN o -> DOMAIN recency] :
         /\ o \in Seq(Requests) /\ Len(o) <= Len(recency)
         /\ \A n \in DOMAIN o : o[n] = recency[at[n]] /\ o[n] # r
         /\ \A m, n \in DOMAIN o : m < n => at[m] < at[n]
         /\ \A k \in DOMAIN recency : recency[k] = r \/ \E n \in DOMAIN o : at[n] = k
  BY OthersInOrder
<1>2. PICK s \in Servers :
         /\ server' = [server EXCEPT ![r] = s]
         /\ cached' = [q \in Requests |-> IF q \in Dropped(u) THEN NoServer
                                          ELSE IF q = r THEN s ELSE cached[q]]
         /\ inflight' = [inflight EXCEPT ![s] = @ + 1]
  BY DEF Acquire
<1>3. /\ recency' = IF Dropped(u) = {} THEN u ELSE Tail(u)
      /\ others' = [q \in Requests |-> IF q = r THEN {} ELSE others[q] \union {r}]
      /\ turn' = [turn EXCEPT ![r] = "generating"] /\ UNCHANGED <<owed, turns>>
  BY DEF Acquire
<1>4. u = Append(o, r)
  BY DEF Used
<1> HIDE DEF u
<1>5. DOMAIN o = 1 .. Len(o) /\ Len(o) \in Nat
  BY <1>1
<1> HIDE DEF o
<1>6. /\ u \in Seq(Requests) /\ Len(u) = Len(o) + 1 /\ u # <<>>
      /\ u[Len(u)] = r /\ \A n \in DOMAIN o : u[n] = o[n]
      /\ DOMAIN u = 1 .. Len(o) + 1 /\ Len(u) \in Nat
  BY <1>1, <1>4, <1>5, AppendProperties
<1>7. \A n \in DOMAIN u : n \in DOMAIN o \/ n = Len(u)
  BY <1>5, <1>6
<1>8. Distinct(u)
  <2>1. \A m, n \in DOMAIN o : o[m] = o[n] => m = n
    <3> SUFFICES ASSUME NEW m \in DOMAIN o, NEW n \in DOMAIN o, o[m] = o[n] PROVE m = n
      OBVIOUS
    <3>1. at[m] = at[n]
      BY <1>1 DEF StickyInv, CacheInv, Distinct
    <3> QED
      BY <3>1, <1>0, <1>1, <1>5
  <2> QED
    BY <2>1, <1>1, <1>6, <1>7 DEF Distinct
<1>9. Len(u) <= CacheSize + 1
  BY <1>0, <1>1, <1>5, <1>6 DEF StickyInv, CacheInv
<1>10. /\ Head(u) = u[1] /\ Tail(u) \in Seq(Requests) /\ Len(Tail(u)) = Len(u) - 1
       /\ \A n \in 1 .. Len(u) - 1 : Tail(u)[n] = u[n + 1]
  BY <1>6, HeadTailProperties
<1>11. CASE Len(u) > CacheSize
  <2>1. Dropped(u) = {u[1]} /\ recency' = Tail(u)
    BY <1>3, <1>10, <1>11 DEF Dropped
  <2>2. u[1] # r /\ 1 \in DOMAIN u
    BY <1>0, <1>1, <1>5, <1>6, <1>11
  <2>3. DOMAIN Tail(u) = 1 .. Len(u) - 1
    BY <1>10
  <2>4. \A n \in DOMAIN Tail(u) : n + 1 \in DOMAIN u /\ n + 1 > 1 /\ Tail(u)[n] = u[n + 1]
    BY <1>6, <1>10, <2>3
  <2>5. CacheInv'
    <3>1. Distinct(Tail(u))
      <4> SUFFICES ASSUME NEW m \in DOMAIN Tail(u), NEW n \in DOMAIN Tail(u), Tail(u)[m] = Tail(u)[n]
                   PROVE  m = n
        BY DEF Distinct
      <4>1. m + 1 = n + 1
        BY <2>4, <1>8 DEF Distinct
      <4> QED
        BY <4>1, <2>3
    <3>2. Len(Tail(u)) <= CacheSize
      BY <1>0, <1>6, <1>9, <1>10
    <3> QED
      BY <2>1, <3>1, <3>2 DEF CacheInv
  <2>6. TypeOK'
    <3>1. /\ server' \in [Requests -> Assigned] /\ cached' \in [Requests -> Assigned]
          /\ recency' \in Seq(Requests) /\ others' \in [Requests -> SUBSET Requests]
      BY <1>0, <1>2, <1>3, <1>10, <2>1 DEF Assigned
    <3> QED
      BY <1>2, <1>3, <3>1 DEF StickyInv, TypeOK, Stages
  <2>7. KeyInv'
    <3> SUFFICES ASSUME NEW q \in Requests, server'[q] # NoServer
                 PROVE  \/ \E k \in DOMAIN recency' :
                              /\ recency'[k] = q /\ cached'[q] = server'[q]
                              /\ \A m \in DOMAIN recency' : m > k => recency'[m] \in others'[q]
                        \/ Cardinality(others'[q]) >= CacheSize
      BY DEF KeyInv
    <3>1. CASE q = r
      <4>1. cached'[r] = server'[r]
        BY <1>0, <1>2, <2>1, <2>2
      <4>2. Len(u) - 1 \in DOMAIN Tail(u) /\ Tail(u)[Len(u) - 1] = r
        <5>1. Len(u) - 1 \in 1 .. Len(u) - 1 /\ (Len(u) - 1) + 1 = Len(u)
          BY <1>0, <1>6, <1>11
        <5> QED
          BY <5>1, <2>3, <1>6, <1>10
      <4>3. \A m \in DOMAIN Tail(u) : ~(m > Len(u) - 1)
        BY <2>3, <1>6
      <4> QED
        BY <3>1, <4>1, <4>2, <4>3, <2>1
    <3>2. CASE q # r
      <4>1. server[q] = server'[q] /\ others'[q] = others[q] \union {r}
        BY <3>2, <1>0, <1>2, <1>3
      <4>2. CASE Cardinality(others[q]) >= CacheSize
        <5>1. IsFiniteSet(others'[q]) /\ others[q] \in SUBSET others'[q]
          BY <4>1, <1>0, CountedSets
        <5>2. Cardinality(others[q]) <= Cardinality(others'[q])
          BY <5>1, FS_Subset
        <5>3. Cardinality(others[q]) \in Nat /\ Cardinality(others'[q]) \in Nat
          BY <4>1, <1>0, CountedSets
        <5> QED
          BY <4>2, <5>2, <5>3, <1>0
      <4>3. ASSUME NEW k \in DOMAIN recency, recency[k] = q, cached[q] = server[q],
                   \A m \in DOMAIN recency : m > k => recency[m] \in others[q]
            PROVE  \/ \E j \in DOMAIN recency' :
                         /\ recency'[j] = q /\ cached'[q] = server'[q]
                         /\ \A m \in DOMAIN recency' : m > j => recency'[m] \in others'[q]
                   \/ Cardinality(others'[q]) >= CacheSize
        <5>1. PICK n \in DOMAIN o : at[n] = k
          BY <4>3, <3>2, <1>1
        <5>2. n \in DOMAIN u /\ u[n] = q
          BY <5>1, <4>3, <1>1, <1>5, <1>6
        <5>3. ASSUME NEW m \in DOMAIN u, m > n PROVE u[m] \in others'[q]
          <6>1. CASE m = Len(u)
            BY <6>1, <1>6, <4>1
          <6>2. CASE m \in DOMAIN o
            <7>1. at[m] > k /\ at[m] \in DOMAIN recency /\ u[m] = recency[at[m]]
              BY <6>2, <5>1, <5>3, <1>0, <1>1, <1>5, <1>6
            <7> QED
              BY <7>1, <4>1, <4>3
          <6> QED
            BY <6>1, <6>2, <1>7
        <5>4. CASE n = 1
          <6>1. others'[q] \in SUBSET Requests
            BY <4>1, <1>0
          <6> QED
            BY <5>3, <5>4, <6>1, <1>6, <1>8, <1>11, ManyAfter
        <5>5. CASE n # 1
          <6>1. n - 1 \in DOMAIN Tail(u) /\ (n - 1) + 1 = n
            BY <5>2, <5>5, <1>6, <2>3
          <6>2. Tail(u)[n - 1] = q
            BY <6>1, <5>2, <2>4
          <6>3. \A m \in DOMAIN Tail(u) : m > n - 1 => Tail(u)[m] \in others'[q]
            <7> SUFFICES ASSUME NEW m \in DOMAIN Tail(u), m > n - 1
                         PROVE  Tail(u)[m] \in others'[q]
              OBVIOUS
            <7>1. m + 1 \in DOMAIN u /\ m + 1 > n /\ Tail(u)[m] = u[m + 1]
              BY <2>3, <2>4, <5>2, <1>6
            <7> QED
              BY <7>1, <5>3
          <6>4. q # u[1]
            BY <5>2, <5>5, <2>2, <1>8 DEF Distinct
          <6>5. cached'[q] = server'[q]
            BY <6>4, <4>1, <4>3, <3>2, <1>2, <2>1
          <6> QED
            BY <6>1, <6>2, <6>3, <6>5, <2>1
        <5> QED
          BY <5>4, <5>5
      <4>4. \/ \E k \in DOMAIN recency :
                  /\ recency[k] = q /\ cached[q] = server[q]
                  /\ \A m \in DOMAIN recency : m > k => recency[m] \in others[q]
            \/ Cardinality(others[q]) >= CacheSize
        BY <4>1 DEF StickyInv, KeyInv
      <4> QED
        BY <4>2, <4>3, <4>4
    <3> QED
      BY <3>1, <3>2
  <2> QED
    BY <2>5, <2>6, <2>7 DEF StickyInv
<1>12. CASE ~(Len(u) > CacheSize)
  <2>1. Dropped(u) = {} /\ recency' = u
    BY <1>3, <1>12 DEF Dropped
  <2>2. CacheInv'
    BY <2>1, <1>0, <1>6, <1>8, <1>12 DEF CacheInv
  <2>3. TypeOK'
    <3>1. /\ server' \in [Requests -> Assigned] /\ cached' \in [Requests -> Assigned]
          /\ recency' \in Seq(Requests) /\ others' \in [Requests -> SUBSET Requests]
      BY <1>0, <1>2, <1>3, <1>6, <2>1 DEF Assigned
    <3> QED
      BY <1>2, <1>3, <3>1 DEF StickyInv, TypeOK, Stages
  <2>4. KeyInv'
    <3> SUFFICES ASSUME NEW q \in Requests, server'[q] # NoServer
                 PROVE  \/ \E k \in DOMAIN u :
                              /\ u[k] = q /\ cached'[q] = server'[q]
                              /\ \A m \in DOMAIN u : m > k => u[m] \in others'[q]
                        \/ Cardinality(others'[q]) >= CacheSize
      BY <2>1 DEF KeyInv
    <3>1. CASE q = r
      <4>1. cached'[r] = server'[r] /\ Len(u) \in DOMAIN u
        BY <1>0, <1>2, <1>5, <1>6, <2>1
      <4>2. \A m \in DOMAIN u : ~(m > Len(u))
        BY <1>5, <1>6
      <4> QED
        BY <3>1, <4>1, <4>2, <1>6
    <3>2. CASE q # r
      <4>1. /\ server[q] = server'[q] /\ others'[q] = others[q] \union {r}
            /\ cached'[q] = cached[q]
        BY <3>2, <1>0, <1>2, <1>3, <2>1
      <4>2. CASE Cardinality(others[q]) >= CacheSize
        <5>1. IsFiniteSet(others'[q]) /\ others[q] \in SUBSET others'[q]
          BY <4>1, <1>0, CountedSets
        <5>2. Cardinality(others[q]) <= Cardinality(others'[q])
          BY <5>1, FS_Subset
        <5>3. Cardinality(others[q]) \in Nat /\ Cardinality(others'[q]) \in Nat
          BY <4>1, <1>0, CountedSets
        <5> QED
          BY <4>2, <5>2, <5>3, <1>0
      <4>3. ASSUME NEW k \in DOMAIN recency, recency[k] = q, cached[q] = server[q],
                   \A m \in DOMAIN recency : m > k => recency[m] \in others[q]
            PROVE  \E j \in DOMAIN u :
                      /\ u[j] = q /\ cached'[q] = server'[q]
                      /\ \A m \in DOMAIN u : m > j => u[m] \in others'[q]
        <5>1. PICK n \in DOMAIN o : at[n] = k
          BY <4>3, <3>2, <1>1
        <5>2. n \in DOMAIN u /\ u[n] = q
          BY <5>1, <4>3, <1>1, <1>5, <1>6
        <5>3. ASSUME NEW m \in DOMAIN u, m > n PROVE u[m] \in others'[q]
          <6>1. CASE m = Len(u)
            BY <6>1, <1>6, <4>1
          <6>2. CASE m \in DOMAIN o
            <7>1. at[m] > k /\ at[m] \in DOMAIN recency /\ u[m] = recency[at[m]]
              BY <6>2, <5>1, <5>3, <1>0, <1>1, <1>5, <1>6
            <7> QED
              BY <7>1, <4>1, <4>3
          <6> QED
            BY <6>1, <6>2, <1>7
        <5> QED
          BY <5>2, <5>3, <4>1, <4>3
      <4>4. \/ \E k \in DOMAIN recency :
                  /\ recency[k] = q /\ cached[q] = server[q]
                  /\ \A m \in DOMAIN recency : m > k => recency[m] \in others[q]
            \/ Cardinality(others[q]) >= CacheSize
        BY <4>1 DEF StickyInv, KeyInv
      <4> QED
        BY <4>2, <4>3, <4>4
    <3> QED
      BY <3>1, <3>2
  <2> QED
    BY <2>2, <2>3, <2>4 DEF StickyInv
<1> QED
  BY <1>11, <1>12

\* The order of the cache is right after every step.
LEMMA StickyInvariance == Spec => []StickyInv
<1>1. Init => StickyInv
  <2> SUFFICES ASSUME Init PROVE StickyInv
    OBVIOUS
  <2>1. TypeOK
    BY BoundsAssumption, EmptySeq DEF Init, TypeOK, Stages, Assigned
  <2>2. CacheInv
    BY BoundsAssumption, EmptySeq DEF Init, CacheInv, Distinct
  <2>3. KeyInv
    BY DEF Init, KeyInv
  <2> QED
    BY <2>1, <2>2, <2>3 DEF StickyInv
<1>2. IInv /\ StickyInv /\ [Next]_vars => StickyInv'
  <2> SUFFICES ASSUME IInv, StickyInv, [Next]_vars PROVE StickyInv'
    OBVIOUS
  <2>1. ASSUME UNCHANGED <<cached, recency, server, others>>, TypeOK' PROVE StickyInv'
    BY <2>1 DEF StickyInv, CacheInv, KeyInv
  <2>2. ASSUME NEW r \in Requests, Ask(r) PROVE StickyInv'
    <3>1. turns' \in [Requests -> 0 .. MaxTurns]
      <4>1. turns \in [Requests -> 0 .. MaxTurns] /\ MaxTurns \in Nat
        BY BoundsAssumption DEF StickyInv, TypeOK
      <4>2. turns' = [turns EXCEPT ![r] = @ + 1] /\ turns[r] + 1 \in 0 .. MaxTurns
        BY <2>2, <4>1 DEF Ask
      <4> QED
        BY <4>1, <4>2
    <3>2. TypeOK'
      BY <2>2, <3>1 DEF Ask, balancer, StickyInv, TypeOK, Stages
    <3> QED
      BY <2>1, <2>2, <3>2 DEF Ask, balancer
  <2>3. ASSUME NEW r \in Requests, Finish(r) PROVE StickyInv'
    <3>1. TypeOK'
      BY <2>3 DEF Finish, balancer, StickyInv, TypeOK, Stages
    <3> QED
      BY <2>1, <2>3, <3>1 DEF Finish, balancer
  <2>4. ASSUME NEW r \in Requests, Release(r) PROVE StickyInv'
    <3>1. inflight' \in [Servers -> Nat]
      <4>1. owed[r] \in Servers /\ inflight[owed[r]] > 0
        BY <2>4, ReleasePositive DEF Release
      <4> QED
        BY <2>4, <4>1 DEF Release, StickyInv, TypeOK
    <3>2. TypeOK'
      BY <2>4, <3>1 DEF Release, StickyInv, TypeOK, Assigned
    <3> QED
      BY <2>1, <2>4, <3>2 DEF Release
  <2>5. ASSUME NEW r \in Requests, Acquire(r) PROVE StickyInv'
    BY <2>5, AcquireSticks
  <2>6. CASE UNCHANGED vars
    BY <2>6 DEF vars, balancer, callers, StickyInv, TypeOK, CacheInv, KeyInv
  <2> QED
    BY <2>2, <2>3, <2>4, <2>5, <2>6 DEF Next, Turn, Terminating
<1> QED
  BY <1>1, <1>2, Invariance, PTL DEF Spec

\* Every variable keeps its type: the counts never become negative, and the
\* cache only ever names servers.
THEOREM TypeCorrect == Spec => []TypeOK
<1>1. StickyInv => TypeOK
  BY DEF StickyInv
<1> QED
  BY <1>1, StickyInvariance, PTL

\* For any conversations, servers and cache: a conversation that fewer than
\* max_cache_size others overtook still has its server in the cache, so that
\* its next turn goes to the server of its last.
THEOREM TurnsStick == Spec => []Sticky
<1>1. StickyInv => Sticky
  <2> SUFFICES ASSUME StickyInv, NEW r \in Requests, server[r] # NoServer,
                      Cardinality(others[r]) < CacheSize
               PROVE  cached[r] = server[r]
    BY DEF Sticky
  <2>1. Cardinality(others[r]) \in Nat /\ CacheSize \in Nat
    BY CountedSets, BoundsAssumption DEF StickyInv, TypeOK
  <2> QED
    BY <2>1 DEF StickyInv, KeyInv
<1> QED
  BY <1>1, StickyInvariance, PTL

------------------------------------------------------------------------------
(* BatchPath: sorting *)

\* The library's theorem about <, without its operator.
LEMMA LessThanWellFounded == IsWellFoundedOn({ss \in Nat \X Nat : ss[1] < ss[2]}, Nat)
BY NatLessThanWellFounded DEF OpToRel

\* A set of natural numbers has a least one.
LEMMA LeastOf ==
  ASSUME NEW C \in SUBSET Nat, C # {}
  PROVE  \E x \in C : \A y \in C : x <= y
<1> DEFINE R == {ss \in Nat \X Nat : ss[1] < ss[2]}
<1>1. IsWellFoundedOn(R, Nat)
  BY LessThanWellFounded
<1> HIDE DEF R
<1>2. \E x \in C : \A y \in C : ~ (<<y, x>> \in R)
  BY <1>1, WFMin
<1>3. PICK x \in C : \A y \in C : ~ (<<y, x>> \in R)
  BY <1>2
<1>4. \A y \in C : ~ (y < x)
  BY <1>3 DEF R
<1> QED
  BY <1>4

\* Induction over the natural numbers, about a set.
LEMMA Induction ==
  ASSUME NEW T, 0 \in T, \A n \in Nat : n \in T => n + 1 \in T
  PROVE  Nat \subseteq T
<1> DEFINE C == {n \in Nat : n \notin T}
<1> SUFFICES ASSUME C # {} PROVE FALSE
  OBVIOUS
<1>1. PICK x \in C : \A y \in C : x <= y
  BY LeastOf
<1>2. x # 0 /\ x - 1 \in Nat
  OBVIOUS
<1>3. x - 1 \in T
  BY <1>1, <1>2
<1> QED
  BY <1>2, <1>3

\* q is a permutation of 1 .. n.
Permutes(q, n) ==
    /\ q \in [1 .. n -> 1 .. n]
    /\ \A i, j \in 1 .. n : q[i] = q[j] => i = j
    /\ \A i \in 1 .. n : \E j \in 1 .. n : q[j] = i

StrictOrder(R, n) ==
    /\ \A i \in 1 .. n : <<i, i>> \notin R
    /\ \A i, j, k \in 1 .. n : <<i, j>> \in R /\ <<j, k>> \in R => <<i, k>> \in R
    /\ \A i, j \in 1 .. n : i # j => <<i, j>> \in R \/ <<j, i>> \in R

\* An injection of 1 .. n into itself is a permutation.
LEMMA InjectionPermutes ==
  ASSUME NEW n \in Nat, NEW q \in [1 .. n -> 1 .. n],
         \A i, j \in 1 .. n : q[i] = q[j] => i = j
  PROVE  Permutes(q, n)
<1>1. q \in Injection(1 .. n, 1 .. n)
  BY Fun_IsInj
<1>2. IsFiniteSet(1 .. n)
  BY FS_Interval
<1>3. q \in Surjection(1 .. n, 1 .. n)
  BY <1>1, <1>2, FS_Injection
<1>4. \A i \in 1 .. n : \E j \in 1 .. n : q[j] = i
  BY <1>3 DEF Surjection
<1> QED
  BY <1>4 DEF Permutes

\* Ranked puts 1 .. n into the order R.
LEMMA RankedIsOrder ==
  ASSUME NEW n \in Nat, NEW R, StrictOrder(R, n)
  PROVE  /\ Permutes(Ranked(n, R), n)
         /\ \A i, j \in 1 .. n : i < j => <<Ranked(n, R)[i], Ranked(n, R)[j]>> \in R
<1> DEFINE N == 1 .. n
           below(i) == {j \in N : <<j, i>> \in R}
           rank == [i \in N |-> Cardinality(below(i)) + 1]
           p == Ranked(n, R)
<1>1. IsFiniteSet(N) /\ Cardinality(N) = n
  BY FS_Interval
<1>2. ASSUME NEW i \in N
      PROVE  IsFiniteSet(below(i)) /\ Cardinality(below(i)) \in Nat /\ rank[i] \in N
  <2>1. IsFiniteSet(N \ {i}) /\ Cardinality(N \ {i}) = n - 1
    BY <1>1, FS_RemoveElement
  <2>2. below(i) \in SUBSET (N \ {i})
    BY DEF StrictOrder
  <2>3. IsFiniteSet(below(i)) /\ Cardinality(below(i)) <= n - 1
    <3> HIDE DEF below
    <3> QED  BY <2>1, <2>2, FS_Subset
  <2>4. Cardinality(below(i)) \in Nat
    BY <2>3, FS_CardinalityType
  <2> QED
    BY <2>3, <2>4
<1>3. ASSUME NEW i \in N, NEW j \in N, <<i, j>> \in R
      PROVE  rank[i] < rank[j]
  <2>1. below(i) \in SUBSET below(j)
    BY <1>3 DEF StrictOrder
  <2>2. below(i) # below(j)
    BY <1>3 DEF StrictOrder
  <2>3. Cardinality(below(i)) <= Cardinality(below(j)) /\ Cardinality(below(i)) # Cardinality(below(j))
    BY <1>2, <2>1, <2>2, FS_Subset
  <2> QED
    BY <1>2, <2>3
<1>4. \A i, j \in N : rank[i] = rank[j] => i = j
  <2> SUFFICES ASSUME NEW i \in N, NEW j \in N, rank[i] = rank[j], i # j PROVE FALSE
    OBVIOUS
  <2>1. <<i, j>> \in R \/ <<j, i>> \in R
    BY DEF StrictOrder
  <2>2. rank[i] < rank[j] \/ rank[j] < rank[i]
    BY <1>3, <2>1
  <2>3. rank[i] \in N /\ rank[j] \in N
    BY <1>2
  <2> QED
    BY <2>2, <2>3
<1>5. rank \in [N -> N]
  BY <1>2
<1> HIDE DEF rank
<1>6. Permutes(rank, n)
  BY <1>4, <1>5, InjectionPermutes
<1>7. p = [m \in N |-> CHOOSE i \in N : Cardinality(below(i)) = m - 1]
  BY DEF Ranked
<1>8. ASSUME NEW m \in N
      PROVE  p[m] \in N /\ rank[p[m]] = m
  <2>1. PICK i \in N : rank[i] = m
    BY <1>6 DEF Permutes
  <2>2. Cardinality(below(i)) = m - 1
    <3> HIDE DEF below
    <3> QED  BY <1>2, <2>1 DEF rank
  <2>3. p[m] = CHOOSE k \in N : Cardinality(below(k)) = m - 1
    BY <1>7
  <2>4. p[m] \in N /\ Cardinality(below(p[m])) = m - 1
    <3> HIDE DEF below, p
    <3> QED  BY <2>2, <2>3
  <2> QED
    BY <2>4 DEF rank
<1> HIDE DEF p
<1>9. p \in [N -> N]
  BY <1>7, <1>8
<1>10. Permutes(p, n)
  <2>1. \A i, j \in N : p[i] = p[j] => i = j
    BY <1>8
  <2> QED
    BY <1>9, <2>1, InjectionPermutes
<1>11. ASSUME NEW i \in N, NEW j \in N, i < j
       PROVE  <<p[i], p[j]>> \in R
  <2>1. p[i] \in N /\ p[j] \in N /\ p[i] # p[j]
    BY <1>8, <1>11
  <2>2. <<p[i], p[j]>> \in R \/ <<p[j], p[i]>> \in R
    BY <2>1 DEF StrictOrder
  <2>3. <<p[j], p[i]>> \in R => j < i
    BY <1>3, <1>8, <2>1
  <2> QED
    BY <1>11, <2>2, <2>3
<1> QED
  BY <1>10, <1>11 DEF p

LEMMA FunctionIsSeq ==
  ASSUME NEW n \in Nat, NEW S, NEW s \in [1 .. n -> S]
  PROVE  s \in Seq(S) /\ Len(s) = n
BY SeqDef

\* What sorting returns is a permutation of the list, in the order R.
LEMMA ArrangedPermutes ==
  ASSUME NEW n \in Nat, NEW S, NEW s \in [1 .. n -> S], NEW R, StrictOrder(R, n)
  PROVE  \E q : /\ Permutes(q, n)
                /\ Arranged(s, R) = [i \in 1 .. n |-> s[q[i]]]
                /\ \A i, j \in 1 .. n : i < j => <<q[i], q[j]>> \in R
<1>1. Len(s) = n
  BY FunctionIsSeq
<1>2. Arranged(s, R) = [i \in 1 .. n |-> s[Ranked(n, R)[i]]]
  BY <1>1 DEF Arranged
<1> QED
  BY <1>2, RankedIsOrder

------------------------------------------------------------------------------
(* Sets and States *)

SetsOf(U) == [sum : Nat, items : Seq(U)]

LEMMA SetsOfNaturals ==
  ASSUME NEW U \in SUBSET Nat
  PROVE  SetsOf(U) \subseteq SetsOf(Nat)
<1> SUFFICES ASSUME NEW a \in SetsOf(U) PROVE a \in SetsOf(Nat)
  OBVIOUS
<1>1. a.items \in Seq(U)
  BY DEF SetsOf
<1>2. a.items \in Seq(Nat)
  BY <1>1, SeqMonotonic
<1> QED
  BY <1>2 DEF SetsOf

\* Sequences of one length are ordered by the first place where they differ.
LexLess(s, t) ==
    \E i \in 1 .. Len(s) : s[i] < t[i] /\ \A j \in 1 .. i - 1 : s[j] = t[j]

\* Comparing lists of one length item by item is a strict order.
LEMMA LexLessOrder ==
  ASSUME NEW n \in Nat, NEW s \in [1 .. n -> Nat], NEW t \in [1 .. n -> Nat],
         NEW u \in [1 .. n -> Nat]
  PROVE  /\ ~ LexLess(s, s)
         /\ LexLess(s, t) /\ LexLess(t, u) => LexLess(s, u)
         /\ s # t => LexLess(s, t) \/ LexLess(t, s)
<1>1. Len(s) = n /\ Len(t) = n /\ Len(u) = n
  BY FunctionIsSeq
<1>2. ~ LexLess(s, s)
  BY <1>1 DEF LexLess
<1>3. ASSUME LexLess(s, t), LexLess(t, u) PROVE LexLess(s, u)
  <2>1. PICK i \in 1 .. n : s[i] < t[i] /\ \A k \in 1 .. i - 1 : s[k] = t[k]
    BY <1>1, <1>3 DEF LexLess
  <2>2. PICK j \in 1 .. n : t[j] < u[j] /\ \A k \in 1 .. j - 1 : t[k] = u[k]
    BY <1>1, <1>3 DEF LexLess
  <2> DEFINE m == IF i <= j THEN i ELSE j
  <2>3. m \in 1 .. n /\ m <= i /\ m <= j /\ (m = i \/ m = j)
    OBVIOUS
  <2> HIDE DEF m
  <2>4. s[m] < u[m]
    <3>1. s[m] <= t[m] /\ t[m] <= u[m] /\ (s[m] < t[m] \/ t[m] < u[m])
      <4>1. s[m] = t[m] \/ (m = i /\ s[m] < t[m])
        BY <2>1, <2>3
      <4>2. t[m] = u[m] \/ (m = j /\ t[m] < u[m])
        BY <2>2, <2>3
      <4>3. s[m] \in Nat /\ t[m] \in Nat /\ u[m] \in Nat
        BY <2>3
      <4>4. s[m] < t[m] \/ t[m] < u[m]
        BY <2>1, <2>2, <2>3
      <4> QED
        BY <4>1, <4>2, <4>3, <4>4
    <3>2. s[m] \in Nat /\ t[m] \in Nat /\ u[m] \in Nat
      BY <2>3
    <3> QED
      BY <3>1, <3>2
  <2>5. \A k \in 1 .. m - 1 : s[k] = u[k]
    BY <2>1, <2>2, <2>3
  <2> QED
    BY <1>1, <2>3, <2>4, <2>5 DEF LexLess
<1>4. ASSUME s # t PROVE LexLess(s, t) \/ LexLess(t, s)
  <2> DEFINE D == {i \in 1 .. n : s[i] # t[i]}
  <2>1. D # {}
    <3>1. \E i \in 1 .. n : s[i] # t[i]
      <4> SUFFICES ASSUME \A i \in 1 .. n : s[i] = t[i] PROVE FALSE
        OBVIOUS
      <4>1. s = [i \in 1 .. n |-> s[i]] /\ t = [i \in 1 .. n |-> t[i]]
        OBVIOUS
      <4>2. s = t
        BY <4>1
      <4> QED
        BY <1>4, <4>2
    <3> QED
      BY <3>1
  <2>2. D \in SUBSET Nat
    OBVIOUS
  <2> HIDE DEF D
  <2>3. PICK i \in D : \A j \in D : i <= j
    BY <2>1, <2>2, LeastOf
  <2>4. i \in 1 .. n /\ s[i] # t[i] /\ \A j \in 1 .. i - 1 : s[j] = t[j]
    BY <2>3 DEF D
  <2>5. s[i] \in Nat /\ t[i] \in Nat /\ \A j \in 1 .. i - 1 : t[j] = s[j]
    BY <2>4
  <2>6. ASSUME s[i] < t[i] PROVE LexLess(s, t)
    BY <1>1, <2>4, <2>6 DEF LexLess
  <2>7. ASSUME t[i] < s[i] PROVE LexLess(t, s)
    BY <1>1, <2>4, <2>5, <2>7 DEF LexLess
  <2> QED
    BY <2>4, <2>5, <2>6, <2>7
<1> QED
  BY <1>2, <1>3, <1>4

\* Set.__lt__ is a strict order of the Sets.
LEMMA SetLessOrder ==
  ASSUME NEW a \in SetsOf(Nat), NEW b \in SetsOf(Nat), NEW c \in SetsOf(Nat)
  PROVE  /\ ~ SetLess(a, a)
         /\ SetLess(a, b) /\ SetLess(b, c) => SetLess(a, c)
         /\ a # b => SetLess(a, b) \/ SetLess(b, a)
<1> DEFINE L(x) == Len(x.items)
<1>1. \A x \in SetsOf(Nat) : x.sum \in Nat /\ L(x) \in Nat /\ x.items \in [1 .. L(x) -> Nat]
  BY DEF SetsOf
<1>2. ASSUME NEW x \in SetsOf(Nat), NEW y \in SetsOf(Nat)
      PROVE  SetLess(x, y) <=>
               \/ x.sum < y.sum
               \/ x.sum = y.sum /\ L(x) < L(y)
               \/ x.sum = y.sum /\ L(x) = L(y) /\ LexLess(x.items, y.items)
  <2>1. DOMAIN x.items = 1 .. L(x)
    BY <1>1
  <2> QED
    BY <2>1 DEF SetLess, LexLess
<1>3. ASSUME NEW x \in SetsOf(Nat) PROVE ~ LexLess(x.items, x.items)
  <2> DEFINE n == L(x)
             s == x.items
  <2>1. n \in Nat /\ s \in [1 .. n -> Nat]
    BY <1>1
  <2> HIDE DEF n, s
  <2>2. ~ LexLess(s, s)
    BY <2>1, LexLessOrder
  <2> QED
    BY <2>2 DEF s
<1>4. ASSUME L(a) = L(b), L(b) = L(c), LexLess(a.items, b.items), LexLess(b.items, c.items)
      PROVE  LexLess(a.items, c.items)
  <2> DEFINE n == L(a)
             s == a.items
             t == b.items
             u == c.items
  <2>1. n \in Nat /\ s \in [1 .. n -> Nat] /\ t \in [1 .. n -> Nat] /\ u \in [1 .. n -> Nat]
    BY <1>1, <1>4
  <2>2. LexLess(s, t) /\ LexLess(t, u)
    BY <1>4
  <2> HIDE DEF n, s, t, u
  <2>3. LexLess(s, u)
    BY <2>1, <2>2, LexLessOrder
  <2> QED
    BY <2>3 DEF s, u
<1>5. ASSUME L(a) = L(b), a.items # b.items
      PROVE  LexLess(a.items, b.items) \/ LexLess(b.items, a.items)
  <2> DEFINE n == L(a)
             s == a.items
             t == b.items
  <2>1. n \in Nat /\ s \in [1 .. n -> Nat] /\ t \in [1 .. n -> Nat] /\ s # t
    BY <1>1, <1>5
  <2> HIDE DEF n, s, t
  <2>2. LexLess(s, t) \/ LexLess(t, s)
    BY <2>1, LexLessOrder
  <2> QED
    BY <2>2 DEF s, t
<1> HIDE DEF L
<1>6. ~ SetLess(a, a)
  BY <1>1, <1>2, <1>3
<1>7. SetLess(a, b) /\ SetLess(b, c) => SetLess(a, c)
  BY <1>1, <1>2, <1>4
<1>8. a # b => a.sum # b.sum \/ a.items # b.items
  BY DEF SetsOf
<1>9. a # b => SetLess(a, b) \/ SetLess(b, a)
  <2>1. a.sum \in Nat /\ b.sum \in Nat /\ L(a) \in Nat /\ L(b) \in Nat
    BY <1>1
  <2> QED
    BY <1>2, <1>5, <1>8, <2>1
<1> QED
  BY <1>6, <1>7, <1>9

\* Sorting a State permutes its Sets and puts them in decreasing order.
LEMMA SortedPermutes ==
  ASSUME NEW k \in Nat, NEW st \in [1 .. k -> SetsOf(Nat)]
  PROVE  /\ \E q : Permutes(q, k) /\ Sorted(st) = [i \in 1 .. k |-> st[q[i]]]
         /\ Decreasing(Sorted(st))
<1> DEFINE R == {p \in (DOMAIN st) \X (DOMAIN st) :
                     \/ SetLess(st[p[2]], st[p[1]])
                     \/ ~SetLess(st[p[1]], st[p[2]]) /\ p[1] < p[2]}
<1>1. \A i, j \in 1 .. k :
         <<i, j>> \in R <=> SetLess(st[j], st[i]) \/ (~SetLess(st[i], st[j]) /\ i < j)
  OBVIOUS
<1>2. Sorted(st) = Arranged(st, R)
  BY DEF Sorted
<1> HIDE DEF R
<1>3. \A i, j \in 1 .. k : SetLess(st[i], st[j]) => ~ SetLess(st[j], st[i])
  BY SetLessOrder
<1>4. \A i, j \in 1 .. k : ~ SetLess(st[i], st[j]) /\ ~ SetLess(st[j], st[i]) => st[i] = st[j]
  BY SetLessOrder
<1>5. \A i, j, l \in 1 .. k : SetLess(st[i], st[j]) /\ SetLess(st[j], st[l]) => SetLess(st[i], st[l])
  BY SetLessOrder
<1>6. \A i, j \in 1 .. k :
         <<i, j>> \in R <=> SetLess(st[j], st[i]) \/ (st[i] = st[j] /\ i < j)
  BY <1>1, <1>3, <1>4
<1>7. StrictOrder(R, k)
  <2>1. \A i \in 1 .. k : <<i, i>> \notin R
    BY <1>3, <1>6
  <2>2. ASSUME NEW i \in 1 .. k, NEW j \in 1 .. k, NEW l \in 1 .. k,
               <<i, j>> \in R, <<j, l>> \in R
        PROVE  <<i, l>> \in R
    <3>1. SetLess(st[j], st[i]) \/ (st[i] = st[j] /\ i < j)
      BY <1>6, <2>2
    <3>2. SetLess(st[l], st[j]) \/ (st[j] = st[l] /\ j < l)
      BY <1>6, <2>2
    <3>3. SetLess(st[l], st[i]) \/ (st[i] = st[l] /\ i < l)
      BY <1>5, <3>1, <3>2
    <3> QED
      BY <1>6, <3>3
  <2>3. \A i, j \in 1 .. k : i # j => <<i, j>> \in R \/ <<j, i>> \in R
    BY <1>4, <1>6
  <2> QED
    BY <2>1, <2>2, <2>3 DEF StrictOrder
<1>8. PICK q : /\ Permutes(q, k)
               /\ Sorted(st) = [i \in 1 .. k |-> st[q[i]]]
               /\ \A i, j \in 1 .. k : i < j => <<q[i], q[j]>> \in R
  BY <1>2, <1>7, ArrangedPermutes, ZenonT(30)
<1>9. ASSUME NEW i \in 1 .. k, NEW j \in 1 .. k, i < j
      PROVE  ~ SetLess(Sorted(st)[i], Sorted(st)[j])
  <2>1. q[i] \in 1 .. k /\ q[j] \in 1 .. k
    BY <1>8 DEF Permutes
  <2>2. <<q[i], q[j]>> \in R
    BY <1>8, <1>9
  <2>3. ~ SetLess(st[q[i]], st[q[j]])
    BY <1>3, <1>6, <2>1, <2>2
  <2> QED
    BY <1>8, <2>3
<1>10. DOMAIN Sorted(st) = 1 .. k
  BY <1>8
<1> QED
  BY <1>8, <1>9, <1>10 DEF Decreasing

------------------------------------------------------------------------------
(* Merging two States *)

\* A State before it is sorted; w is the load of each item of U.  What the
\* assertions on the final partitions need: Sets of equal length, or, without
\* equal_size, no empty Set as long as a Set holds two items.
FairState(U, w, k, even, st) ==
    /\ st \in [1 .. k -> SetsOf(U)]
    /\ \A i, j \in 1 .. k : \E x \in U : st[i].sum - st[j].sum <= w[x]
    /\ \A i \in 1 .. k : st[i].sum = 0 <=> Len(st[i].items) = 0
    /\ IF even THEN \A i, j \in 1 .. k : /\ Len(st[i].items) = Len(st[j].items)
                                         /\ Len(st[i].items) # 0
       ELSE \/ \A i \in 1 .. k : Len(st[i].items) # 0
            \/ \A i \in 1 .. k : Len(st[i].items) <= 1

GoodState(U, w, k, even, st) == FairState(U, w, k, even, st) /\ Decreasing(st)

\* No item is at two places of the heap, and every item is at one.
Once(k, H) ==
    \A st, t \in H : \A i, j \in 1 .. k :
        \A m \in 1 .. Len(st[i].items), n \in 1 .. Len(t[j].items) :
            st[i].items[m] = t[j].items[n] => st = t /\ i = j /\ m = n

Everywhere(U, k, H) ==
    \A x \in U : \E st \in H : \E i \in 1 .. k : \E m \in 1 .. Len(st[i].items) :
        st[i].items[m] = x

GoodHeap(U, w, k, even, H) ==
    /\ \A st \in H : GoodState(U, w, k, even, st)
    /\ Once(k, H)
    /\ Everywhere(U, k, H)

\* Sorting a State keeps it fair and puts its Sets in decreasing order.
LEMMA SortedIsGood ==
  ASSUME NEW U \in SUBSET Nat, NEW w, NEW k \in Nat, NEW even \in BOOLEAN,
         NEW st, FairState(U, w, k, even, st)
  PROVE  GoodState(U, w, k, even, Sorted(st))
<1>1. st \in [1 .. k -> SetsOf(U)] /\ st \in [1 .. k -> SetsOf(Nat)]
  BY SetsOfNaturals DEF FairState
<1>2. PICK q : Permutes(q, k) /\ Sorted(st) = [i \in 1 .. k |-> st[q[i]]]
  BY <1>1, SortedPermutes
<1>3. Decreasing(Sorted(st))
  BY <1>1, SortedPermutes
<1> DEFINE t == [i \in 1 .. k |-> st[q[i]]]
<1>4. \A i \in 1 .. k : q[i] \in 1 .. k /\ t[i] = st[q[i]]
  BY <1>2 DEF Permutes
<1>5. t \in [1 .. k -> SetsOf(U)]
  BY <1>1, <1>4
<1> HIDE DEF t
<1>6. FairState(U, w, k, even, t)
  <2>1. ASSUME NEW i \in 1 .. k, NEW j \in 1 .. k
        PROVE  /\ \E x \in U : t[i].sum - t[j].sum <= w[x]
               /\ t[i].sum = 0 <=> Len(t[i].items) = 0
               /\ even => Len(t[i].items) = Len(t[j].items) /\ Len(t[i].items) # 0
    <3>1. q[i] \in 1 .. k /\ q[j] \in 1 .. k /\ t[i] = st[q[i]] /\ t[j] = st[q[j]]
      BY <1>4
    <3>2. /\ \E x \in U : st[q[i]].sum - st[q[j]].sum <= w[x]
          /\ st[q[i]].sum = 0 <=> Len(st[q[i]].items) = 0
          /\ even => /\ Len(st[q[i]].items) = Len(st[q[j]].items)
                     /\ Len(st[q[i]].items) # 0
      BY <3>1 DEF FairState
    <3> QED
      BY <3>1, <3>2
  <2>4. ~ even => \/ \A i \in 1 .. k : Len(t[i].items) # 0
                  \/ \A i \in 1 .. k : Len(t[i].items) <= 1
    BY <1>4 DEF FairState
  <2> QED
    BY <1>5, <2>1, <2>4 DEF FairState
<1> QED
  BY <1>2, <1>3, <1>6 DEF GoodState, t

\* The sums of the Sets of a decreasing State do not increase.
LEMMA DecreasingSums ==
  ASSUME NEW k \in Nat, NEW st \in [1 .. k -> SetsOf(Nat)], Decreasing(st),
         NEW i \in 1 .. k, NEW j \in 1 .. k, i <= j
  PROVE  st[j].sum <= st[i].sum
<1>1. st[i].sum \in Nat /\ st[j].sum \in Nat
  BY DEF SetsOf
<1>2. CASE i = j
  BY <1>1, <1>2
<1>3. CASE i < j
  <2>1. ~ SetLess(st[i], st[j])
    BY <1>3 DEF Decreasing
  <2>2. ~ (st[i].sum < st[j].sum)
    BY <2>1 DEF SetLess
  <2> QED
    BY <1>1, <2>2
<1> QED
  BY <1>2, <1>3

\* A merged Set has the sum of both and the items of both, in that order.
LEMMA MergedSets ==
  ASSUME NEW U \in SUBSET Nat, NEW k \in Nat,
         NEW st \in [1 .. k -> SetsOf(U)], NEW other \in [1 .. k -> SetsOf(U)]
  PROVE  /\ MergeStates(st, other) \in [1 .. k -> SetsOf(U)]
         /\ \A i \in 1 .. k :
               /\ MergeStates(st, other)[i].sum = st[i].sum + other[k + 1 - i].sum
               /\ Len(st[i].items) \in Nat /\ Len(other[k + 1 - i].items) \in Nat
               /\ Len(MergeStates(st, other)[i].items) =
                      Len(st[i].items) + Len(other[k + 1 - i].items)
               /\ \A n \in 1 .. Len(st[i].items) :
                      MergeStates(st, other)[i].items[n] = st[i].items[n]
               /\ \A n \in 1 .. Len(other[k + 1 - i].items) :
                      MergeStates(st, other)[i].items[Len(st[i].items) + n] =
                          other[k + 1 - i].items[n]
<1> DEFINE M == MergeStates(st, other)
<1>1. Len(st) = k
  BY FunctionIsSeq
<1>2. M = [i \in 1 .. k |-> MergeSets(st[i], other[k + 1 - i])]
  BY <1>1 DEF MergeStates
<1> HIDE DEF M
<1>3. ASSUME NEW i \in 1 .. k
      PROVE  /\ M[i] \in SetsOf(U)
             /\ M[i].sum = st[i].sum + other[k + 1 - i].sum
             /\ Len(st[i].items) \in Nat /\ Len(other[k + 1 - i].items) \in Nat
             /\ Len(M[i].items) = Len(st[i].items) + Len(other[k + 1 - i].items)
             /\ \A n \in 1 .. Len(st[i].items) : M[i].items[n] = st[i].items[n]
             /\ \A n \in 1 .. Len(other[k + 1 - i].items) :
                   M[i].items[Len(st[i].items) + n] = other[k + 1 - i].items[n]
  <2>1. k + 1 - i \in 1 .. k
    OBVIOUS
  <2> DEFINE a == st[i]
             b == other[k + 1 - i]
             m == M[i]
             s == a.items
             t == b.items
  <2>2. a \in SetsOf(U) /\ b \in SetsOf(U)
    BY <2>1
  <2>3. s \in Seq(U) /\ t \in Seq(U) /\ a.sum \in Nat /\ b.sum \in Nat
    BY <2>2 DEF SetsOf
  <2>4. m.sum = a.sum + b.sum /\ m.items = s \o t /\ m = [sum |-> a.sum + b.sum, items |-> s \o t]
    BY <1>2 DEF MergeSets
  <2> HIDE DEF a, b, m, s, t
  <2>5. /\ s \o t \in Seq(U) /\ Len(s \o t) = Len(s) + Len(t)
        /\ Len(s) \in Nat /\ Len(t) \in Nat
        /\ \A n \in 1 .. Len(s) : (s \o t)[n] = s[n]
        /\ \A n \in 1 .. Len(t) : (s \o t)[Len(s) + n] = t[n]
    BY <2>3
  <2>6. m \in SetsOf(U)
    BY <2>3, <2>4, <2>5 DEF SetsOf
  <2> QED
    BY <2>4, <2>5, <2>6 DEF a, b, m, s, t
<1>4. M \in [1 .. k -> SetsOf(U)]
  BY <1>2, <1>3
<1> QED
  BY <1>3, <1>4 DEF M

\* Sums that decrease in one State meet sums that increase in the other: the
\* spread of the merged State is no more than the spread of one of the two.
LEMMA MergedIsFair ==
  ASSUME NEW U \in SUBSET Nat, NEW w \in [U -> Nat], NEW k \in Nat, NEW even \in BOOLEAN,
         NEW st, GoodState(U, w, k, even, st),
         NEW other, GoodState(U, w, k, even, other)
  PROVE  FairState(U, w, k, even, MergeStates(st, other))
<1> DEFINE M == MergeStates(st, other)
           L(s, i) == Len(s[i].items)
<1>1. /\ st \in [1 .. k -> SetsOf(U)] /\ other \in [1 .. k -> SetsOf(U)]
      /\ st \in [1 .. k -> SetsOf(Nat)] /\ other \in [1 .. k -> SetsOf(Nat)]
      /\ Decreasing(st) /\ Decreasing(other)
  BY SetsOfNaturals DEF GoodState, FairState
<1>2. \A i \in 1 .. k : k + 1 - i \in 1 .. k
  OBVIOUS
<1>3. \A i \in 1 .. k : st[i].sum \in Nat /\ other[i].sum \in Nat
  BY <1>1 DEF SetsOf
<1>4. /\ M \in [1 .. k -> SetsOf(U)]
      /\ \A i \in 1 .. k : /\ M[i].sum = st[i].sum + other[k + 1 - i].sum
                           /\ L(M, i) = L(st, i) + L(other, k + 1 - i)
                           /\ L(st, i) \in Nat /\ L(other, k + 1 - i) \in Nat
  BY <1>1, MergedSets, ZenonT(30)
<1>5. \A i \in 1 .. k : L(other, i) \in Nat
  <2> TAKE i \in 1 .. k
  <2>1. k + 1 - i \in 1 .. k /\ k + 1 - (k + 1 - i) = i
    OBVIOUS
  <2> QED
    BY <1>4, <2>1
<1>6. \A i \in 1 .. k : (st[i].sum = 0 <=> L(st, i) = 0) /\ (other[i].sum = 0 <=> L(other, i) = 0)
  BY DEF GoodState, FairState
<1> HIDE DEF M, L
<1>7. ASSUME NEW i \in 1 .. k, NEW j \in 1 .. k
      PROVE  \E x \in U : M[i].sum - M[j].sum <= w[x]
  <2> DEFINE a == k + 1 - i
             b == k + 1 - j
  <2>1. a \in 1 .. k /\ b \in 1 .. k
    BY <1>2
  <2>2. PICK x \in U : st[i].sum - st[j].sum <= w[x]
    BY DEF GoodState, FairState
  <2>3. PICK y \in U : other[a].sum - other[b].sum <= w[y]
    BY <2>1 DEF GoodState, FairState
  <2>4. i <= j => other[a].sum <= other[b].sum
    BY <1>1, <2>1, DecreasingSums, SMTT(30)
  <2>5. j <= i => st[i].sum <= st[j].sum
    BY <1>1, DecreasingSums
  <2>6. M[i].sum = st[i].sum + other[a].sum /\ M[j].sum = st[j].sum + other[b].sum
    BY <1>4
  <2>7. /\ st[i].sum \in Nat /\ st[j].sum \in Nat
        /\ other[a].sum \in Nat /\ other[b].sum \in Nat
        /\ w[x] \in Nat /\ w[y] \in Nat
    BY <1>3, <2>1
  <2> HIDE DEF a, b
  <2>8. CASE i <= j
    BY <2>2, <2>4, <2>6, <2>7, <2>8
  <2>9. CASE j <= i
    BY <2>3, <2>5, <2>6, <2>7, <2>9
  <2> QED
    BY <2>8, <2>9
<1>8. ASSUME NEW i \in 1 .. k PROVE M[i].sum = 0 <=> L(M, i) = 0
  <2>1. st[i].sum \in Nat /\ other[k + 1 - i].sum \in Nat
    BY <1>2, <1>3
  <2>2. (st[i].sum = 0 <=> L(st, i) = 0) /\ (other[k + 1 - i].sum = 0 <=> L(other, k + 1 - i) = 0)
    BY <1>2, <1>6
  <2>3. /\ M[i].sum = st[i].sum + other[k + 1 - i].sum
        /\ L(M, i) = L(st, i) + L(other, k + 1 - i)
        /\ L(st, i) \in Nat /\ L(other, k + 1 - i) \in Nat
    BY <1>4
  <2> QED
    BY <2>1, <2>2, <2>3
<1>9. ASSUME even
      PROVE  \A i, j \in 1 .. k : L(M, i) = L(M, j) /\ L(M, i) # 0
  <2>1. \A i, j \in 1 .. k : /\ L(st, i) = L(st, j) /\ L(st, i) # 0
                             /\ L(other, i) = L(other, j)
    BY <1>9 DEF GoodState, FairState, L
  <2> QED
    BY <1>2, <1>4, <2>1
<1>10. ASSUME ~ even
       PROVE  \/ \A i \in 1 .. k : L(M, i) # 0
              \/ \A i \in 1 .. k : L(M, i) <= 1
  <2> SUFFICES ASSUME NEW e \in 1 .. k, L(M, e) = 0
               PROVE  \A i \in 1 .. k : L(M, i) <= 1
    OBVIOUS
  <2>1. L(st, e) = 0 /\ L(other, k + 1 - e) = 0
    BY <1>4
  <2>2. \A i \in 1 .. k : L(st, i) <= 1 /\ L(other, i) <= 1
    BY <1>2, <1>10, <2>1 DEF GoodState, FairState, L
  <2>3. ASSUME NEW i \in 1 .. k PROVE L(M, i) <= 1
    <3>1. CASE e <= i
      <4>1. st[e].sum = 0
        BY <1>6, <2>1
      <4>2. st[i].sum <= st[e].sum
        BY <1>1, <3>1, DecreasingSums
      <4>3. L(st, i) = 0
        BY <1>3, <1>6, <4>1, <4>2
      <4> QED
        BY <1>2, <1>4, <2>2, <4>3
    <3>2. CASE i <= e
      <4>1. other[k + 1 - e].sum = 0
        BY <1>2, <1>6, <2>1
      <4>2. other[k + 1 - i].sum <= other[k + 1 - e].sum
        <5>1. /\ k + 1 - e \in 1 .. k /\ k + 1 - i \in 1 .. k
              /\ k + 1 - e <= k + 1 - i
          BY <3>2
        <5> QED
          BY <1>1, <5>1, DecreasingSums
      <4>3. L(other, k + 1 - i) = 0
        BY <1>2, <1>3, <1>6, <4>1, <4>2
      <4> QED
        BY <1>4, <2>2, <4>3
    <3> QED
      BY <3>1, <3>2
  <2> QED
    BY <2>3
<1>11. /\ M \in [1 .. k -> SetsOf(U)]
       /\ \A i \in 1 .. k : M[i].sum = 0 <=> Len(M[i].items) = 0
       /\ \A i, j \in 1 .. k : \E x \in U : M[i].sum - M[j].sum <= w[x]
  BY <1>4, <1>7, <1>8 DEF L
<1> QED
  BY <1>9, <1>10, <1>11 DEF FairState, L, M

\* A step of the differencing keeps every item at one place of the heap.
LEMMA MergeKeeps ==
  ASSUME NEW U \in SUBSET Nat, NEW w \in [U -> Nat], NEW k \in Nat, NEW even \in BOOLEAN,
         NEW H, GoodHeap(U, w, k, even, H),
         NEW st \in H, NEW other \in H, st # other
  PROVE  GoodHeap(U, w, k, even, (H \ {st, other}) \union {Sorted(MergeStates(st, other))})
<1> DEFINE M == MergeStates(st, other)
           t == Sorted(M)
           L(s, i) == Len(s[i].items)
           K == (H \ {st, other}) \union {t}
           back(i) == k + 1 - i
<1>1. GoodState(U, w, k, even, st) /\ GoodState(U, w, k, even, other)
  BY DEF GoodHeap
<1>2. FairState(U, w, k, even, M)
  BY <1>1, MergedIsFair
<1>3. GoodState(U, w, k, even, t)
  <2> HIDE DEF M
  <2> QED  BY <1>2, SortedIsGood
<1>4. \A s \in K : GoodState(U, w, k, even, s)
  <2> HIDE DEF t
  <2> QED  BY <1>3 DEF GoodHeap
<1>5. st \in [1 .. k -> SetsOf(U)] /\ other \in [1 .. k -> SetsOf(U)]
  BY <1>1 DEF GoodState, FairState
<1>6. /\ M \in [1 .. k -> SetsOf(U)]
      /\ \A i \in 1 .. k :
            /\ back(i) \in 1 .. k
            /\ L(st, i) \in Nat /\ L(other, back(i)) \in Nat
            /\ L(M, i) = L(st, i) + L(other, back(i))
            /\ \A n \in 1 .. L(st, i) : M[i].items[n] = st[i].items[n]
            /\ \A n \in 1 .. L(other, back(i)) :
                  M[i].items[L(st, i) + n] = other[back(i)].items[n]
  <2>1. \A i \in 1 .. k : back(i) \in 1 .. k
    OBVIOUS
  <2>2. /\ M \in [1 .. k -> SetsOf(U)]
        /\ \A i \in 1 .. k :
              /\ L(st, i) \in Nat /\ L(other, back(i)) \in Nat
              /\ L(M, i) = L(st, i) + L(other, back(i))
    BY <1>5, MergedSets
  <2>3. \A i \in 1 .. k :
           /\ \A n \in 1 .. L(st, i) : M[i].items[n] = st[i].items[n]
           /\ \A n \in 1 .. L(other, back(i)) :
                 M[i].items[L(st, i) + n] = other[back(i)].items[n]
    BY <1>5, MergedSets, ZenonT(30)
  <2> QED
    BY <2>1, <2>2, <2>3
<1> HIDE DEF M
<1>7. M \in [1 .. k -> SetsOf(Nat)]
  BY <1>6, SetsOfNaturals
<1>8. PICK q : Permutes(q, k) /\ t = [i \in 1 .. k |-> M[q[i]]]
  BY <1>7, SortedPermutes
<1>9. \A i \in 1 .. k : q[i] \in 1 .. k /\ t[i] = M[q[i]]
  BY <1>8 DEF Permutes
<1>10. \A i, j \in 1 .. k : q[i] = q[j] => i = j
  BY <1>8 DEF Permutes
<1>11. \A i \in 1 .. k : \E j \in 1 .. k : q[j] = i
  BY <1>8 DEF Permutes
<1> HIDE DEF t, L, back
\* An item of the merged State was in st or in the Set it met.
<1>12. ASSUME NEW i \in 1 .. k, NEW n \in 1 .. L(t, i)
       PROVE  \/ n \in 1 .. L(st, q[i]) /\ t[i].items[n] = st[q[i]].items[n]
              \/ /\ n - L(st, q[i]) \in 1 .. L(other, back(q[i]))
                 /\ t[i].items[n] = other[back(q[i])].items[n - L(st, q[i])]
  <2> DEFINE j == q[i]
             l == L(st, j)
  <2>1. j \in 1 .. k /\ t[i] = M[j]
    BY <1>9
  <2>2. n \in 1 .. L(M, j)
    BY <2>1 DEF L
  <2> HIDE DEF j
  <2>3. l \in Nat /\ L(other, back(j)) \in Nat /\ L(M, j) = l + L(other, back(j))
    BY <1>6, <2>1
  <2> HIDE DEF l
  <2>4. CASE n <= l
    <3>1. n \in 1 .. l
      BY <2>2, <2>3, <2>4
    <3>2. M[j].items[n] = st[j].items[n]
      BY <1>6, <2>1, <3>1 DEF l
    <3> QED
      BY <2>1, <3>1, <3>2 DEF j, l
  <2>5. CASE ~ (n <= l)
    <3>1. n - l \in 1 .. L(other, back(j)) /\ l + (n - l) = n
      BY <2>2, <2>3, <2>5
    <3>2. M[j].items[l + (n - l)] = other[back(j)].items[n - l]
      BY <1>6, <2>1, <3>1 DEF l
    <3> QED
      BY <2>1, <3>1, <3>2 DEF j, l
  <2> QED
    BY <2>4, <2>5
<1>13. \A i, j \in 1 .. k : back(i) \in 1 .. k /\ (back(i) = back(j) => i = j)
  BY <1>6 DEF back
<1>14. Once(k, H)
  BY DEF GoodHeap
<1>15. \A s, u \in H : \A i, j \in 1 .. k : \A m \in 1 .. L(s, i), n \in 1 .. L(u, j) :
          s[i].items[m] = u[j].items[n] => s = u /\ i = j /\ m = n
  BY <1>14 DEF Once, L
<1>16. ASSUME NEW s \in K, NEW u \in K, NEW i \in 1 .. k, NEW j \in 1 .. k,
              NEW m \in 1 .. L(s, i), NEW n \in 1 .. L(u, j), s[i].items[m] = u[j].items[n]
       PROVE  s = u /\ i = j /\ m = n
  <2>1. CASE s \in H \ {st, other} /\ u \in H \ {st, other}
    BY <1>15, <1>16, <2>1
  <2>2. ASSUME NEW v \in H \ {st, other}, NEW a \in 1 .. k, NEW b \in 1 .. k,
               NEW c \in 1 .. L(v, a), NEW d \in 1 .. L(t, b)
        PROVE  v[a].items[c] # t[b].items[d]
    <3>1. q[b] \in 1 .. k /\ back(q[b]) \in 1 .. k
      BY <1>9, <1>13
    <3>2. CASE d \in 1 .. L(st, q[b]) /\ t[b].items[d] = st[q[b]].items[d]
      BY <1>15, <3>1, <3>2
    <3>3. CASE /\ d - L(st, q[b]) \in 1 .. L(other, back(q[b]))
               /\ t[b].items[d] = other[back(q[b])].items[d - L(st, q[b])]
      BY <1>15, <3>1, <3>3
    <3> QED
      BY <1>12, <3>2, <3>3
  <2>3. CASE s = t /\ u = t
    <3> DEFINE x == q[i]
               y == q[j]
    <3>1. x \in 1 .. k /\ y \in 1 .. k /\ back(x) \in 1 .. k /\ back(y) \in 1 .. k
      BY <1>9, <1>13
    <3>2. \/ m \in 1 .. L(st, x) /\ t[i].items[m] = st[x].items[m]
          \/ /\ m - L(st, x) \in 1 .. L(other, back(x))
             /\ t[i].items[m] = other[back(x)].items[m - L(st, x)]
      BY <1>12, <2>3
    <3>3. \/ n \in 1 .. L(st, y) /\ t[j].items[n] = st[y].items[n]
          \/ /\ n - L(st, y) \in 1 .. L(other, back(y))
             /\ t[j].items[n] = other[back(y)].items[n - L(st, y)]
      BY <1>12, <2>3
    <3>4. t[i].items[m] = t[j].items[n] /\ (x = y => i = j)
      BY <1>10, <1>16, <2>3
    <3>5. L(st, x) \in Nat /\ L(st, y) \in Nat
      BY <1>6, <3>1
    <3>6. x = y /\ m = n
      <4> HIDE DEF x, y
      <4>1. CASE /\ m \in 1 .. L(st, x) /\ t[i].items[m] = st[x].items[m]
                 /\ n \in 1 .. L(st, y) /\ t[j].items[n] = st[y].items[n]
        <5>1. st[x].items[m] = st[y].items[n]
          BY <3>4, <4>1
        <5> QED
          BY <1>15, <3>1, <4>1, <5>1
      <4>2. CASE /\ m - L(st, x) \in 1 .. L(other, back(x))
                 /\ t[i].items[m] = other[back(x)].items[m - L(st, x)]
                 /\ n - L(st, y) \in 1 .. L(other, back(y))
                 /\ t[j].items[n] = other[back(y)].items[n - L(st, y)]
        <5> DEFINE c == m - L(st, x)
                   d == n - L(st, y)
        <5> HIDE DEF c, d
        <5>0. other[back(x)].items[c] = other[back(y)].items[d]
          BY <3>4, <4>2 DEF c, d
        <5>3. c \in 1 .. L(other, back(x)) /\ d \in 1 .. L(other, back(y))
          BY <4>2 DEF c, d
        <5>4. back(x) = back(y) /\ c = d
          BY <1>15, <3>1, <5>0, <5>3
        <5>1. back(x) = back(y) /\ m - L(st, x) = n - L(st, y)
          BY <5>4 DEF c, d
        <5>2. x = y
          BY <1>13, <3>1, <5>1
        <5> QED
          BY <3>5, <5>1, <5>2
      <4>3. CASE /\ m \in 1 .. L(st, x) /\ t[i].items[m] = st[x].items[m]
                 /\ n - L(st, y) \in 1 .. L(other, back(y))
                 /\ t[j].items[n] = other[back(y)].items[n - L(st, y)]
        <5> DEFINE d == n - L(st, y)
        <5> HIDE DEF d
        <5>1. st[x].items[m] = other[back(y)].items[d]
          BY <3>4, <4>3 DEF d
        <5>2. d \in 1 .. L(other, back(y))
          BY <4>3 DEF d
        <5> QED
          BY <1>15, <3>1, <4>3, <5>1, <5>2
      <4>4. CASE /\ m - L(st, x) \in 1 .. L(other, back(x))
                 /\ t[i].items[m] = other[back(x)].items[m - L(st, x)]
                 /\ n \in 1 .. L(st, y) /\ t[j].items[n] = st[y].items[n]
        <5> DEFINE c == m - L(st, x)
        <5> HIDE DEF c
        <5>1. other[back(x)].items[c] = st[y].items[n]
          BY <3>4, <4>4 DEF c
        <5>2. c \in 1 .. L(other, back(x))
          BY <4>4 DEF c
        <5> QED
          BY <1>15, <3>1, <4>4, <5>1, <5>2
      <4> QED
        BY <3>2, <3>3, <4>1, <4>2, <4>3, <4>4
    <3> QED
      BY <2>3, <3>4, <3>6
  <2>4. CASE s \in H \ {st, other} /\ u = t
    BY <1>16, <2>2, <2>4
  <2>5. CASE s = t /\ u \in H \ {st, other}
    BY <1>16, <2>2, <2>5
  <2> QED
    BY <2>1, <2>3, <2>4, <2>5
<1>17. Once(k, K)
  BY <1>16 DEF Once, L
<1>18. ASSUME NEW x \in U
       PROVE  \E s \in K : \E i \in 1 .. k : \E m \in 1 .. L(s, i) : s[i].items[m] = x
  <2>1. \E s \in H : \E i \in 1 .. k : \E m \in 1 .. L(s, i) : s[i].items[m] = x
    BY DEF GoodHeap, Everywhere, L
  <2> PICK s \in H : \E i \in 1 .. k : \E m \in 1 .. L(s, i) : s[i].items[m] = x
    BY <2>1
  <2> PICK i \in 1 .. k : \E m \in 1 .. L(s, i) : s[i].items[m] = x
    OBVIOUS
  <2> PICK m \in 1 .. L(s, i) : s[i].items[m] = x
    OBVIOUS
  <2>2. CASE s \in H \ {st, other}
    BY <2>2
  <2>3. CASE s = st
    <3>1. PICK j \in 1 .. k : q[j] = i
      BY <1>11
    <3>2. t[j] = M[i] /\ L(t, j) = L(M, i)
      BY <1>9, <3>1 DEF L
    <3>3. L(st, i) \in Nat /\ L(other, back(i)) \in Nat /\ L(M, i) = L(st, i) + L(other, back(i))
      BY <1>6
    <3>4. m \in 1 .. L(st, i) /\ m \in 1 .. L(t, j)
      BY <2>3, <3>2, <3>3
    <3>5. M[i].items[m] = st[i].items[m]
      BY <1>6, <3>4
    <3>6. t[j].items[m] = x
      BY <2>3, <3>2, <3>5
    <3> QED
      BY <3>4, <3>6
  <2>4. CASE s = other
    <3> DEFINE a == back(i)
    <3>1. a \in 1 .. k /\ back(a) = i
      BY DEF back
    <3>2. PICK j \in 1 .. k : q[j] = a
      BY <1>11, <3>1
    <3>3. t[j] = M[a] /\ L(t, j) = L(M, a)
      BY <1>9, <3>2 DEF L
    <3> HIDE DEF a
    <3>4. L(st, a) \in Nat /\ L(other, i) \in Nat /\ L(M, a) = L(st, a) + L(other, i)
      BY <1>6, <3>1
    <3>5. m \in 1 .. L(other, i) /\ L(st, a) + m \in 1 .. L(t, j)
      BY <2>4, <3>3, <3>4
    <3>6. M[a].items[L(st, a) + m] = other[back(a)].items[m]
      BY <1>6, <3>1, <3>5
    <3>7. t[j].items[L(st, a) + m] = x
      BY <2>4, <3>1, <3>3, <3>6
    <3> QED
      BY <3>5, <3>7
  <2> QED
    BY <2>2, <2>3, <2>4
<1>19. Everywhere(U, k, K)
  BY <1>18 DEF Everywhere, L
<1> HIDE DEF K
<1>20. GoodHeap(U, w, k, even, K)
  BY <1>4, <1>17, <1>19 DEF GoodHeap
<1> QED
  BY <1>20 DEF K, t, M

------------------------------------------------------------------------------
(* The first heap *)

LEMMA TimesMonotone ==
  ASSUME NEW a \in Nat, NEW b \in Nat, NEW k \in Nat, a <= b
  PROVE  a * k \in Nat /\ b * k \in Nat /\ a * k <= b * k
OBVIOUS

LEMMA TimesDiv ==
  ASSUME NEW c \in Nat, NEW k \in Nat \ {0}
  PROVE  k * c \in Nat /\ (k * c) \div k = c
OBVIOUS

\* Every m is at one place of one row of k.
LEMMA RowUnique ==
  ASSUME NEW k \in Nat, NEW g \in Nat, NEW h \in Nat,
         NEW i \in 1 .. k, NEW j \in 1 .. k, g * k + i = h * k + j
  PROVE  g = h /\ i = j
<1>1. ASSUME NEW a \in Nat, NEW b \in Nat, NEW x \in 1 .. k, NEW y \in 1 .. k,
             a * k + x = b * k + y, a < b
      PROVE  FALSE
  <2>1. (a + 1) * k <= b * k /\ (a + 1) * k = a * k + k
    BY <1>1, TimesMonotone
  <2>2. a * k \in Nat /\ b * k \in Nat
    OBVIOUS
  <2> QED
    BY <1>1, <2>1, <2>2
<1>2. ~ (g < h) /\ ~ (h < g)
  BY <1>1
<1>3. g = h
  BY <1>2
<1>4. g * k \in Nat
  OBVIOUS
<1> QED
  BY <1>3, <1>4

\* Every position up to n * k is in one of n rows of k.
LEMMA RowExists ==
  ASSUME NEW k \in Nat \ {0}, NEW c \in Nat, NEW m \in 1 .. k * c
  PROVE  \E g \in 0 .. c - 1 : \E i \in 1 .. k : m = g * k + i
<1> DEFINE T == {n \in Nat : \E g \in Nat : \E i \in 1 .. k : n + 1 = g * k + i}
<1>1. 0 \in T
  <2>1. 1 \in 1 .. k /\ 0 + 1 = 0 * k + 1
    OBVIOUS
  <2> QED
    BY <2>1
<1>2. ASSUME NEW n \in Nat, n \in T PROVE n + 1 \in T
  <2>1. PICK g \in Nat, i \in 1 .. k : n + 1 = g * k + i
    BY <1>2
  <2>2. g * k \in Nat /\ (g + 1) * k = g * k + k
    OBVIOUS
  <2>3. CASE i < k
    <3>1. i + 1 \in 1 .. k /\ n + 1 + 1 = g * k + (i + 1)
      BY <2>1, <2>2, <2>3
    <3> QED
      BY <3>1
  <2>4. CASE i = k
    <3> DEFINE h == g + 1
    <3>1. h \in Nat /\ 1 \in 1 .. k /\ n + 1 + 1 = h * k + 1
      BY <2>1, <2>2, <2>4
    <3> HIDE DEF h
    <3> QED
      BY <3>1
  <2> QED
    BY <2>3, <2>4
<1> HIDE DEF T
<1>3. Nat \subseteq T
  BY <1>1, <1>2, Induction
<1>4. k * c \in Nat /\ m - 1 \in Nat
  OBVIOUS
<1>5. m - 1 \in T
  BY <1>3, <1>4
<1>6. PICK g \in Nat, i \in 1 .. k : m = g * k + i
  BY <1>5 DEF T
<1>7. g < c
  <2> SUFFICES ASSUME c <= g PROVE FALSE
    OBVIOUS
  <2>1. c * k <= g * k /\ g * k \in Nat /\ c * k = k * c
    BY TimesMonotone
  <2> QED
    BY <1>4, <1>6, <2>1
<1> QED
  BY <1>6, <1>7

\* Without equal_size: every item is a State of its own.
LEMMA SinglesAreGood ==
  ASSUME NEW n \in Nat, NEW w \in [1 .. n -> Nat \ {0}], NEW k \in Nat \ {0}
  PROVE  GoodHeap(1 .. n, w, k, FALSE,
             {[i \in 1 .. k |-> IF i = 1 THEN Single(x, w[x]) ELSE EmptySet] : x \in 1 .. n})
<1> DEFINE U == 1 .. n
           state(x) == [i \in 1 .. k |-> IF i = 1 THEN Single(x, w[x]) ELSE EmptySet]
           H == {state(x) : x \in U}
<1>1. \A x \in U : \A i \in 1 .. k :
         /\ state(x)[i] = IF i = 1 THEN Single(x, w[x]) ELSE EmptySet
         /\ state(x)[i].sum = IF i = 1 THEN w[x] ELSE 0
         /\ state(x)[i].items = IF i = 1 THEN <<x>> ELSE <<>>
         /\ Len(state(x)[i].items) = IF i = 1 THEN 1 ELSE 0
  BY DEF Single, EmptySet
<1>2. 1 \in 1 .. k
  OBVIOUS
<1>3. ASSUME NEW x \in U PROVE GoodState(U, w, k, FALSE, state(x))
  <2>1. Single(x, w[x]) \in SetsOf(U) /\ EmptySet \in SetsOf(U)
    BY DEF Single, EmptySet, SetsOf
  <2>2. state(x) \in [1 .. k -> SetsOf(U)]
    BY <2>1
  <2>3. w[x] \in Nat \ {0}
    OBVIOUS
  <2> DEFINE st == state(x)
  <2>4. \A i \in 1 .. k : /\ st[i].sum = IF i = 1 THEN w[x] ELSE 0
                          /\ Len(st[i].items) = IF i = 1 THEN 1 ELSE 0
    BY <1>1
  <2>5. DOMAIN st = 1 .. k
    OBVIOUS
  <2> HIDE DEF st
  <2>6. \A i \in 1 .. k : i # 1 => DOMAIN st[i].items = {}
    <3> TAKE i \in 1 .. k
    <3> HAVE i # 1
    <3>1. st[i].items \in Seq(U) /\ Len(st[i].items) = 0
      BY <2>2, <2>4 DEF SetsOf, st
    <3>2. DOMAIN st[i].items = 1 .. 0
      BY <3>1
    <3> QED
      BY <3>2
  <2>7. \A i, j \in 1 .. k : \E y \in U : st[i].sum - st[j].sum <= w[y]
    <3>1. \A i, j \in 1 .. k : st[i].sum - st[j].sum <= w[x]
      BY <2>3, <2>4
    <3> QED
      BY <3>1
  <2>8. FairState(U, w, k, FALSE, st)
    <3>1. \A i \in 1 .. k : Len(st[i].items) <= 1
      BY <2>4
    <3>2. \A i \in 1 .. k : st[i].sum = 0 <=> Len(st[i].items) = 0
      BY <2>3, <2>4
    <3>3. st \in [1 .. k -> SetsOf(U)]
      BY <2>2 DEF st
    <3> QED
      BY <2>7, <3>1, <3>2, <3>3 DEF FairState
  <2>9. ASSUME NEW i \in 1 .. k, NEW j \in 1 .. k, i < j PROVE ~ SetLess(st[i], st[j])
    <3>1. st[j].sum = 0 /\ j # 1
      BY <2>4, <2>9
    <3>2. CASE i = 1
      BY <2>3, <2>4, <3>1, <3>2 DEF SetLess
    <3>3. CASE i # 1
      <4>1. st[i].sum = 0 /\ Len(st[i].items) = 0 /\ Len(st[j].items) = 0
        BY <2>4, <3>1, <3>3
      <4>2. DOMAIN st[i].items = {}
        BY <2>6, <3>3
      <4> QED
        BY <3>1, <4>1, <4>2 DEF SetLess
    <3> QED
      BY <3>2, <3>3
  <2>10. Decreasing(st)
    BY <2>5, <2>9 DEF Decreasing
  <2> QED
    BY <2>8, <2>10 DEF GoodState, st
<1>5. ASSUME NEW x \in U
      PROVE  \E i \in 1 .. k : \E m \in 1 .. Len(state(x)[i].items) : state(x)[i].items[m] = x
  <2>0. state(x)[1].items = <<x>>
    BY <1>1, <1>2
  <2> HIDE DEF state
  <2>1. Len(state(x)[1].items) = 1 /\ 1 \in 1 .. 1
    BY <2>0
  <2>2. state(x)[1].items[1] = x
    BY <2>0
  <2> QED
    BY <1>2, <2>1, <2>2
<1> HIDE DEF state
<1>6. \A st \in H : GoodState(U, w, k, FALSE, st)
  BY <1>3
<1>7. Once(k, H)
  <2> SUFFICES ASSUME NEW st \in H, NEW t \in H, NEW i \in 1 .. k, NEW j \in 1 .. k,
                      NEW m \in 1 .. Len(st[i].items), NEW l \in 1 .. Len(t[j].items),
                      st[i].items[m] = t[j].items[l]
               PROVE  st = t /\ i = j /\ m = l
    BY DEF Once
  <2>1. PICK x \in U : st = state(x)
    OBVIOUS
  <2>2. PICK y \in U : t = state(y)
    OBVIOUS
  <2>3. /\ m \in 1 .. Len(state(x)[i].items) /\ l \in 1 .. Len(state(y)[j].items)
        /\ state(x)[i].items[m] = state(y)[j].items[l]
    BY <2>1, <2>2
  <2>4. /\ Len(state(x)[i].items) = IF i = 1 THEN 1 ELSE 0
        /\ Len(state(y)[j].items) = IF j = 1 THEN 1 ELSE 0
    BY <1>1
  <2>5. i = 1 /\ j = 1 /\ m = 1 /\ l = 1
    BY <2>3, <2>4
  <2>6. state(x)[1].items = <<x>> /\ state(y)[1].items = <<y>>
    BY <1>1, <1>2
  <2>7. <<x>>[1] = <<y>>[1]
    BY <2>3, <2>5, <2>6
  <2> QED
    BY <2>1, <2>2, <2>5, <2>7
<1>8. Everywhere(U, k, H)
  BY <1>5 DEF Everywhere
<1> HIDE DEF H
<1>9. GoodHeap(U, w, k, FALSE, H)
  BY <1>6, <1>7, <1>8 DEF GoodHeap
<1> QED
  BY <1>9 DEF H, U, state

\* c States of k items each, the items in the order p.
Rows(k, c, w, p) ==
    {Sorted([i \in 1 .. k |-> Single(p[g * k + i], w[p[g * k + i]])]) : g \in 0 .. c - 1}

\* equal_size: every k items of a permutation make a State.
LEMMA RowsAreGood ==
  ASSUME NEW k \in Nat \ {0}, NEW c \in Nat, NEW n \in Nat, n = k * c,
         NEW w \in [1 .. n -> Nat \ {0}], NEW p, Permutes(p, n)
  PROVE  GoodHeap(1 .. n, w, k, TRUE, Rows(k, c, w, p))
<1> DEFINE U == 1 .. n
           x(g, i) == p[g * k + i]
           row(g) == [i \in 1 .. k |-> Single(x(g, i), w[x(g, i)])]
           H == {Sorted(row(g)) : g \in 0 .. c - 1}
<1>1. ASSUME NEW g \in 0 .. c - 1, NEW i \in 1 .. k
      PROVE  g * k + i \in U
  <2>1. g * k \in Nat /\ (g + 1) * k = g * k + k
    OBVIOUS
  <2>2. (g + 1) * k <= c * k /\ c * k = k * c
    BY TimesMonotone
  <2> QED
    BY <2>1, <2>2
<1>2. \A g \in 0 .. c - 1 : \A i \in 1 .. k : x(g, i) \in U
  BY <1>1 DEF Permutes
<1>3. ASSUME NEW g \in 0 .. c - 1, NEW h \in 0 .. c - 1, NEW i \in 1 .. k, NEW j \in 1 .. k,
             x(g, i) = x(h, j)
      PROVE  g = h /\ i = j
  <2>1. g * k + i \in U /\ h * k + j \in U
    BY <1>1
  <2>2. g * k + i = h * k + j
    <3> DEFINE a == g * k + i
               b == h * k + j
    <3>1. a \in U /\ b \in U /\ p[a] = p[b]
      BY <1>3, <2>1
    <3> HIDE DEF a, b
    <3>2. a = b
      BY <3>1 DEF Permutes
    <3> QED
      BY <3>2 DEF a, b
  <2> QED
    BY <2>2, RowUnique
<1>4. \A y \in U : \E g \in 0 .. c - 1 : \E i \in 1 .. k : x(g, i) = y
  <2> TAKE y \in U
  <2>1. PICK m \in U : p[m] = y
    BY DEF Permutes
  <2>2. PICK g \in 0 .. c - 1, i \in 1 .. k : m = g * k + i
    BY RowExists
  <2> QED
    BY <2>1, <2>2
<1> HIDE DEF x
<1>5. ASSUME NEW g \in 0 .. c - 1
      PROVE  /\ row(g) \in [1 .. k -> SetsOf(U)]
             /\ \A i \in 1 .. k : row(g)[i].items = <<x(g, i)>> /\ Len(row(g)[i].items) = 1
             /\ \A i \in 1 .. k : row(g)[i].sum = w[x(g, i)]
  <2>1. \A i \in 1 .. k : Single(x(g, i), w[x(g, i)]) \in SetsOf(U)
    <3> TAKE i \in 1 .. k
    <3> DEFINE y == x(g, i)
    <3>1. y \in U /\ w[y] \in Nat
      BY <1>2
    <3> HIDE DEF y
    <3>2. Single(y, w[y]) \in SetsOf(U)
      BY <3>1 DEF Single, SetsOf
    <3> QED
      BY <3>2 DEF y
  <2>2. row(g) \in [1 .. k -> SetsOf(U)]
    BY <2>1
  <2>3. \A i \in 1 .. k : row(g)[i].items = <<x(g, i)>> /\ row(g)[i].sum = w[x(g, i)]
    BY DEF Single
  <2>4. \A i \in 1 .. k : Len(row(g)[i].items) = 1
    <3> HIDE DEF row
    <3> TAKE i \in 1 .. k
    <3>1. row(g)[i].items = <<x(g, i)>>
      BY <2>3
    <3> QED
      BY <3>1
  <2> QED
    BY <2>2, <2>3, <2>4
<1> HIDE DEF row
<1>6. ASSUME NEW g \in 0 .. c - 1 PROVE FairState(U, w, k, TRUE, row(g))
  <2> DEFINE st == row(g)
  <2>1. \A i \in 1 .. k : st[i].sum \in Nat \ {0} /\ Len(st[i].items) = 1
    BY <1>2, <1>5
  <2>2. \A i, j \in 1 .. k : \E y \in U : st[i].sum - st[j].sum <= w[y]
    <3> TAKE i, j \in 1 .. k
    <3>1. x(g, i) \in U /\ st[i].sum = w[x(g, i)]
      BY <1>2, <1>5
    <3>2. st[i].sum - st[j].sum <= w[x(g, i)]
      BY <2>1, <3>1
    <3> QED
      BY <3>1, <3>2
  <2>3. st \in [1 .. k -> SetsOf(U)]
    BY <1>5
  <2> HIDE DEF st
  <2>4. FairState(U, w, k, TRUE, st)
    <3>1. ASSUME NEW i \in 1 .. k, NEW j \in 1 .. k
          PROVE  /\ st[i].sum = 0 <=> Len(st[i].items) = 0
                 /\ Len(st[i].items) = Len(st[j].items) /\ Len(st[i].items) # 0
      <4>1. st[i].sum # 0 /\ Len(st[i].items) = 1
        BY <2>1
      <4>2. Len(st[j].items) = 1
        BY <2>1
      <4> QED
        BY <4>1, <4>2
    <3> QED
      BY <2>2, <2>3, <3>1 DEF FairState
  <2> QED
    BY <2>4 DEF st
<1>7. U \in SUBSET Nat
  OBVIOUS
<1>8. ASSUME NEW g \in 0 .. c - 1
      PROVE  GoodState(U, w, k, TRUE, Sorted(row(g)))
  BY <1>6, <1>7, SortedIsGood
\* Where the items of a row are in its State.
<1>9. ASSUME NEW g \in 0 .. c - 1
      PROVE  \E q : Permutes(q, k) /\ Sorted(row(g)) = [i \in 1 .. k |-> row(g)[q[i]]]
  <2>1. row(g) \in [1 .. k -> SetsOf(Nat)]
    BY <1>5, <1>7, SetsOfNaturals
  <2> QED
    BY <2>1, SortedPermutes
<1> HIDE DEF U
<1>10. \A st \in H : GoodState(U, w, k, TRUE, st)
  BY <1>8
<1>11. Once(k, H)
  <2> SUFFICES ASSUME NEW st \in H, NEW t \in H, NEW i \in 1 .. k, NEW j \in 1 .. k,
                      NEW m \in 1 .. Len(st[i].items), NEW l \in 1 .. Len(t[j].items),
                      st[i].items[m] = t[j].items[l]
               PROVE  st = t /\ i = j /\ m = l
    BY DEF Once
  <2>1. PICK g \in 0 .. c - 1 : st = Sorted(row(g))
    OBVIOUS
  <2>2. PICK h \in 0 .. c - 1 : t = Sorted(row(h))
    OBVIOUS
  <2>3. PICK q : Permutes(q, k) /\ st = [a \in 1 .. k |-> row(g)[q[a]]]
    BY <1>9, <2>1
  <2>4. PICK r : Permutes(r, k) /\ t = [a \in 1 .. k |-> row(h)[r[a]]]
    BY <1>9, <2>2
  <2>5. q[i] \in 1 .. k /\ r[j] \in 1 .. k /\ st[i] = row(g)[q[i]] /\ t[j] = row(h)[r[j]]
    BY <2>3, <2>4 DEF Permutes
  <2>6. st[i].items = <<x(g, q[i])>> /\ t[j].items = <<x(h, r[j])>>
    <3>1. row(g)[q[i]].items = <<x(g, q[i])>>
      BY <1>5, <2>5
    <3>2. row(h)[r[j]].items = <<x(h, r[j])>>
      BY <1>5, <2>5
    <3> QED
      BY <2>5, <3>1, <3>2
  <2>7. Len(st[i].items) = 1 /\ Len(t[j].items) = 1
    BY <1>5, <2>5, SMTT(30)
  <2>8. m = 1 /\ l = 1
    BY <2>7
  <2>9. x(g, q[i]) = x(h, r[j])
    <3>1. <<x(g, q[i])>>[1] = <<x(h, r[j])>>[1]
      BY <2>6, <2>8
    <3> QED
      BY <3>1
  <2>10. g = h /\ q[i] = r[j]
    BY <1>3, <2>5, <2>9
  <2>11. st = t /\ i = j
    <3>1. st = t
      BY <2>1, <2>2, <2>10
    <3>2. t[j] = row(h)[q[j]] /\ q[j] \in 1 .. k
      BY <2>3, <2>10, <3>1 DEF Permutes
    <3>3. <<x(h, q[j])>> = <<x(h, r[j])>>
      BY <1>5, <2>6, <3>2
    <3>4. x(h, q[j]) = x(h, r[j])
      <4>1. <<x(h, q[j])>>[1] = <<x(h, r[j])>>[1]
        BY <3>3
      <4> QED
        BY <4>1
    <3>5. q[j] = r[j]
      BY <1>3, <2>5, <3>2, <3>4
    <3>6. q[i] = q[j]
      BY <2>10, <3>5
    <3> QED
      BY <2>3, <3>1, <3>6 DEF Permutes
  <2> QED
    BY <2>8, <2>11
<1>12. Everywhere(U, k, H)
  <2> SUFFICES ASSUME NEW y \in U
               PROVE  \E st \in H : \E i \in 1 .. k : \E m \in 1 .. Len(st[i].items) :
                          st[i].items[m] = y
    BY DEF Everywhere
  <2>1. PICK g \in 0 .. c - 1, i \in 1 .. k : x(g, i) = y
    BY <1>4
  <2>2. PICK q : Permutes(q, k) /\ Sorted(row(g)) = [a \in 1 .. k |-> row(g)[q[a]]]
    BY <1>9
  <2>3. PICK j \in 1 .. k : q[j] = i
    BY <2>2 DEF Permutes
  <2> DEFINE st == Sorted(row(g))
  <2>4. st \in H /\ st[j] = row(g)[i]
    BY <2>2, <2>3
  <2> HIDE DEF st, H
  <2>5. st[j].items = <<y>> /\ Len(st[j].items) = 1
    BY <1>5, <2>1, <2>4
  <2>6. 1 \in 1 .. Len(st[j].items) /\ st[j].items[1] = y
    BY <2>5
  <2> QED
    BY <2>4, <2>6
<1> HIDE DEF H
<1>13. GoodHeap(U, w, k, TRUE, H)
  BY <1>10, <1>11, <1>12 DEF GoodHeap
<1> QED
  BY <1>13 DEF H, U, row, x, Rows

------------------------------------------------------------------------------
(* The last State *)

\* As many partitions as there are items, or fewer: none is left empty.
LEMMA NoneLeftEmpty ==
  ASSUME NEW n \in Nat, NEW k \in 1 .. n, NEW w, NEW st,
         GoodHeap(1 .. n, w, k, FALSE, {st})
  PROVE  \A i \in 1 .. k : Len(st[i].items) # 0
<1> DEFINE U == 1 .. n
           L(i) == Len(st[i].items)
<1> SUFFICES ASSUME NEW e \in 1 .. k, L(e) = 0 PROVE FALSE
  OBVIOUS
<1>1. \A i \in 1 .. k : L(i) <= 1
  BY DEF GoodHeap, GoodState, FairState
<1>2. st \in [1 .. k -> SetsOf(U)]
  BY DEF GoodHeap, GoodState, FairState
<1>3. ASSUME NEW x \in U PROVE \E i \in 1 .. k : \E m \in 1 .. L(i) : st[i].items[m] = x
  <2>1. PICK t \in {st} : \E i \in 1 .. k : \E m \in 1 .. Len(t[i].items) : t[i].items[m] = x
    BY DEF GoodHeap, Everywhere
  <2>2. t = st
    OBVIOUS
  <2> QED
    BY <2>1, <2>2
<1> DEFINE f == [x \in U |-> CHOOSE i \in (1 .. k) \ {e} : st[i].items[1] = x]
<1>4. ASSUME NEW x \in U
      PROVE  f[x] \in (1 .. k) \ {e} /\ st[f[x]].items[1] = x
  <2>1. PICK i \in 1 .. k : \E m \in 1 .. L(i) : st[i].items[m] = x
    BY <1>3
  <2>2. PICK m \in 1 .. L(i) : st[i].items[m] = x
    BY <2>1
  <2>3. st[i].items \in Seq(U)
    BY <1>2 DEF SetsOf
  <2>4. L(i) \in Nat
    BY <2>3
  <2>5. m = 1 /\ i # e
    BY <1>1, <2>4
  <2>6. \E j \in (1 .. k) \ {e} : st[j].items[1] = x
    BY <2>2, <2>5
  <2> QED
    BY <2>6
<1> HIDE DEF f
<1>5. f \in [U -> (1 .. k) \ {e}]
  <2>1. f = [x \in U |-> f[x]]
    BY DEF f
  <2> QED
    BY <1>4, <2>1
<1>6. IsFiniteSet(U) /\ Cardinality(U) = n
  BY FS_Interval
<1>7. IsFiniteSet(1 .. k) /\ Cardinality(1 .. k) = k
  BY FS_Interval
<1>8. IsFiniteSet((1 .. k) \ {e}) /\ Cardinality((1 .. k) \ {e}) = k - 1
  BY <1>7, FS_RemoveElement
<1>9. Cardinality((1 .. k) \ {e}) < Cardinality(U)
  BY <1>6, <1>8
<1> HIDE DEF U
<1>10. \E x, y \in U : x # y /\ f[x] = f[y]
  BY <1>5, <1>6, <1>8, <1>9, FS_PigeonHole
<1> QED
  BY <1>4, <1>10

\* equal_size: k Sets of one size share k * c items.
LEMMA EqualLengths ==
  ASSUME NEW k \in Nat \ {0}, NEW c \in Nat, NEW w, NEW st,
         GoodHeap(1 .. k * c, w, k, TRUE, {st})
  PROVE  \A i \in 1 .. k : Len(st[i].items) = c
<1> DEFINE U == 1 .. k * c
           l == Len(st[1].items)
           P == (1 .. k) \X (1 .. l)
           f == [p \in P |-> st[p[1]].items[p[2]]]
<1>1. st \in [1 .. k -> SetsOf(U)]
  BY DEF GoodHeap, GoodState, FairState
<1>2. 1 \in 1 .. k /\ \A i \in 1 .. k : st[i].items \in Seq(U)
  BY <1>1 DEF SetsOf
<1>3. l \in Nat
  BY <1>2
<1>4. ASSUME NEW i \in 1 .. k PROVE Len(st[i].items) = l
  BY <1>2 DEF GoodHeap, GoodState, FairState
<1>5. \A i \in 1 .. k : \A m \in 1 .. l : st[i].items[m] \in U
  BY <1>2, <1>4, SMTT(30)
<1>6. ASSUME NEW i \in 1 .. k, NEW j \in 1 .. k, NEW m \in 1 .. l, NEW n \in 1 .. l,
             st[i].items[m] = st[j].items[n]
      PROVE  i = j /\ m = n
  <2>1. m \in 1 .. Len(st[i].items) /\ n \in 1 .. Len(st[j].items)
    BY <1>4
  <2>2. Once(k, {st}) /\ st \in {st}
    BY DEF GoodHeap
  <2> QED
    BY <1>6, <2>1, <2>2, SMTT(30) DEF Once
<1>7. ASSUME NEW x \in U PROVE \E i \in 1 .. k : \E m \in 1 .. l : st[i].items[m] = x
  <2>1. PICK t \in {st} : \E i \in 1 .. k : \E m \in 1 .. Len(t[i].items) : t[i].items[m] = x
    BY DEF GoodHeap, Everywhere
  <2>2. t = st
    OBVIOUS
  <2> QED
    BY <1>4, <2>1, <2>2
<1> HIDE DEF l, U
<1>8. f \in [P -> U]
  BY <1>5
<1>9. \A p, q \in P : f[p] = f[q] => p = q
  BY <1>6
<1>10. \A x \in U : \E p \in P : f[p] = x
  <2> TAKE x \in U
  <2>1. PICK i \in 1 .. k : \E m \in 1 .. l : st[i].items[m] = x
    BY <1>7
  <2>2. PICK m \in 1 .. l : st[i].items[m] = x
    BY <2>1
  <2>3. <<i, m>> \in P /\ f[<<i, m>>] = x
    BY <2>2
  <2> QED
    BY <2>3
<1> HIDE DEF f, P
<1>11. f \in Bijection(P, U)
  BY <1>8, <1>9, <1>10, Fun_IsBij
<1>12. IsFiniteSet(P) /\ Cardinality(P) = k * l
  <2>1. /\ IsFiniteSet(1 .. k) /\ Cardinality(1 .. k) = k
        /\ IsFiniteSet(1 .. l) /\ Cardinality(1 .. l) = l
    BY <1>3, FS_Interval
  <2> DEFINE K == 1 .. k
             J == 1 .. l
  <2> HIDE DEF K, J
  <2>2. IsFiniteSet(K \X J) /\ Cardinality(K \X J) = Cardinality(K) * Cardinality(J)
    BY <2>1, FS_Product DEF K, J
  <2> QED
    BY <2>1, <2>2 DEF P, K, J
<1>13. ExistsBijection(P, U)
  BY <1>11 DEF ExistsBijection
<1>14. Cardinality(U) = Cardinality(P)
  BY <1>12, <1>13, FS_Bijection
<1>15. Cardinality(U) = k * c
  <2> DEFINE N == k * c
  <2>1. N \in Nat
    OBVIOUS
  <2> HIDE DEF N
  <2>2. Cardinality(1 .. N) = N
    <3>1. Cardinality(1 .. N) = IF 1 > N THEN 0 ELSE N - 1 + 1
      BY <2>1, FS_Interval
    <3> QED
      BY <2>1, <3>1
  <2> QED
    BY <2>2 DEF U, N
<1>16. k * l = k * c
  BY <1>12, <1>14, <1>15
<1>17. l = c
  <2>1. (k * l) \div k = l /\ (k * c) \div k = c
    BY <1>3, TimesDiv
  <2> QED
    BY <1>16, <2>1
<1> QED
  BY <1>4, <1>17

------------------------------------------------------------------------------
(* Lists of lists *)

\* ss are k lists, in which every element of S is at one place.
Split(ss, k, S) ==
    /\ ss \in [1 .. k -> Seq(S)]
    /\ \A i, j \in 1 .. k : \A m \in 1 .. Len(ss[i]), n \in 1 .. Len(ss[j]) :
          ss[i][m] = ss[j][n] => i = j /\ m = n
    /\ \A x \in S : \E i \in 1 .. k : \E m \in 1 .. Len(ss[i]) : ss[i][m] = x

\* t is s in another order.
Shuffle(s, t) == \E q : Permutes(q, Len(s)) /\ t = [i \in 1 .. Len(s) |-> s[q[i]]]

\* A shuffled list has the type and the length of the list.
LEMMA ShuffleKeeps ==
  ASSUME NEW S, NEW s \in Seq(S), NEW t, Shuffle(s, t)
  PROVE  t \in Seq(S) /\ Len(t) = Len(s)
<1>1. PICK q : Permutes(q, Len(s)) /\ t = [i \in 1 .. Len(s) |-> s[q[i]]]
  BY DEF Shuffle
<1>2. \A i \in 1 .. Len(s) : q[i] \in 1 .. Len(s)
  BY <1>1 DEF Permutes
<1>3. \A i \in 1 .. Len(s) : s[q[i]] \in S
  BY <1>2
<1>4. t \in [1 .. Len(s) -> S] /\ Len(s) \in Nat
  BY <1>1, <1>3
<1> QED
  BY <1>4, FunctionIsSeq

LEMMA ShuffleTwice ==
  ASSUME NEW S, NEW s \in Seq(S), NEW t, Shuffle(s, t), NEW u, Shuffle(t, u)
  PROVE  Shuffle(s, u)
<1> DEFINE n == Len(s)
<1>1. Len(t) = n /\ n \in Nat
  BY ShuffleKeeps
<1>2. PICK q : Permutes(q, n) /\ t = [i \in 1 .. n |-> s[q[i]]]
  BY DEF Shuffle
<1>3. PICK p : Permutes(p, n) /\ u = [i \in 1 .. n |-> t[p[i]]]
  BY <1>1 DEF Shuffle
<1> DEFINE qp == [i \in 1 .. n |-> q[p[i]]]
<1> HIDE DEF n
<1>4. \A i \in 1 .. n : p[i] \in 1 .. n /\ q[p[i]] \in 1 .. n
  BY <1>2, <1>3 DEF Permutes
<1>5. qp \in [1 .. n -> 1 .. n]
  BY <1>4
<1>6. ASSUME NEW i \in 1 .. n, NEW j \in 1 .. n, qp[i] = qp[j] PROVE i = j
  <2>1. q[p[i]] = q[p[j]]
    BY <1>6
  <2>2. p[i] = p[j]
    BY <1>2, <1>4, <2>1 DEF Permutes
  <2> QED
    BY <1>3, <2>2 DEF Permutes
<1>7. Permutes(qp, n)
  BY <1>1, <1>5, <1>6, InjectionPermutes
<1>8. \A i \in 1 .. n : u[i] = t[p[i]] /\ t[p[i]] = s[q[p[i]]]
  BY <1>2, <1>3, <1>4
<1>9. u = [i \in 1 .. n |-> s[qp[i]]]
  BY <1>3, <1>8
<1> QED
  BY <1>7, <1>9 DEF Shuffle, n

\* A sequence that is sorted is shuffled.
LEMMA ArrangedShuffles ==
  ASSUME NEW S, NEW s \in Seq(S), NEW R, StrictOrder(R, Len(s))
  PROVE  Shuffle(s, Arranged(s, R))
<1> DEFINE n == Len(s)
<1>1. n \in Nat /\ s \in [1 .. n -> S]
  OBVIOUS
<1>2. StrictOrder(R, n)
  OBVIOUS
<1> HIDE DEF n
<1>3. Permutes(Ranked(n, R), n)
  BY <1>1, <1>2, RankedIsOrder
<1>4. Arranged(s, R) = [i \in 1 .. n |-> s[Ranked(n, R)[i]]]
  BY DEF Arranged, n
<1> QED
  BY <1>3, <1>4 DEF Shuffle, n

\* In a split, no element is at two places.
LEMMA SplitOnce ==
  ASSUME NEW k, NEW S, NEW ss, Split(ss, k, S), NEW i \in 1 .. k, NEW j \in 1 .. k,
         NEW m \in 1 .. Len(ss[i]), NEW n \in 1 .. Len(ss[j]), ss[i][m] = ss[j][n]
  PROVE  i = j /\ m = n
<1>1. \A a, b \in 1 .. k : \A o \in 1 .. Len(ss[a]), p \in 1 .. Len(ss[b]) :
          ss[a][o] = ss[b][p] => a = b /\ o = p
  BY DEF Split
<1> QED
  BY <1>1

\* Each list may be shuffled, and the lists among each other.
LEMMA ListsShuffled ==
  ASSUME NEW k \in Nat, NEW S, NEW ss, Split(ss, k, S),
         NEW tt, tt = [i \in 1 .. k |-> tt[i]], \A i \in 1 .. k : Shuffle(ss[i], tt[i])
  PROVE  Split(tt, k, S)
<1>1. \A i \in 1 .. k : ss[i] \in Seq(S)
  BY DEF Split
<1>2. \A i \in 1 .. k : tt[i] \in Seq(S) /\ Len(tt[i]) = Len(ss[i])
  BY <1>1, ShuffleKeeps
<1>3. tt \in [1 .. k -> Seq(S)]
  BY <1>2
<1>4. ASSUME NEW i \in 1 .. k
      PROVE  \E q : Permutes(q, Len(ss[i])) /\ tt[i] = [m \in 1 .. Len(ss[i]) |-> ss[i][q[m]]]
  BY DEF Shuffle
<1>5. ASSUME NEW i \in 1 .. k, NEW j \in 1 .. k,
             NEW m \in 1 .. Len(tt[i]), NEW n \in 1 .. Len(tt[j]), tt[i][m] = tt[j][n]
      PROVE  i = j /\ m = n
  <2>1. PICK q : Permutes(q, Len(ss[i])) /\ tt[i] = [o \in 1 .. Len(ss[i]) |-> ss[i][q[o]]]
    BY <1>4
  <2>2. PICK p : Permutes(p, Len(ss[j])) /\ tt[j] = [o \in 1 .. Len(ss[j]) |-> ss[j][p[o]]]
    BY <1>4
  <2>3. /\ m \in 1 .. Len(ss[i]) /\ q[m] \in 1 .. Len(ss[i])
        /\ n \in 1 .. Len(ss[j]) /\ p[n] \in 1 .. Len(ss[j])
    BY <1>2, <2>1, <2>2 DEF Permutes
  <2>4. ss[i][q[m]] = ss[j][p[n]]
    BY <1>5, <2>1, <2>2, <2>3
  <2> DEFINE a == q[m]
             b == p[n]
  <2>9. a \in 1 .. Len(ss[i]) /\ b \in 1 .. Len(ss[j]) /\ ss[i][a] = ss[j][b]
    BY <2>3, <2>4
  <2> HIDE DEF a, b
  <2>5. i = j /\ a = b
    BY <2>9, SplitOnce, SMTT(30)
  <2>6. tt[i][m] = tt[i][n] /\ n \in 1 .. Len(ss[i])
    BY <1>5, <2>3, <2>5
  <2>7. q[n] \in 1 .. Len(ss[i]) /\ ss[i][q[m]] = ss[i][q[n]]
    BY <2>1, <2>3, <2>6 DEF Permutes
  <2> DEFINE c == q[n]
  <2> HIDE DEF c
  <2>8. a = c
    BY <2>3, <2>7, SplitOnce DEF a, c
  <2> QED
    BY <2>1, <2>3, <2>5, <2>6, <2>8 DEF Permutes, a, c
<1>6. ASSUME NEW x \in S PROVE \E i \in 1 .. k : \E m \in 1 .. Len(tt[i]) : tt[i][m] = x
  <2>1. PICK i \in 1 .. k : \E m \in 1 .. Len(ss[i]) : ss[i][m] = x
    BY DEF Split
  <2>2. PICK m \in 1 .. Len(ss[i]) : ss[i][m] = x
    BY <2>1
  <2>3. PICK q : Permutes(q, Len(ss[i])) /\ tt[i] = [o \in 1 .. Len(ss[i]) |-> ss[i][q[o]]]
    BY <1>4
  <2>4. PICK o \in 1 .. Len(ss[i]) : q[o] = m
    BY <2>3 DEF Permutes
  <2>5. tt[i][o] = x /\ o \in 1 .. Len(tt[i])
    BY <1>2, <2>2, <2>3, <2>4
  <2> QED
    BY <2>5
<1> QED
  BY <1>3, <1>5, <1>6 DEF Split

\* Lists in another order split the same set.
LEMMA ListsReordered ==
  ASSUME NEW k \in Nat, NEW S, NEW ss, Split(ss, k, S), NEW q, Permutes(q, k)
  PROVE  Split([i \in 1 .. k |-> ss[q[i]]], k, S)
<1> DEFINE tt == [i \in 1 .. k |-> ss[q[i]]]
<1>1. \A i \in 1 .. k : q[i] \in 1 .. k /\ tt[i] = ss[q[i]]
  BY DEF Permutes
<1>2. tt \in [1 .. k -> Seq(S)]
  BY <1>1 DEF Split
<1> HIDE DEF tt
<1>3. ASSUME NEW i \in 1 .. k, NEW j \in 1 .. k,
             NEW m \in 1 .. Len(tt[i]), NEW n \in 1 .. Len(tt[j]), tt[i][m] = tt[j][n]
      PROVE  i = j /\ m = n
  <2>1. /\ q[i] \in 1 .. k /\ q[j] \in 1 .. k
        /\ m \in 1 .. Len(ss[q[i]]) /\ n \in 1 .. Len(ss[q[j]])
        /\ ss[q[i]][m] = ss[q[j]][n]
    BY <1>1, <1>3
  <2>2. q[i] = q[j] /\ m = n
    BY <2>1, SplitOnce, SMTT(30)
  <2> QED
    BY <2>2 DEF Permutes
<1>4. ASSUME NEW x \in S PROVE \E i \in 1 .. k : \E m \in 1 .. Len(tt[i]) : tt[i][m] = x
  <2>1. PICK j \in 1 .. k : \E m \in 1 .. Len(ss[j]) : ss[j][m] = x
    BY DEF Split
  <2>2. PICK i \in 1 .. k : q[i] = j
    BY DEF Permutes
  <2>3. tt[i] = ss[j]
    BY <1>1, <2>2
  <2> QED
    BY <2>1, <2>3
<1>5. Split(tt, k, S)
  BY <1>2, <1>3, <1>4 DEF Split
<1> QED
  BY <1>5 DEF tt

\* The Sets of the last State are such lists.
LEMMA StateSplits ==
  ASSUME NEW k \in Nat, NEW U, NEW w, NEW even, NEW st, GoodHeap(U, w, k, even, {st})
  PROVE  Split([i \in 1 .. k |-> st[i].items], k, U)
<1> DEFINE ss == [i \in 1 .. k |-> st[i].items]
<1>1. st \in [1 .. k -> SetsOf(U)]
  BY DEF GoodHeap, GoodState, FairState
<1>2. \A i \in 1 .. k : ss[i] = st[i].items /\ st[i].items \in Seq(U)
  BY <1>1 DEF SetsOf
<1>3. ss \in [1 .. k -> Seq(U)]
  BY <1>2
<1> HIDE DEF ss
<1>4. ASSUME NEW i \in 1 .. k, NEW j \in 1 .. k,
             NEW m \in 1 .. Len(ss[i]), NEW n \in 1 .. Len(ss[j]), ss[i][m] = ss[j][n]
      PROVE  i = j /\ m = n
  <2>1. /\ m \in 1 .. Len(st[i].items) /\ n \in 1 .. Len(st[j].items)
        /\ st[i].items[m] = st[j].items[n]
    BY <1>2, <1>4
  <2>2. Once(k, {st}) /\ st \in {st}
    BY DEF GoodHeap
  <2> QED
    BY <2>1, <2>2 DEF Once
<1>5. ASSUME NEW x \in U PROVE \E i \in 1 .. k : \E m \in 1 .. Len(ss[i]) : ss[i][m] = x
  <2>1. PICK t \in {st} : \E i \in 1 .. k : \E m \in 1 .. Len(t[i].items) : t[i].items[m] = x
    BY DEF GoodHeap, Everywhere
  <2>2. t = st
    OBVIOUS
  <2> QED
    BY <1>2, <2>1, <2>2
<1>6. Split(ss, k, U)
  BY <1>3, <1>4, <1>5 DEF Split
<1> QED
  BY <1>6 DEF ss

------------------------------------------------------------------------------
(* One list after the other *)

Lists(S, k) == [1 .. k -> Seq(S)]

\* g[i] are the first i lists, one after the other.
Joins(ss, k, g) == g = [i \in 1 .. k |-> IF i = 1 THEN ss[i] ELSE g[i - 1] \o ss[i]]

Joined(S, k, ss, g) ==
    /\ g \in Lists(S, k)
    /\ g[1] = ss[1]
    /\ \A i \in 1 .. k : i # 1 => g[i] = g[i - 1] \o ss[i]

\* The concatenations of the first lists, 0 to all, exist as a function.
LEMMA JoinsExist ==
  ASSUME NEW S, NEW k \in Nat, NEW ss \in Lists(S, k)
  PROVE  \E g : Joins(ss, k, g)
<1> DEFINE T == {n \in Nat : \E g : Joins(ss, n, g)}
<1>1. 0 \in T
  <2>1. Joins(ss, 0, [i \in 1 .. 0 |-> 0])
    BY DEF Joins
  <2> QED
    BY <2>1
<1>2. ASSUME NEW n \in Nat, n \in T PROVE n + 1 \in T
  <2>1. PICK g : Joins(ss, n, g)
    BY <1>2
  <2> DEFINE h == [i \in 1 .. n + 1 |->
                      IF i = n + 1
                      THEN IF i = 1 THEN ss[i] ELSE g[n] \o ss[i]
                      ELSE g[i]]
  <2>2. ASSUME NEW i \in 1 .. n + 1
        PROVE  h[i] = IF i = 1 THEN ss[i] ELSE h[i - 1] \o ss[i]
    <3>1. CASE i = n + 1 /\ i = 1
      BY <3>1
    <3>2. CASE i = n + 1 /\ i # 1
      <4>1. i - 1 = n /\ n \in 1 .. n + 1 /\ n # n + 1
        BY <3>2
      <4>2. h[n] = g[n] /\ h[i] = g[n] \o ss[i]
        BY <3>2, <4>1
      <4> QED
        BY <3>2, <4>1, <4>2
    <3>3. CASE i # n + 1
      <4>1. i \in 1 .. n /\ h[i] = g[i]
        BY <3>3
      <4>2. g[i] = IF i = 1 THEN ss[i] ELSE g[i - 1] \o ss[i]
        BY <2>1, <4>1 DEF Joins
      <4>3. i # 1 => i - 1 \in 1 .. n + 1 /\ i - 1 # n + 1 /\ h[i - 1] = g[i - 1]
        BY <4>1
      <4> HIDE DEF h
      <4> QED
        BY <4>1, <4>2, <4>3
    <3> QED
      BY <3>1, <3>2, <3>3
  <2>3. h = [i \in 1 .. n + 1 |-> h[i]]
    OBVIOUS
  <2> HIDE DEF h
  <2>4. Joins(ss, n + 1, h)
    BY <2>2, <2>3 DEF Joins
  <2> QED
    BY <2>4
<1> HIDE DEF T
<1>3. k \in T
  BY <1>1, <1>2, Induction
<1> QED
  BY <1>3 DEF T

\* FlattenSeq is the last of them.
LEMMA FlattenJoins ==
  ASSUME NEW S, NEW k \in Nat \ {0}, NEW ss \in Lists(S, k)
  PROVE  \E g : Joined(S, k, ss, g) /\ FlattenSeq(ss) = g[k]
<1> DEFINE g == CHOOSE f : f = [i \in 1 .. k |-> IF i = 1 THEN ss[i] ELSE f[i - 1] \o ss[i]]
<1>1. Len(ss) = k /\ \A i \in 1 .. k : ss[i] \in Seq(S)
  BY FunctionIsSeq DEF Lists
<1>2. FlattenSeq(ss) = g[k]
  BY <1>1 DEF FlattenSeq
<1>3. g = [i \in 1 .. k |-> IF i = 1 THEN ss[i] ELSE g[i - 1] \o ss[i]]
  <2>1. \E f : Joins(ss, k, f)
    BY JoinsExist
  <2>2. \E f : f = [i \in 1 .. k |-> IF i = 1 THEN ss[i] ELSE f[i - 1] \o ss[i]]
    BY <2>1 DEF Joins
  <2> QED
    BY <2>2
<1> HIDE DEF g
<1>4. 1 \in 1 .. k
  OBVIOUS
<1>5. g[1] = ss[1]
  BY <1>3, <1>4
<1>6. ASSUME NEW i \in 1 .. k, i # 1 PROVE g[i] = g[i - 1] \o ss[i]
  BY <1>3, <1>6
<1> DEFINE T == {n \in Nat : n + 1 \in 1 .. k => g[n + 1] \in Seq(S)}
<1>7. 0 \in T
  BY <1>1, <1>4, <1>5
<1>8. ASSUME NEW n \in Nat, n \in T PROVE n + 1 \in T
  <2> SUFFICES ASSUME n + 2 \in 1 .. k PROVE g[n + 2] \in Seq(S)
    OBVIOUS
  <2> DEFINE a == n + 2
  <2>1. a - 1 \in 1 .. k /\ g[a - 1] \in Seq(S) /\ a \in 1 .. k /\ a # 1
    <3>1. n + 1 \in 1 .. k /\ g[n + 1] \in Seq(S) /\ a - 1 = n + 1
      BY <1>8
    <3> QED
      BY <3>1
  <2> HIDE DEF a
  <2>2. g[a] = g[a - 1] \o ss[a]
    BY <1>6, <2>1
  <2>3. ss[a] \in Seq(S)
    BY <1>1, <2>1
  <2>4. g[a] \in Seq(S)
    BY <2>1, <2>2, <2>3, ConcatProperties
  <2> QED
    BY <2>4 DEF a
<1> HIDE DEF T
<1>9. Nat \subseteq T
  BY <1>7, <1>8, Induction
<1>10. ASSUME NEW i \in 1 .. k PROVE g[i] \in Seq(S)
  <2>1. i - 1 \in T
    BY <1>9
  <2> QED
    BY <2>1 DEF T
<1>11. g \in Lists(S, k)
  BY <1>3, <1>10 DEF Lists
<1> QED
  BY <1>2, <1>5, <1>6, <1>11 DEF Joined

\* Where the elements of the lists are: off[j] are those of the first j lists.
Offsets(ss, k, off) ==
    /\ off \in [0 .. k -> Nat]
    /\ off[0] = 0
    /\ \A j \in 1 .. k : off[j] = off[j - 1] + Len(ss[j])

Places(ss, n, off, s) ==
    /\ Len(s) = off[n]
    /\ \A j \in 1 .. n : \A m \in 1 .. Len(ss[j]) :
          off[j - 1] + m \in 1 .. off[n] /\ s[off[j - 1] + m] = ss[j][m]
    /\ \A p \in 1 .. off[n] : \E j \in 1 .. n : \E m \in 1 .. Len(ss[j]) : p = off[j - 1] + m

\* Their lengths are the offsets at which the lists begin.
LEMMA OffsetsExist ==
  ASSUME NEW S, NEW k \in Nat \ {0}, NEW ss \in Lists(S, k),
         NEW g, Joined(S, k, ss, g)
  PROVE  Offsets(ss, k, [j \in 0 .. k |-> IF j = 0 THEN 0 ELSE Len(g[j])])
<1> DEFINE off == [j \in 0 .. k |-> IF j = 0 THEN 0 ELSE Len(g[j])]
<1>1. \A j \in 1 .. k : g[j] \in Seq(S) /\ ss[j] \in Seq(S) /\ Len(g[j]) \in Nat
  BY DEF Lists, Joined
<1>2. off \in [0 .. k -> Nat] /\ off[0] = 0
  BY <1>1
<1>3. ASSUME NEW j \in 1 .. k PROVE off[j] = off[j - 1] + Len(ss[j])
  <2>1. off[j] = Len(g[j]) /\ Len(ss[j]) \in Nat
    BY <1>1
  <2>2. CASE j = 1
    <3>1. off[j - 1] = 0 /\ g[j] = ss[j]
      BY <2>2 DEF Joined
    <3> QED
      BY <2>1, <3>1
  <2>3. CASE j # 1
    <3>1. j - 1 \in 1 .. k /\ g[j] = g[j - 1] \o ss[j]
      <4> HIDE DEF off
      <4>1. j - 1 \in 1 .. k
        BY <2>3
      <4>2. g[j] = g[j - 1] \o ss[j]
        BY <2>3 DEF Joined
      <4> QED
        BY <4>1, <4>2
    <3>2. off[j - 1] = Len(g[j - 1])
      BY <3>1
    <3> HIDE DEF off
    <3>3. Len(g[j]) = Len(g[j - 1]) + Len(ss[j])
      BY <1>1, <3>1, ConcatProperties
    <3> QED
      BY <2>1, <3>2, <3>3
  <2> QED
    BY <2>2, <2>3
<1> QED
  BY <1>2, <1>3 DEF Offsets

\* Element m of list i is at the offset of list i plus m in the flattened list,
\* and every place of the flattened list is one of these.
LEMMA FlattenPlaces ==
  ASSUME NEW S, NEW k \in Nat \ {0}, NEW ss \in Lists(S, k)
  PROVE  /\ FlattenSeq(ss) \in Seq(S)
         /\ \E off : Offsets(ss, k, off) /\ Places(ss, k, off, FlattenSeq(ss))
<1>0. PICK g : Joined(S, k, ss, g) /\ FlattenSeq(ss) = g[k]
  BY FlattenJoins
<1>1. /\ g \in Lists(S, k)
      /\ g[1] = ss[1]
      /\ \A i \in 1 .. k : i # 1 => g[i] = g[i - 1] \o ss[i]
  BY <1>0 DEF Joined
<1> DEFINE off == [j \in 0 .. k |-> IF j = 0 THEN 0 ELSE Len(g[j])]
<1>2. Offsets(ss, k, off)
  BY <1>0, OffsetsExist
<1>3. \A j \in 1 .. k : /\ g[j] \in Seq(S) /\ ss[j] \in Seq(S)
                        /\ Len(ss[j]) \in Nat /\ off[j] = Len(g[j])
                        /\ off[j] \in Nat /\ off[j - 1] \in Nat
                        /\ off[j] = off[j - 1] + Len(ss[j])
  <2> TAKE j \in 1 .. k
  <2>1. g[j] \in Seq(S) /\ ss[j] \in Seq(S)
    BY <1>1 DEF Lists
  <2>2. j \in 0 .. k /\ j - 1 \in 0 .. k /\ j # 0
    OBVIOUS
  <2>3. off[j] = Len(g[j])
    BY <2>2
  <2> HIDE DEF off
  <2>4. off[j] \in Nat /\ off[j - 1] \in Nat /\ off[j] = off[j - 1] + Len(ss[j])
    BY <1>2, <2>2 DEF Offsets
  <2> QED
    BY <2>1, <2>3, <2>4
<1>4. off[0] = 0 /\ 1 \in 1 .. k
  OBVIOUS
<1> HIDE DEF off
<1> DEFINE T == {n \in Nat : n + 1 \in 1 .. k => Places(ss, n + 1, off, g[n + 1])}
<1>5. 0 \in T
  <2>1. off[1] = Len(ss[1]) /\ g[1] = ss[1] /\ off[1] \in Nat /\ Len(g[1]) = off[1]
    BY <1>1, <1>3, <1>4
  <2>2. ASSUME NEW j \in 1 .. 1, NEW m \in 1 .. Len(ss[j])
        PROVE  off[j - 1] + m \in 1 .. off[1] /\ g[1][off[j - 1] + m] = ss[j][m]
    <3>1. j = 1 /\ off[j - 1] = 0 /\ m \in 1 .. Len(ss[1])
      BY <1>4
    <3> QED
      BY <2>1, <3>1
  <2>3. ASSUME NEW p \in 1 .. off[1]
        PROVE  \E j \in 1 .. 1 : \E m \in 1 .. Len(ss[j]) : p = off[j - 1] + m
    <3>1. p \in 1 .. Len(ss[1]) /\ p = off[1 - 1] + p
      BY <1>4, <2>1
    <3> QED
      BY <3>1
  <2>4. Places(ss, 1, off, g[1])
    BY <2>1, <2>2, <2>3 DEF Places
  <2> QED
    BY <2>4
<1>6. ASSUME NEW n \in Nat, n \in T PROVE n + 1 \in T
  <2> SUFFICES ASSUME n + 2 \in 1 .. k PROVE Places(ss, n + 2, off, g[n + 2])
    OBVIOUS
  <2> DEFINE a == n + 1
             b == n + 2
  <2>1. a \in 1 .. k /\ b \in 1 .. k /\ b - 1 = a /\ b # 1 /\ 1 .. b = (1 .. a) \union {b}
    OBVIOUS
  <2>2. Places(ss, a, off, g[a])
    BY <1>6, <2>1
  <2> HIDE DEF a, b
  <2>3. g[b] = g[a] \o ss[b] /\ off[b] = off[a] + Len(ss[b]) /\ Len(g[b]) = off[b]
    BY <1>1, <1>3, <2>1
  <2>4. /\ g[a] \in Seq(S) /\ ss[b] \in Seq(S)
        /\ off[a] \in Nat /\ off[b] \in Nat /\ Len(ss[b]) \in Nat /\ off[a] = Len(g[a])
    BY <1>3, <2>1
  <2>9. /\ off[a] \in Nat /\ off[b] \in Nat /\ Len(ss[b]) \in Nat
        /\ off[b] = off[a] + Len(ss[b])
    BY <2>3, <2>4
  <2>5. \A i \in 1 .. Len(g[a]) + Len(ss[b]) :
           g[b][i] = IF i <= Len(g[a]) THEN g[a][i] ELSE ss[b][i - Len(g[a])]
    BY <2>3, <2>4, ConcatProperties
  <2>6. ASSUME NEW j \in 1 .. b, NEW m \in 1 .. Len(ss[j])
        PROVE  off[j - 1] + m \in 1 .. off[b] /\ g[b][off[j - 1] + m] = ss[j][m]
    <3>1. CASE j = b
      <4>1. m \in 1 .. Len(ss[b]) /\ off[j - 1] = off[a]
        BY <2>1, <3>1
      <4>2. off[a] + m \in 1 .. off[b] /\ ~ (off[a] + m <= off[a]) /\ (off[a] + m) - off[a] = m
        BY <2>9, <4>1, SMTT(30)
      <4>3. g[b][off[a] + m] = ss[b][m]
        BY <2>3, <2>4, <2>5, <4>2
      <4> QED
        BY <3>1, <4>1, <4>2, <4>3
    <3>2. CASE j \in 1 .. a
      <4> DEFINE p == off[j - 1] + m
      <4>1. p \in 1 .. off[a] /\ g[a][p] = ss[j][m]
        BY <2>2, <3>2 DEF Places
      <4> HIDE DEF p
      <4>2. p \in 1 .. off[b] /\ p <= off[a]
        BY <2>9, <4>1
      <4>3. g[b][p] = g[a][p]
        BY <2>4, <2>5, <2>9, <4>2
      <4> QED
        BY <4>1, <4>2, <4>3 DEF p
    <3> QED
      BY <2>1, <3>1, <3>2
  <2>7. ASSUME NEW p \in 1 .. off[b]
        PROVE  \E j \in 1 .. b : \E m \in 1 .. Len(ss[j]) : p = off[j - 1] + m
    <3>1. CASE p <= off[a]
      <4>1. \E j \in 1 .. a : \E m \in 1 .. Len(ss[j]) : p = off[j - 1] + m
        BY <2>2, <2>4, <3>1 DEF Places
      <4> QED
        BY <2>1, <4>1
    <3>2. CASE off[a] < p
      <4>1. p - off[a] \in 1 .. Len(ss[b]) /\ p = off[b - 1] + (p - off[a])
        BY <2>1, <2>9, <3>2
      <4>2. b \in 1 .. b
        BY <2>1
      <4> QED
        BY <4>1, <4>2
    <3> QED
      BY <2>4, <3>1, <3>2
  <2>8. Places(ss, b, off, g[b])
    BY <2>3, <2>6, <2>7 DEF Places
  <2> QED
    BY <2>8 DEF b
<1> HIDE DEF T
<1>7. k - 1 \in T
  <2>1. k - 1 \in Nat
    OBVIOUS
  <2> QED
    BY <1>5, <1>6, <2>1, Induction
<1>8. Places(ss, k, off, g[k])
  BY <1>7 DEF T
<1>9. g[k] \in Seq(S)
  BY <1>1 DEF Lists
<1> QED
  BY <1>0, <1>2, <1>8, <1>9

Pairs(f, l, n) ==
    /\ f \in [1 .. l -> 1 .. n]
    /\ \A i, j \in 1 .. l : f[i] = f[j] => i = j
    /\ \A x \in 1 .. n : \E i \in 1 .. l : f[i] = x

LEMMA SameLength ==
  ASSUME NEW l \in Nat, NEW n \in Nat, NEW f, Pairs(f, l, n)
  PROVE  l = n
<1> DEFINE A == 1 .. l
           B == 1 .. n
<1>1. f \in Bijection(A, B)
  BY Fun_IsBij DEF Pairs
<1>2. IsFiniteSet(A) /\ Cardinality(A) = l /\ Cardinality(B) = n
  BY FS_Interval
<1> HIDE DEF A, B
<1>3. ExistsBijection(A, B)
  BY <1>1 DEF ExistsBijection
<1>4. Cardinality(B) = Cardinality(A)
  BY <1>2, <1>3, FS_Bijection
<1> QED
  BY <1>2, <1>4

\* One after the other, the lists are the elements in some order.
LEMMA FlattenPermutes ==
  ASSUME NEW k \in Nat \ {0}, NEW n \in Nat, NEW ss, Split(ss, k, 1 .. n)
  PROVE  Permutes(FlattenSeq(ss), n)
<1> DEFINE F == FlattenSeq(ss)
           U == 1 .. n
           l == Len(F)
<1>1. ss \in Lists(U, k)
  BY DEF Split, Lists
<1> HIDE DEF U
<1>2. F \in Seq(U) /\ \E off : Offsets(ss, k, off) /\ Places(ss, k, off, F)
  BY <1>1, FlattenPlaces
<1>3. PICK off : Offsets(ss, k, off) /\ Places(ss, k, off, F)
  BY <1>2
<1> HIDE DEF F
<1>4. l \in Nat /\ F \in [1 .. l -> U] /\ l = off[k]
  BY <1>2, <1>3 DEF Places
<1> HIDE DEF l
<1>5. ASSUME NEW j \in 1 .. k, NEW m \in 1 .. Len(ss[j])
      PROVE  off[j - 1] + m \in 1 .. l /\ F[off[j - 1] + m] = ss[j][m]
  BY <1>3, <1>4 DEF Places
<1>6. ASSUME NEW p \in 1 .. l
      PROVE  \E j \in 1 .. k : \E m \in 1 .. Len(ss[j]) : p = off[j - 1] + m
  BY <1>3, <1>4 DEF Places
<1>7. ASSUME NEW p \in 1 .. l, NEW q \in 1 .. l, F[p] = F[q] PROVE p = q
  <2>1. PICK i \in 1 .. k : \E m \in 1 .. Len(ss[i]) : p = off[i - 1] + m
    BY <1>6
  <2>2. PICK m \in 1 .. Len(ss[i]) : p = off[i - 1] + m
    BY <2>1
  <2>3. PICK j \in 1 .. k : \E o \in 1 .. Len(ss[j]) : q = off[j - 1] + o
    BY <1>6
  <2>4. PICK o \in 1 .. Len(ss[j]) : q = off[j - 1] + o
    BY <2>3
  <2>5. ss[i][m] = ss[j][o]
    BY <1>5, <1>7, <2>2, <2>4
  <2>6. i = j /\ m = o
    BY <2>5, SplitOnce, SMTT(30) DEF U
  <2> QED
    BY <2>2, <2>4, <2>6
<1>8. ASSUME NEW x \in U PROVE \E p \in 1 .. l : F[p] = x
  <2>1. PICK j \in 1 .. k : \E m \in 1 .. Len(ss[j]) : ss[j][m] = x
    BY DEF Split, U
  <2>2. PICK m \in 1 .. Len(ss[j]) : ss[j][m] = x
    BY <2>1
  <2> QED
    BY <1>5, <2>2
<1>9. l = n
  <2>1. F \in [1 .. l -> 1 .. n]
    BY <1>4 DEF U
  <2>2. \A x \in 1 .. n : \E p \in 1 .. l : F[p] = x
    BY <1>8 DEF U
  <2>3. \A i, j \in 1 .. l : F[i] = F[j] => i = j
    BY <1>7
  <2>4. l \in Nat
    BY <1>4
  <2>5. Pairs(F, l, n)
    BY <2>1, <2>2, <2>3 DEF Pairs
  <2> QED
    BY <2>4, <2>5, SameLength
<1> QED
  BY <1>4, <1>7, <1>8, <1>9 DEF Permutes, F, U

\* t is s with f applied to every element.
Maps(f, s, t) == Len(t) = Len(s) /\ \A p \in 1 .. Len(s) : t[p] = f[s[p]]

LEMMA ConcatMaps ==
  ASSUME NEW S, NEW V, NEW f, NEW a \in Seq(S), NEW b \in Seq(S),
         NEW c \in Seq(V), NEW d \in Seq(V), Maps(f, a, c), Maps(f, b, d)
  PROVE  Maps(f, a \o b, c \o d)
<1>1. /\ Len(a) \in Nat /\ Len(b) \in Nat
      /\ Len(c) = Len(a) /\ Len(d) = Len(b)
      /\ Len(a \o b) = Len(a) + Len(b) /\ Len(c \o d) = Len(a) + Len(b)
  BY ConcatProperties DEF Maps
<1>2. ASSUME NEW p \in 1 .. Len(a) + Len(b)
      PROVE  (c \o d)[p] = f[(a \o b)[p]]
  <2>1. CASE p <= Len(a)
    <3>1. (a \o b)[p] = a[p] /\ (c \o d)[p] = c[p] /\ p \in 1 .. Len(a)
      BY <1>1, <2>1, ConcatProperties
    <3> QED
      BY <3>1 DEF Maps
  <2>2. CASE Len(a) < p
    <3> DEFINE q == p - Len(a)
    <3>1. q \in 1 .. Len(b)
      BY <1>1, <2>2
    <3>2. (a \o b)[p] = b[q] /\ (c \o d)[p] = d[q]
      BY <1>1, <2>2, ConcatProperties
    <3> HIDE DEF q
    <3> QED
      BY <3>1, <3>2 DEF Maps
  <2> QED
    BY <1>1, <2>1, <2>2
<1> QED
  BY <1>1, <1>2 DEF Maps

\* Mapping the elements of the lists and then flattening is flattening first.
LEMMA FlattenMaps ==
  ASSUME NEW S, NEW V, NEW k \in Nat \ {0}, NEW ss \in Lists(S, k), NEW tt \in Lists(V, k),
         NEW f, \A j \in 1 .. k : Maps(f, ss[j], tt[j])
  PROVE  Maps(f, FlattenSeq(ss), FlattenSeq(tt))
<1>1. PICK g : Joined(S, k, ss, g) /\ FlattenSeq(ss) = g[k]
  BY FlattenJoins
<1>2. PICK h : Joined(V, k, tt, h) /\ FlattenSeq(tt) = h[k]
  BY FlattenJoins
<1> DEFINE T == {n \in Nat : n + 1 \in 1 .. k => Maps(f, g[n + 1], h[n + 1])}
<1>3. 0 \in T
  <2>1. 1 \in 1 .. k
    OBVIOUS
  <2>2. Maps(f, g[1], h[1])
    BY <1>1, <1>2, <2>1 DEF Joined
  <2> QED
    BY <2>2
<1>4. ASSUME NEW n \in Nat, n \in T PROVE n + 1 \in T
  <2> SUFFICES ASSUME n + 2 \in 1 .. k PROVE Maps(f, g[n + 2], h[n + 2])
    OBVIOUS
  <2> DEFINE a == n + 2
  <2>1. a - 1 \in 1 .. k /\ Maps(f, g[a - 1], h[a - 1]) /\ a \in 1 .. k /\ a # 1
    <3>1. n + 1 \in 1 .. k /\ Maps(f, g[n + 1], h[n + 1]) /\ a - 1 = n + 1
      BY <1>4
    <3> QED
      BY <3>1
  <2> HIDE DEF a
  <2>2. g[a] = g[a - 1] \o ss[a] /\ h[a] = h[a - 1] \o tt[a]
    BY <1>1, <1>2, <2>1 DEF Joined
  <2>3. /\ g[a - 1] \in Seq(S) /\ ss[a] \in Seq(S)
        /\ h[a - 1] \in Seq(V) /\ tt[a] \in Seq(V)
    BY <1>1, <1>2, <2>1 DEF Joined, Lists
  <2>4. Maps(f, ss[a], tt[a])
    BY <2>1
  <2>5. Maps(f, g[a], h[a])
    BY <2>1, <2>2, <2>3, <2>4, ConcatMaps
  <2> QED
    BY <2>5 DEF a
<1> HIDE DEF T
<1>5. k - 1 \in T
  <2>1. k - 1 \in Nat
    OBVIOUS
  <2> QED
    BY <1>3, <1>4, <2>1, Induction
<1>6. Maps(f, g[k], h[k])
  BY <1>5 DEF T
<1> QED
  BY <1>1, <1>2, <1>6

\* The lists ss are the rows of o, c elements each.
InRows(S, k, c, ss, o) ==
    /\ ss \in Lists(S, k)
    /\ o \in [1 .. k * c -> S]
    /\ \A j \in 1 .. k : /\ Len(ss[j]) = c
                         /\ \A m \in 1 .. c : ss[j][m] = o[(j - 1) * c + m]

\* Of lists of one length, flattening puts element i of list r at (r - 1) * length + i.
LEMMA FlattenRows ==
  ASSUME NEW S, NEW k \in Nat \ {0}, NEW c \in Nat \ {0}, NEW ss, NEW o,
         InRows(S, k, c, ss, o)
  PROVE  FlattenSeq(ss) = o
<1> DEFINE F == FlattenSeq(ss)
           n == k * c
<1>10. /\ ss \in Lists(S, k) /\ n \in Nat /\ n = k * c /\ o \in [1 .. n -> S]
       /\ \A j \in 1 .. k : /\ Len(ss[j]) = c
                            /\ \A m \in 1 .. c : ss[j][m] = o[(j - 1) * c + m]
  BY DEF InRows
<1> HIDE DEF n
<1>1. F \in Seq(S) /\ \E off : Offsets(ss, k, off) /\ Places(ss, k, off, F)
  BY <1>10, FlattenPlaces
<1> HIDE DEF F
<1>2. PICK off : Offsets(ss, k, off) /\ Places(ss, k, off, F)
  BY <1>1
<1> DEFINE T == {l \in Nat : l \in 0 .. k => off[l] = l * c}
<1>3. 0 \in T
  BY <1>2 DEF Offsets
<1>4. ASSUME NEW l \in Nat, l \in T PROVE l + 1 \in T
  <2> SUFFICES ASSUME l + 1 \in 1 .. k PROVE off[l + 1] = (l + 1) * c
    OBVIOUS
  <2>1. off[l] = l * c
    BY <1>4
  <2>2. (l + 1) * c = l * c + c
    OBVIOUS
  <2> DEFINE a == l + 1
  <2>3. a - 1 = l /\ a \in 1 .. k
    OBVIOUS
  <2> HIDE DEF a
  <2>4. off[a] = off[l] + Len(ss[a]) /\ Len(ss[a]) = c
    BY <1>2, <1>10, <2>3 DEF Offsets
  <2> QED
    BY <2>1, <2>2, <2>4 DEF a
<1> HIDE DEF T
<1>5. Nat \subseteq T
  BY <1>3, <1>4, Induction
<1>6. ASSUME NEW l \in 0 .. k PROVE off[l] = l * c
  BY <1>5 DEF T
<1>7. Len(F) = n
  BY <1>2, <1>6, <1>10 DEF Places
<1>8. ASSUME NEW p \in 1 .. n PROVE F[p] = o[p]
  <2>1. off[k] = n
    BY <1>6, <1>10
  <2>2. PICK j \in 1 .. k : \E m \in 1 .. Len(ss[j]) : p = off[j - 1] + m
    BY <1>2, <2>1 DEF Places
  <2>3. PICK m \in 1 .. Len(ss[j]) : p = off[j - 1] + m
    BY <2>2
  <2>4. F[p] = ss[j][m]
    BY <1>2, <2>3 DEF Places
  <2>5. off[j - 1] = (j - 1) * c
    BY <1>6
  <2>6. ss[j][m] = o[(j - 1) * c + m]
    BY <1>10, <2>3
  <2> QED
    BY <2>3, <2>4, <2>5, <2>6
<1>9. F = [p \in 1 .. n |-> F[p]] /\ o = [p \in 1 .. n |-> o[p]]
  <2>1. F \in [1 .. Len(F) -> S]
    BY <1>1
  <2> QED
    BY <1>7, <1>10, <2>1
<1> QED
  BY <1>8, <1>9 DEF F

------------------------------------------------------------------------------
(* Orders by a key, and what the code does to a sorted list *)

\* An order by a key, ties by another that no two share.
LEMMA KeyOrder ==
  ASSUME NEW n \in Nat, NEW key, NEW tie, NEW R,
         \A i \in 1 .. n : key[i] \in Nat /\ tie[i] \in Nat,
         \A i, j \in 1 .. n : tie[i] = tie[j] => i = j,
         \A i, j \in 1 .. n :
            <<i, j>> \in R <=> key[i] < key[j] \/ (key[i] = key[j] /\ tie[i] < tie[j])
  PROVE  StrictOrder(R, n)
<1>1. \A i \in 1 .. n : <<i, i>> \notin R
  OBVIOUS
<1>2. ASSUME NEW i \in 1 .. n, NEW j \in 1 .. n, NEW l \in 1 .. n,
             <<i, j>> \in R, <<j, l>> \in R
      PROVE  <<i, l>> \in R
  <2>1. key[i] < key[j] \/ (key[i] = key[j] /\ tie[i] < tie[j])
    BY <1>2
  <2>2. key[j] < key[l] \/ (key[j] = key[l] /\ tie[j] < tie[l])
    BY <1>2
  <2>3. key[i] < key[l] \/ (key[i] = key[l] /\ tie[i] < tie[l])
    BY <2>1, <2>2
  <2> QED
    BY <2>3
<1>3. ASSUME NEW i \in 1 .. n, NEW j \in 1 .. n, i # j
      PROVE  <<i, j>> \in R \/ <<j, i>> \in R
  <2>1. tie[i] # tie[j]
    BY <1>3
  <2>2. \/ key[i] < key[j] \/ (key[i] = key[j] /\ tie[i] < tie[j])
        \/ key[j] < key[i] \/ (key[j] = key[i] /\ tie[j] < tie[i])
    BY <2>1
  <2> QED
    BY <2>2
<1> QED
  BY <1>1, <1>2, <1>3 DEF StrictOrder

LEMMA KeyOrderDown ==
  ASSUME NEW n \in Nat, NEW key, NEW tie, NEW R,
         \A i \in 1 .. n : key[i] \in Nat /\ tie[i] \in Nat,
         \A i, j \in 1 .. n : tie[i] = tie[j] => i = j,
         \A i, j \in 1 .. n :
            <<i, j>> \in R <=> key[i] > key[j] \/ (key[i] = key[j] /\ tie[i] > tie[j])
  PROVE  StrictOrder(R, n)
<1>1. \A i \in 1 .. n : <<i, i>> \notin R
  OBVIOUS
<1>2. ASSUME NEW i \in 1 .. n, NEW j \in 1 .. n, NEW l \in 1 .. n,
             <<i, j>> \in R, <<j, l>> \in R
      PROVE  <<i, l>> \in R
  <2>1. key[i] > key[j] \/ (key[i] = key[j] /\ tie[i] > tie[j])
    BY <1>2
  <2>2. key[j] > key[l] \/ (key[j] = key[l] /\ tie[j] > tie[l])
    BY <1>2
  <2>3. key[i] > key[l] \/ (key[i] = key[l] /\ tie[i] > tie[l])
    BY <2>1, <2>2
  <2> QED
    BY <2>3
<1>3. ASSUME NEW i \in 1 .. n, NEW j \in 1 .. n, i # j
      PROVE  <<i, j>> \in R \/ <<j, i>> \in R
  <2>1. tie[i] # tie[j]
    BY <1>3
  <2>2. \/ key[i] > key[j] \/ (key[i] = key[j] /\ tie[i] > tie[j])
        \/ key[j] > key[i] \/ (key[j] = key[i] /\ tie[j] > tie[i])
    BY <2>1
  <2> QED
    BY <2>2
<1> QED
  BY <1>1, <1>2, <1>3 DEF StrictOrder

\* s[::2] and s[1::2], of which one is reversed.
LEMMA HalvesAre ==
  ASSUME NEW S, NEW s \in Seq(S)
  PROVE  /\ Evens(s) \in Seq(S) /\ Len(Evens(s)) = (Len(s) + 1) \div 2
         /\ Odds(s) \in Seq(S) /\ Len(Odds(s)) = Len(s) \div 2
         /\ \A i \in 1 .. (Len(s) + 1) \div 2 : Evens(s)[i] = s[2 * i - 1]
         /\ \A i \in 1 .. Len(s) \div 2 : Odds(s)[i] = s[2 * i]
<1> DEFINE n == Len(s)
           h == (n + 1) \div 2
           d == n \div 2
<1>1. n \in Nat /\ h \in Nat /\ d \in Nat /\ s \in [1 .. n -> S]
  OBVIOUS
<1>2. \A i \in 1 .. h : 2 * i - 1 \in 1 .. n
  BY <1>1
<1>3. \A i \in 1 .. d : 2 * i \in 1 .. n
  BY <1>1
<1>4. Evens(s) = [i \in 1 .. h |-> s[2 * i - 1]] /\ Odds(s) = [i \in 1 .. d |-> s[2 * i]]
  BY DEF Evens, Odds
<1> HIDE DEF n, h, d
<1>5. Evens(s) \in [1 .. h -> S] /\ Odds(s) \in [1 .. d -> S]
  BY <1>1, <1>2, <1>3, <1>4
<1>6. /\ Evens(s) \in Seq(S) /\ Len(Evens(s)) = h
      /\ Odds(s) \in Seq(S) /\ Len(Odds(s)) = d
  BY <1>1, <1>5, FunctionIsSeq
<1> QED
  BY <1>4, <1>6 DEF n, h, d

LEMMA ReverseIs ==
  ASSUME NEW S, NEW s \in Seq(S)
  PROVE  /\ Reverse(s) \in Seq(S) /\ Len(Reverse(s)) = Len(s)
         /\ \A i \in 1 .. Len(s) : Reverse(s)[i] = s[Len(s) - i + 1]
<1> DEFINE n == Len(s)
<1>1. n \in Nat /\ s \in [1 .. n -> S]
  OBVIOUS
<1>2. Reverse(s) = [i \in 1 .. n |-> s[(n - i) + 1]]
  BY DEF Reverse
<1> HIDE DEF n
<1>3. \A i \in 1 .. n : (n - i) + 1 \in 1 .. n
  BY <1>1
<1>4. Reverse(s) \in [1 .. n -> S]
  BY <1>1, <1>2, <1>3
<1>5. Reverse(s) \in Seq(S) /\ Len(Reverse(s)) = n
  BY <1>1, <1>4, FunctionIsSeq
<1> QED
  BY <1>2, <1>5 DEF n

LEMMA ConcatSecond ==
  ASSUME NEW S, NEW a \in Seq(S), NEW b \in Seq(S), NEW j \in 1 .. Len(b)
  PROVE  (a \o b)[Len(a) + j] = b[j]
<1>1. Len(a) \in Nat /\ Len(b) \in Nat
  OBVIOUS
<1> DEFINE p == Len(a) + j
<1>2. p \in 1 .. Len(a) + Len(b) /\ ~ (p <= Len(a)) /\ p - Len(a) = j
  BY <1>1
<1> HIDE DEF p
<1>3. (a \o b)[p] = b[p - Len(a)]
  BY <1>2, ConcatProperties
<1> QED
  BY <1>2, <1>3 DEF p

\* s[::2] followed by the reverse of s[1::2] moves the elements of s.
LEMMA EndsShuffle ==
  ASSUME NEW S, NEW s \in Seq(S)
  PROVE  Shuffle(s, Evens(s) \o Reverse(Odds(s)))
<1> DEFINE n == Len(s)
           h == (n + 1) \div 2
           d == n \div 2
           a == Evens(s)
           b == Reverse(Odds(s))
           q == [i \in 1 .. n |-> IF i <= h THEN 2 * i - 1 ELSE 2 * (n - i + 1)]
<1>1. n \in Nat /\ h \in Nat /\ d \in Nat /\ h + d = n /\ 2 * h - 1 <= n /\ 2 * d <= n
  OBVIOUS
<1>2. Odds(s) \in Seq(S) /\ Len(Odds(s)) = d /\ \A i \in 1 .. d : Odds(s)[i] = s[2 * i]
  BY HalvesAre
<1>3. a \in Seq(S) /\ Len(a) = h /\ \A i \in 1 .. h : a[i] = s[2 * i - 1]
  BY HalvesAre
<1> HIDE DEF h, d, a
<1>4. b \in Seq(S) /\ Len(b) = d /\ \A i \in 1 .. d : b[i] = Odds(s)[d - i + 1]
  BY <1>2, ReverseIs
<1>5. ASSUME NEW i \in 1 .. d PROVE b[i] = s[2 * (d - i + 1)]
  <2>1. d - i + 1 \in 1 .. d
    BY <1>1
  <2> HIDE DEF b
  <2> QED
    BY <1>2, <1>4, <2>1
<1> HIDE DEF b, n
<1>6. ASSUME NEW i \in 1 .. n PROVE q[i] \in 1 .. n
  BY <1>1
<1>7. ASSUME NEW i \in 1 .. n, NEW j \in 1 .. n, q[i] = q[j] PROVE i = j
  BY <1>1, <1>7
<1>8. q \in [1 .. n -> 1 .. n]
  BY <1>6
<1>9. ASSUME NEW i \in 1 .. n PROVE (a \o b)[i] = s[q[i]]
  <2>1. CASE i <= h
    <3>1. i \in 1 .. h /\ q[i] = 2 * i - 1
      BY <1>1, <2>1
    <3>2. (a \o b)[i] = a[i]
      BY <1>1, <1>3, <1>4, <2>1, ConcatProperties
    <3> HIDE DEF q
    <3> QED
      BY <1>3, <3>1, <3>2
  <2>2. CASE h < i
    <3> DEFINE j == i - h
    <3>1. j \in 1 .. d /\ d - j = n - i /\ q[i] = 2 * (n - i + 1)
      BY <1>1, <2>2
    <3>2. (a \o b)[i] = b[j]
      <4> HIDE DEF q
      <4>1. i = h + j
        BY <1>1, <2>2
      <4> HIDE DEF j
      <4>2. (a \o b)[h + j] = b[j]
        BY <1>3, <1>4, <3>1, ConcatSecond, SMTT(30)
      <4> QED
        BY <4>1, <4>2
    <3> HIDE DEF q, j
    <3> QED
      BY <1>5, <3>1, <3>2
  <2>3. i <= h \/ h < i
    BY <1>1
  <2> HIDE DEF q
  <2> QED
    BY <2>1, <2>2, <2>3
<1> HIDE DEF q
<1>10. a \o b \in Seq(S) /\ Len(a \o b) = n
  BY <1>1, <1>3, <1>4, ConcatProperties
<1>11. a \o b = [i \in 1 .. n |-> s[q[i]]]
  <2> DEFINE c == a \o b
  <2>1. c \in Seq(S) /\ Len(c) = n /\ \A i \in 1 .. n : c[i] = s[q[i]]
    BY <1>9, <1>10
  <2> HIDE DEF c
  <2>2. c = [i \in 1 .. n |-> c[i]]
    BY <2>1
  <2>3. c = [i \in 1 .. n |-> s[q[i]]]
    BY <2>1, <2>2
  <2> QED
    BY <2>3 DEF c
<1>12. Permutes(q, n)
  BY <1>1, <1>7, <1>8, InjectionPermutes
<1> QED
  BY <1>11, <1>12 DEF Shuffle, a, b, n

\* The reverse of s[::2] followed by s[1::2] moves the elements of s.
LEMMA MiddleShuffle ==
  ASSUME NEW S, NEW s \in Seq(S)
  PROVE  Shuffle(s, Reverse(Evens(s)) \o Odds(s))
<1> DEFINE n == Len(s)
           h == (n + 1) \div 2
           d == n \div 2
           a == Reverse(Evens(s))
           b == Odds(s)
           q == [i \in 1 .. n |-> IF i <= h THEN 2 * (h - i + 1) - 1 ELSE 2 * (i - h)]
<1>1. n \in Nat /\ h \in Nat /\ d \in Nat /\ h + d = n /\ 2 * h - 1 <= n /\ 2 * d <= n
  OBVIOUS
<1>2. Evens(s) \in Seq(S) /\ Len(Evens(s)) = h /\ \A i \in 1 .. h : Evens(s)[i] = s[2 * i - 1]
  BY HalvesAre
<1>3. b \in Seq(S) /\ Len(b) = d /\ \A i \in 1 .. d : b[i] = s[2 * i]
  BY HalvesAre
<1> HIDE DEF h, d, b
<1>4. a \in Seq(S) /\ Len(a) = h /\ \A i \in 1 .. h : a[i] = Evens(s)[h - i + 1]
  BY <1>2, ReverseIs
<1>5. ASSUME NEW i \in 1 .. h PROVE a[i] = s[2 * (h - i + 1) - 1]
  <2>1. h - i + 1 \in 1 .. h
    BY <1>1
  <2> HIDE DEF a
  <2> QED
    BY <1>2, <1>4, <2>1
<1> HIDE DEF a, n
<1>6. ASSUME NEW i \in 1 .. n PROVE q[i] \in 1 .. n
  BY <1>1
<1>7. ASSUME NEW i \in 1 .. n, NEW j \in 1 .. n, q[i] = q[j] PROVE i = j
  BY <1>1, <1>7
<1>8. q \in [1 .. n -> 1 .. n]
  BY <1>6
<1>9. ASSUME NEW i \in 1 .. n PROVE (a \o b)[i] = s[q[i]]
  <2>1. CASE i <= h
    <3>1. i \in 1 .. h /\ q[i] = 2 * (h - i + 1) - 1
      BY <1>1, <2>1
    <3>2. (a \o b)[i] = a[i]
      BY <1>1, <1>3, <1>4, <2>1, ConcatProperties
    <3> HIDE DEF q
    <3> QED
      BY <1>5, <3>1, <3>2
  <2>2. CASE h < i
    <3> DEFINE j == i - h
    <3>1. j \in 1 .. d /\ q[i] = 2 * j
      BY <1>1, <2>2
    <3>2. (a \o b)[i] = b[j]
      <4> HIDE DEF q
      <4>1. i = h + j
        BY <1>1, <2>2
      <4> HIDE DEF j
      <4>2. (a \o b)[h + j] = b[j]
        BY <1>3, <1>4, <3>1, ConcatSecond
      <4> QED
        BY <4>1, <4>2
    <3> HIDE DEF q, j
    <3> QED
      BY <1>3, <3>1, <3>2
  <2>3. i <= h \/ h < i
    BY <1>1
  <2> HIDE DEF q
  <2> QED
    BY <2>1, <2>2, <2>3
<1> HIDE DEF q
<1>10. a \o b \in Seq(S) /\ Len(a \o b) = n
  BY <1>1, <1>3, <1>4, ConcatProperties
<1>11. a \o b = [i \in 1 .. n |-> s[q[i]]]
  <2> DEFINE c == a \o b
  <2>1. c \in Seq(S) /\ Len(c) = n /\ \A i \in 1 .. n : c[i] = s[q[i]]
    BY <1>9, <1>10
  <2> HIDE DEF c
  <2>2. c = [i \in 1 .. n |-> c[i]]
    BY <2>1
  <2>3. c = [i \in 1 .. n |-> s[q[i]]]
    BY <2>1, <2>2
  <2> QED
    BY <2>3 DEF c
<1>12. Permutes(q, n)
  BY <1>1, <1>7, <1>8, InjectionPermutes
<1> QED
  BY <1>11, <1>12 DEF Shuffle, a, b, n

\* What Total adds up.
Sums(s, n, f) == f = [i \in 0 .. n |-> IF i = 0 THEN 0 ELSE f[i - 1] + s[i]]

\* The recursive function of Total is defined on every list of numbers.
LEMMA SumsExist ==
  ASSUME NEW s, NEW n \in Nat
  PROVE  \E f : Sums(s, n, f)
<1> DEFINE T == {l \in Nat : \E f : Sums(s, l, f)}
<1>1. 0 \in T
  <2>1. Sums(s, 0, [i \in 0 .. 0 |-> 0])
    BY DEF Sums
  <2> QED
    BY <2>1
<1>2. ASSUME NEW l \in Nat, l \in T PROVE l + 1 \in T
  <2>1. PICK f : Sums(s, l, f)
    BY <1>2
  <2> DEFINE h == [i \in 0 .. l + 1 |-> IF i = l + 1 THEN f[l] + s[i] ELSE f[i]]
  <2>2. ASSUME NEW i \in 0 .. l + 1
        PROVE  h[i] = IF i = 0 THEN 0 ELSE h[i - 1] + s[i]
    <3>1. CASE i = l + 1
      <4>1. i # 0 /\ i - 1 = l /\ h[l] = f[l] /\ h[i] = f[l] + s[i]
        BY <3>1
      <4> QED
        BY <4>1
    <3>2. CASE i # l + 1
      <4>1. i \in 0 .. l /\ h[i] = f[i]
        BY <3>2
      <4>2. f[i] = IF i = 0 THEN 0 ELSE f[i - 1] + s[i]
        BY <2>1, <4>1 DEF Sums
      <4>3. i # 0 => h[i - 1] = f[i - 1]
        BY <4>1
      <4> HIDE DEF h
      <4> QED
        BY <4>1, <4>2, <4>3
    <3> QED
      BY <3>1, <3>2
  <2>3. h = [i \in 0 .. l + 1 |-> h[i]]
    OBVIOUS
  <2> HIDE DEF h
  <2>4. Sums(s, l + 1, h)
    BY <2>2, <2>3 DEF Sums
  <2> QED
    BY <2>4
<1> HIDE DEF T
<1>3. n \in T
  BY <1>1, <1>2, Induction
<1> QED
  BY <1>3 DEF T

\* The total of a list of numbers is a number, above zero if they are.
LEMMA TotalIsNatural ==
  ASSUME NEW s \in Seq(Nat)
  PROVE  /\ Total(s) \in Nat
         /\ Len(s) # 0 /\ (\A i \in 1 .. Len(s) : s[i] # 0) => Total(s) # 0
<1> DEFINE n == Len(s)
           f == CHOOSE g : g = [i \in 0 .. n |-> IF i = 0 THEN 0 ELSE g[i - 1] + s[i]]
<1>1. Total(s) = f[n]
  BY DEF Total
<1>2. n \in Nat /\ \A i \in 1 .. n : s[i] \in Nat
  OBVIOUS
<1> HIDE DEF n
<1>3. f = [i \in 0 .. n |-> IF i = 0 THEN 0 ELSE f[i - 1] + s[i]]
  <2>1. \E g : Sums(s, n, g)
    BY <1>2, SumsExist
  <2>2. \E g : g = [i \in 0 .. n |-> IF i = 0 THEN 0 ELSE g[i - 1] + s[i]]
    BY <2>1 DEF Sums
  <2> QED
    BY <2>2
<1> HIDE DEF f
<1> DEFINE T == {l \in Nat : l \in 0 .. n => f[l] \in Nat}
<1>4. 0 \in T
  BY <1>2, <1>3
<1>5. ASSUME NEW l \in Nat, l \in T PROVE l + 1 \in T
  <2> SUFFICES ASSUME l + 1 \in 0 .. n PROVE f[l + 1] \in Nat
    OBVIOUS
  <2>1. f[l] \in Nat
    BY <1>5, <1>2
  <2> DEFINE a == l + 1
  <2>2. a \in 1 .. n /\ a - 1 = l /\ a \in 0 .. n /\ a # 0
    BY <1>2
  <2> HIDE DEF a
  <2>3. f[a] = f[a - 1] + s[a]
    BY <1>3, <2>2
  <2> QED
    BY <1>2, <2>1, <2>2, <2>3 DEF a
<1> HIDE DEF T
<1>6. Nat \subseteq T
  BY <1>4, <1>5, Induction
<1>7. \A l \in 0 .. n : f[l] \in Nat
  BY <1>2, <1>6 DEF T
<1>8. f[n] \in Nat
  BY <1>2, <1>7
<1>9. ASSUME n # 0, \A i \in 1 .. n : s[i] # 0 PROVE f[n] # 0
  <2>1. n \in 1 .. n /\ n - 1 \in 0 .. n
    BY <1>2, <1>9
  <2>2. f[n] = f[n - 1] + s[n]
    BY <1>3, <1>9, <2>1
  <2>3. f[n - 1] \in Nat /\ s[n] \in Nat /\ s[n] # 0
    BY <1>2, <1>7, <1>9, <2>1
  <2> QED
    BY <2>2, <2>3
<1> QED
  BY <1>1, <1>8, <1>9 DEF n

------------------------------------------------------------------------------
(* The inductive invariant of BatchPath *)

Loads(a) == [x \in Items(a) |-> Load(a, x)]

BatchTypes ==
    /\ lens \in Batches
    /\ divisor \in Divisors
    /\ stage \in [Actors -> {"idle", "raised", "reduce", "partition", "forward",
                             "restored", "refused", "failed", "done"}]
    /\ heap = [a \in Actors |-> heap[a]]
    /\ order \in [Samples -> Samples]
    /\ count \in [Ranks -> 0 .. PerRank]
    /\ micro \in [Ranks -> Seq(Seq(1 .. PerRank))]
    /\ outputs \in [Ranks -> Seq(Seq(Samples))]
    /\ answers \in [Ranks -> Seq(Samples)]

\* The trainer partitions before the ranks start, and no sample is dispatched
\* twice.
TrainerInv ==
    /\ stage[0] \in {"idle", "partition", "forward", "done"}
    /\ stage[0] = "partition" => GoodHeap(Items(0), Loads(0), DP, TRUE, heap[0])
    /\ stage[0] # "partition" => heap[0] = {}
    /\ stage[0] \in {"idle", "partition"} => \A r \in Ranks : stage[r] = "idle"
    /\ stage[0] = "done" => \A r \in Ranks : stage[r] = "restored"
    /\ \A s, t \in Samples : order[s] = order[t] => s = t

\* Output j of a rank is that of its micro-batch j.
Computed(r) ==
    /\ Len(outputs[r]) <= Len(micro[r])
    /\ \A j \in 1 .. Len(outputs[r]) :
          outputs[r][j] = [m \in 1 .. Len(micro[r][j]) |-> SampleOf(r, micro[r][j][m])]

RankInv(r) ==
    /\ stage[r] \in {"idle", "raised", "reduce", "partition", "forward", "restored", "refused"}
    /\ stage[r] \notin {"idle", "raised"} => count[r] \in 1 .. PerRank
    /\ stage[r] = "partition" => GoodHeap(Items(r), Loads(r), count[r], FALSE, heap[r])
    /\ stage[r] # "partition" => heap[r] = {}
    /\ IF stage[r] \in {"forward", "restored"}
       THEN Split(micro[r], Len(micro[r]), 1 .. PerRank) /\ Len(micro[r]) # 0
       ELSE micro[r] = <<>> /\ outputs[r] = <<>>
    /\ Computed(r)
    /\ stage[r] = "restored" => answers[r] = [i \in 1 .. PerRank |-> SampleOf(r, i)]

BatchIInv == BatchTypes /\ TrainerInv /\ \A r \in Ranks : RankInv(r)

\* Sizes and names of the actors.
LEMMA BatchSizes ==
  /\ DP \in Nat \ {0} /\ PerRank \in Nat \ {0} /\ DP * PerRank \in Nat \ {0}
  /\ DP * PerRank = PerRank * DP
  /\ Items(0) = 1 .. DP * PerRank /\ Samples = Items(0)
  /\ \A r \in Ranks : Items(r) = 1 .. PerRank /\ r # 0 /\ r \in Actors
  /\ 0 \in Actors
<1>1. DP \in Nat \ {0} /\ PerRank \in Nat \ {0}
  BY SizesAssumption
<1>2. DP * PerRank \in Nat /\ DP * PerRank = PerRank * DP
  BY <1>1
<1>3. DP * PerRank # 0
  BY <1>1
<1> QED
  BY <1>1, <1>2, <1>3 DEF Items, Samples, Ranks, Actors

LEMMA ShareOfBatch ==
  ASSUME NEW r \in Ranks, NEW i \in 1 .. PerRank
  PROVE  (r - 1) * PerRank + i \in Samples
<1>1. r \in Nat /\ r - 1 \in Nat /\ r <= DP /\ PerRank \in Nat /\ DP \in Nat
  BY BatchSizes DEF Ranks
<1>2. r * PerRank \in Nat /\ DP * PerRank \in Nat /\ r * PerRank <= DP * PerRank
  BY <1>1, TimesMonotone
<1>3. (r - 1) * PerRank \in Nat /\ (r - 1) * PerRank + PerRank = r * PerRank
  BY <1>1
<1> QED
  BY <1>1, <1>2, <1>3 DEF Samples

\* Every item of an actor stands for a sample of the batch.
LEMMA SamplesOfItems ==
  ASSUME BatchTypes, NEW a \in Actors, NEW x \in Items(a)
  PROVE  SampleOf(a, x) \in Samples
<1>1. CASE a = 0
  BY <1>1 DEF SampleOf, Items
<1>2. CASE a # 0
  <2>1. a \in Ranks /\ x \in 1 .. PerRank
    BY <1>2 DEF Actors, Ranks, Items
  <2>2. (a - 1) * PerRank + x \in Samples
    BY <2>1, ShareOfBatch
  <2> QED
    BY <1>2, <2>2 DEF SampleOf, BatchTypes
<1> QED
  BY <1>1, <1>2

\* Every item has a load above zero.
LEMMA LoadsPositive ==
  ASSUME BatchTypes, NEW a \in Actors
  PROVE  /\ Loads(a) \in [Items(a) -> Nat \ {0}]
         /\ \A x \in Items(a) : Load(a, x) = Loads(a)[x] /\ Load(a, x) \in Nat \ {0}
<1>1. ASSUME NEW x \in Items(a) PROVE Load(a, x) \in Nat \ {0}
  <2>1. lens \in [Samples -> Nat \ {0}]
    BY SizesAssumption DEF BatchTypes, Samples
  <2>2. lens[SampleOf(a, x)] \in Nat \ {0}
    BY <2>1, SamplesOfItems
  <2> DEFINE n == lens[SampleOf(a, x)]
  <2>3. n \in Nat /\ n # 0
    BY <2>2, SizesAssumption
  <2> HIDE DEF n
  <2>4. n * n \in Nat /\ 24576 * n + n * n \in Nat \ {0}
    BY <2>3
  <2> QED
    BY <2>4 DEF Load, Workload, n
<1> QED
  BY <1>1 DEF Loads

------------------------------------------------------------------------------
(* The heaps the actors start with *)

\* Items by load and index: a strict order.
LEMMA LighterOrder ==
  ASSUME BatchTypes, NEW a \in Actors, NEW n \in Nat, Items(a) = 1 .. n
  PROVE  StrictOrder(Lighter(a), n)
<1> DEFINE key == Loads(a)
           tie == [x \in 1 .. n |-> x]
           R == Lighter(a)
<1>1. \A x \in 1 .. n : key[x] \in Nat /\ Load(a, x) = key[x]
  BY LoadsPositive
<1>2. \A x \in 1 .. n : tie[x] = x /\ tie[x] \in Nat
  OBVIOUS
<1>3. \A i, j \in 1 .. n :
         <<i, j>> \in R <=> Load(a, i) < Load(a, j) \/ (Load(a, i) = Load(a, j) /\ i < j)
  BY DEF Lighter
<1> HIDE DEF key, tie, R
<1>4. ASSUME NEW i \in 1 .. n, NEW j \in 1 .. n
      PROVE  <<i, j>> \in R <=> key[i] < key[j] \/ (key[i] = key[j] /\ tie[i] < tie[j])
  <2>1. <<i, j>> \in R <=> Load(a, i) < Load(a, j) \/ (Load(a, i) = Load(a, j) /\ i < j)
    BY <1>3
  <2>2. Load(a, i) = key[i] /\ Load(a, j) = key[j] /\ tie[i] = i /\ tie[j] = j
    BY <1>1, <1>2
  <2> QED
    BY <2>1, <2>2
<1>5. \A i \in 1 .. n : key[i] \in Nat /\ tie[i] \in Nat
  BY <1>1, <1>2
<1>6. \A i, j \in 1 .. n : tie[i] = tie[j] => i = j
  BY <1>2
<1>7. StrictOrder(R, n)
  BY <1>4, <1>5, <1>6, KeyOrder
<1> QED
  BY <1>7 DEF R

\* The trainer's groups are the rows of the sorted items.
LEMMA GroupsAreRows ==
  ASSUME BatchTypes
  PROVE  /\ Permutes(SortedItems(0), DP * PerRank)
         /\ EqualStates(0, DP) = Rows(DP, PerRank, Loads(0), SortedItems(0))
<1> DEFINE n == DP * PerRank
           p == SortedItems(0)
           row(g) == [i \in 1 .. DP |-> Single(p[g * DP + i], Loads(0)[p[g * DP + i]])]
<1>1. n \in Nat /\ Items(0) = 1 .. n /\ 0 \in Actors /\ DP \in Nat \ {0} /\ PerRank \in Nat \ {0}
  BY BatchSizes
<1>2. n \div DP = PerRank
  BY <1>1, TimesDiv
<1>3. \A g \in 0 .. PerRank - 1 : \A i \in 1 .. DP : g * DP + i \in 1 .. n
  <2> TAKE g \in 0 .. PerRank - 1
  <2> TAKE i \in 1 .. DP
  <2>1. g * DP \in Nat /\ (g + 1) * DP = g * DP + DP
    BY <1>1
  <2>2. (g + 1) * DP <= PerRank * DP /\ PerRank * DP = n
    BY <1>1, TimesMonotone
  <2> QED
    BY <1>1, <2>1, <2>2
<1> HIDE DEF n
<1>4. Cardinality(1 .. n) = n
  BY <1>1, FS_Interval
<1>5. p = Ranked(n, Lighter(0))
  BY <1>1, <1>4 DEF SortedItems
<1> HIDE DEF p
<1>6. Permutes(p, n)
  BY <1>1, <1>5, LighterOrder, RankedIsOrder
<1>7. ASSUME NEW g \in 0 .. PerRank - 1 PROVE Group(0, DP, g) = row(g)
  <2>1. ASSUME NEW i \in 1 .. DP
        PROVE  Load(0, p[g * DP + i]) = Loads(0)[p[g * DP + i]]
    <3> DEFINE x == p[g * DP + i]
    <3>1. x \in Items(0)
      BY <1>1, <1>3, <1>6 DEF Permutes
    <3> HIDE DEF x
    <3>2. Load(0, x) = Loads(0)[x]
      BY <1>1, <3>1, LoadsPositive
    <3> QED
      BY <3>2 DEF x
  <2>2. Group(0, DP, g) = [i \in 1 .. DP |-> Single(p[g * DP + i], Load(0, p[g * DP + i]))]
    BY DEF Group, p
  <2> QED
    BY <2>1, <2>2
<1>8. EqualStates(0, DP) = {Sorted(Group(0, DP, g)) : g \in 0 .. PerRank - 1}
  BY <1>1, <1>2, <1>4 DEF EqualStates
<1>9. {Sorted(Group(0, DP, g)) : g \in 0 .. PerRank - 1} = {Sorted(row(g)) : g \in 0 .. PerRank - 1}
  <2> HIDE DEF row
  <2> QED  BY <1>7
<1>10. EqualStates(0, DP) = {Sorted(row(g)) : g \in 0 .. PerRank - 1}
  <2> HIDE DEF row
  <2> QED  BY <1>8, <1>9
<1> QED
  BY <1>6, <1>10 DEF n, p, Rows

\* The trainer's first heap is good, with sizes equal.
LEMMA BalanceStarts ==
  ASSUME BatchTypes
  PROVE  GoodHeap(Items(0), Loads(0), DP, TRUE, EqualStates(0, DP))
<1> DEFINE w == Loads(0)
           p == SortedItems(0)
           n == DP * PerRank
           H == Rows(DP, PerRank, w, p)
<1>1. w \in [1 .. n -> Nat \ {0}] /\ Items(0) = 1 .. n
  BY BatchSizes, LoadsPositive
<1>2. DP \in Nat \ {0} /\ PerRank \in Nat /\ n \in Nat /\ n = DP * PerRank
  BY BatchSizes
<1>3. Permutes(p, n) /\ EqualStates(0, DP) = H
  BY GroupsAreRows
<1> HIDE DEF w, p, n
<1>4. GoodHeap(1 .. n, w, DP, TRUE, H)
  BY <1>1, <1>2, <1>3, RowsAreGood
<1> HIDE DEF H
<1> QED
  BY <1>1, <1>3, <1>4 DEF w

\* A rank's first heap is good for any number of micro-batches.
LEMMA RankStarts ==
  ASSUME BatchTypes, NEW r \in Ranks, NEW k \in Nat \ {0}
  PROVE  GoodHeap(Items(r), Loads(r), k, FALSE, SingleStates(r, k))
<1> DEFINE w == Loads(r)
           n == PerRank
<1>1. n \in Nat /\ Items(r) = 1 .. n /\ r \in Actors
  BY BatchSizes
<1>2. w \in [1 .. n -> Nat \ {0}] /\ \A x \in 1 .. n : Load(r, x) = w[x]
  BY <1>1, LoadsPositive
<1>3. SingleStates(r, k) =
         {[i \in 1 .. k |-> IF i = 1 THEN Single(x, Load(r, x)) ELSE EmptySet] : x \in 1 .. n}
  BY <1>1 DEF SingleStates
<1> HIDE DEF w, n
<1>4. {[i \in 1 .. k |-> IF i = 1 THEN Single(x, Load(r, x)) ELSE EmptySet] : x \in 1 .. n} =
      {[i \in 1 .. k |-> IF i = 1 THEN Single(x, w[x]) ELSE EmptySet] : x \in 1 .. n}
  BY <1>2
<1>5. GoodHeap(1 .. n, w, k, FALSE,
         {[i \in 1 .. k |-> IF i = 1 THEN Single(x, w[x]) ELSE EmptySet] : x \in 1 .. n})
  BY <1>1, <1>2, SinglesAreGood
<1> QED
  BY <1>1, <1>3, <1>4, <1>5 DEF w

------------------------------------------------------------------------------
(* The partitions of the last State *)

\* The order in which get_partitions sorts a partition is strict.
LEMMA PrecedesOrder ==
  ASSUME BatchTypes, NEW a \in Actors, NEW s \in Seq(Items(a)),
         \A i, j \in 1 .. Len(s) : s[i] = s[j] => i = j
  PROVE  StrictOrder(Precedes(a, s), Len(s))
<1> DEFINE n == Len(s)
           R == Precedes(a, s)
           key == [i \in 1 .. n |-> IF a = 0 THEN Loads(0)[s[i]] ELSE 0]
<1>1. n \in Nat /\ \A i \in 1 .. n : s[i] \in Items(a) /\ s[i] \in Nat
  <2>1. Items(a) \in SUBSET Nat
    BY BatchSizes DEF Items, Samples
  <2>2. \A i \in 1 .. n : s[i] \in Items(a)
    OBVIOUS
  <2> QED
    BY <2>1, <2>2
<1>2. \A i \in 1 .. n : key[i] = (IF a = 0 THEN Loads(0)[s[i]] ELSE 0) /\ key[i] \in Nat
  BY <1>1, LoadsPositive
<1>3. DOMAIN s = 1 .. n
  OBVIOUS
<1> HIDE DEF n, key
<1>4. ASSUME NEW i \in 1 .. n, NEW j \in 1 .. n
      PROVE  <<i, j>> \in R <=> key[i] < key[j] \/ (key[i] = key[j] /\ s[i] < s[j])
  <2>1. <<i, j>> \in R <=> IF a = 0 THEN <<s[i], s[j]>> \in Lighter(0) ELSE s[i] < s[j]
    BY <1>3 DEF Precedes
  <2>2. CASE a = 0
    <3>1. s[i] \in Items(0) /\ s[j] \in Items(0) /\ key[i] = Loads(0)[s[i]] /\ key[j] = Loads(0)[s[j]]
      BY <1>1, <1>2, <2>2
    <3>2. Load(0, s[i]) = key[i] /\ Load(0, s[j]) = key[j]
      BY <2>2, <3>1, LoadsPositive
    <3>3. <<s[i], s[j]>> \in Lighter(0) <=>
            Load(0, s[i]) < Load(0, s[j]) \/ (Load(0, s[i]) = Load(0, s[j]) /\ s[i] < s[j])
      BY <3>1 DEF Lighter
    <3> QED
      BY <2>1, <2>2, <3>2, <3>3
  <2>3. CASE a # 0
    BY <1>2, <2>1, <2>3
  <2> QED
    BY <2>2, <2>3
<1> HIDE DEF R
<1>5. \A i \in 1 .. n : key[i] \in Nat /\ s[i] \in Nat
  BY <1>1, <1>2
<1>6. \A i, j \in 1 .. n : s[i] = s[j] => i = j
  BY DEF n
<1>7. StrictOrder(R, n)
  BY <1>1, <1>4, <1>5, <1>6, KeyOrder
<1> QED
  BY <1>7 DEF R, n

\* The partitions of the last State split the items.
LEMMA PartitionedSplits ==
  ASSUME BatchTypes, NEW a \in Actors, NEW k \in Nat, NEW w, NEW even, NEW st,
         GoodHeap(Items(a), w, k, even, {st})
  PROVE  /\ Split(Partitioned(a, st), k, Items(a))
         /\ DOMAIN Partitioned(a, st) = 1 .. k
         /\ \A i \in 1 .. k : Len(Partitioned(a, st)[i]) = Len(st[i].items)
<1> DEFINE ss == [i \in 1 .. k |-> st[i].items]
           tt == Partitioned(a, st)
<1>1. Split(ss, k, Items(a))
  BY StateSplits
<1>2. st \in [1 .. k -> SetsOf(Items(a))]
  BY DEF GoodHeap, GoodState, FairState
<1>3. tt = [i \in 1 .. k |-> Arranged(st[i].items, Precedes(a, st[i].items))]
  BY <1>2 DEF Partitioned
<1>4. \A i \in 1 .. k : ss[i] = st[i].items
  OBVIOUS
<1> HIDE DEF ss, tt
<1>5. ASSUME NEW i \in 1 .. k
      PROVE  Shuffle(ss[i], tt[i]) /\ Len(tt[i]) = Len(ss[i])
  <2> DEFINE s == ss[i]
  <2>1. s \in Seq(Items(a)) /\ tt[i] = Arranged(s, Precedes(a, s))
    BY <1>1, <1>3, <1>4 DEF Split
  <2>2. ASSUME NEW m \in 1 .. Len(s), NEW n \in 1 .. Len(s), s[m] = s[n] PROVE m = n
    BY <1>1, <2>2, SplitOnce
  <2> HIDE DEF s
  <2>3. StrictOrder(Precedes(a, s), Len(s))
    BY <2>1, <2>2, PrecedesOrder
  <2>4. Shuffle(s, tt[i])
    BY <2>1, <2>3, ArrangedShuffles
  <2>5. Len(tt[i]) = Len(s)
    BY <2>1, <2>4, ShuffleKeeps
  <2> QED
    BY <2>4, <2>5 DEF s
<1>6. tt = [i \in 1 .. k |-> tt[i]] /\ DOMAIN tt = 1 .. k
  BY <1>3
<1>7. Split(tt, k, Items(a))
  BY <1>1, <1>5, <1>6, ListsShuffled
<1> QED
  BY <1>4, <1>5, <1>6, <1>7 DEF tt

\* The assertions on partitions hold.
LEMMA PartitionsHold ==
  ASSUME NEW k \in Nat, NEW n \in Nat, NEW parts, Split(parts, k, 1 .. n), NEW even,
         \A i \in 1 .. k : Len(parts[i]) # 0,
         even => \A i \in 1 .. k : Len(parts[i]) * k = n
  PROVE  Partitions(parts, n, even)
<1> DEFINE U == 1 .. n
<1>1. parts \in [1 .. k -> Seq(U)] /\ DOMAIN parts = 1 .. k
  BY DEF Split
<1>2. Len(parts) = k
  BY <1>1, FunctionIsSeq
<1>3. \A i \in 1 .. k : parts[i] # <<>>
  OBVIOUS
<1>4. ASSUME NEW i \in 1 .. k PROVE ToSet(parts[i]) = {parts[i][m] : m \in 1 .. Len(parts[i])}
  <2>1. parts[i] \in Seq(U)
    BY <1>1
  <2> QED
    BY <2>1 DEF ToSet
<1> DEFINE V == UNION {ToSet(parts[i]) : i \in DOMAIN parts}
<1> HIDE DEF U
<1>5. ASSUME NEW x \in V PROVE x \in U
  <2>1. PICK i \in 1 .. k : x \in ToSet(parts[i])
    BY <1>1
  <2>2. PICK m \in 1 .. Len(parts[i]) : x = parts[i][m]
    BY <1>4, <2>1
  <2>3. parts[i] \in Seq(U)
    BY <1>1
  <2> QED
    BY <2>2, <2>3
<1>6. ASSUME NEW x \in U PROVE x \in V
  <2>1. PICK i \in 1 .. k : \E m \in 1 .. Len(parts[i]) : parts[i][m] = x
    BY DEF Split, U
  <2>2. x \in ToSet(parts[i])
    BY <1>4, <2>1
  <2> QED
    BY <1>1, <2>2
<1>7. V = U
  BY <1>5, <1>6
<1> QED
  BY <1>1, <1>2, <1>3, <1>7 DEF Partitions, U

------------------------------------------------------------------------------
(* Every step keeps the invariant *)

LEMMA SameLoads ==
  ASSUME NEW a \in Actors, order' = order, lens' = lens
  PROVE  /\ Items(a)' = Items(a) /\ Loads(a)' = Loads(a)
         /\ \A x : Load(a, x)' = Load(a, x)
         /\ \A x : SampleOf(a, x)' = SampleOf(a, x)
BY DEF Loads, Load, SampleOf, Items, Workload, Samples

\* What a step leaves alone of a rank.
LEMMA RankFrame ==
  ASSUME BatchIInv, NEW r \in Ranks, order' = order, lens' = lens,
         stage'[r] = stage[r], heap'[r] = heap[r], count'[r] = count[r],
         micro'[r] = micro[r], outputs'[r] = outputs[r], answers'[r] = answers[r]
  PROVE  RankInv(r)'
<1>1. RankInv(r) /\ r \in Actors
  BY BatchSizes DEF BatchIInv
<1>2. Loads(r)' = Loads(r) /\ Items(r)' = Items(r)
  BY <1>1, SameLoads
<1>3. \A i : SampleOf(r, i)' = SampleOf(r, i)
  BY <1>1, SameLoads
<1>4. Computed(r)'
  <2>1. Computed(r)
    BY <1>1 DEF RankInv
  <2> QED
    BY <2>1 DEF Computed, SampleOf
<1>5. (stage[r] = "restored" => answers[r] = [i \in 1 .. PerRank |-> SampleOf(r, i)])'
  <2>1. [i \in 1 .. PerRank |-> SampleOf(r, i)'] = [i \in 1 .. PerRank |-> SampleOf(r, i)]
    BY <1>3
  <2> QED
    BY <1>1, <2>1 DEF RankInv
<1>6. /\ stage'[r] \in {"idle", "raised", "reduce", "partition", "forward", "restored",
                        "refused"}
      /\ stage'[r] \notin {"idle", "raised"} => count'[r] \in 1 .. PerRank
      /\ stage'[r] = "partition" => GoodHeap(Items(r)', Loads(r)', count'[r], FALSE, heap'[r])
      /\ stage'[r] # "partition" => heap'[r] = {}
      /\ IF stage'[r] \in {"forward", "restored"}
         THEN Split(micro'[r], Len(micro'[r]), 1 .. PerRank) /\ Len(micro'[r]) # 0
         ELSE micro'[r] = <<>> /\ outputs'[r] = <<>>
  BY <1>1, <1>2 DEF RankInv
<1> QED
  BY <1>4, <1>5, <1>6 DEF RankInv, GoodHeap, GoodState, FairState, Decreasing, SetLess,
                          Once, Everywhere, Split, SetsOf

\* ... and of the trainer, once the batch is dispatched.
LEMMA TrainerFrame ==
  ASSUME BatchIInv, stage[0] = "forward", stage'[0] = stage[0], heap'[0] = heap[0],
         order' = order
  PROVE  TrainerInv'
BY DEF BatchIInv, TrainerInv

\* A rank that works has its share of the batch.
LEMMA Working ==
  ASSUME BatchIInv, NEW r \in Ranks, stage[r] \notin {"idle", "restored"}
  PROVE  stage[0] = "forward"
BY DEF BatchIInv, TrainerInv

\* Balance keeps the invariant.
LEMMA BalanceKeeps ==
  ASSUME BatchIInv, Balance
  PROVE  BatchIInv'
<1>1. BatchTypes /\ stage[0] = "idle" /\ stage' = [stage EXCEPT ![0] = "partition"]
      /\ heap' = [heap EXCEPT ![0] = EqualStates(0, DP)]
      /\ UNCHANGED <<lens, divisor, order, count, micro, outputs, answers>>
  BY DEF BatchIInv, Balance
<1>2. stage'[0] = "partition" /\ heap'[0] = EqualStates(0, DP)
      /\ \A r \in Ranks : stage'[r] = stage[r] /\ heap'[r] = heap[r]
  BY <1>1, BatchSizes DEF BatchTypes
<1>3. BatchTypes'
  BY <1>1 DEF BatchTypes, Actors, Ranks, Samples
<1>4. GoodHeap(Items(0), Loads(0), DP, TRUE, EqualStates(0, DP))
  BY <1>1, BalanceStarts
<1>5. Items(0)' = Items(0) /\ Loads(0)' = Loads(0)
  BY <1>1, BatchSizes, SameLoads
<1>6. GoodHeap(Items(0)', Loads(0)', DP, TRUE, heap'[0])
  BY <1>2, <1>4, <1>5
<1>7. (stage[0] = "partition" => GoodHeap(Items(0), Loads(0), DP, TRUE, heap[0]))'
  BY <1>6 DEF GoodHeap, GoodState, FairState, Decreasing, SetLess, Once, Everywhere, SetsOf
<1>8. TrainerInv'
  <2>1. TrainerInv
    BY DEF BatchIInv
  <2>2. \A r \in Ranks : stage'[r] = "idle"
    BY <1>1, <1>2, <2>1 DEF TrainerInv
  <2>3. \A s, t \in Samples : order'[s] = order'[t] => s = t
    BY <1>1, <2>1 DEF TrainerInv
  <2> QED
    BY <1>2, <1>7, <2>2, <2>3 DEF TrainerInv
<1>9. \A r \in Ranks : RankInv(r)'
  BY <1>1, <1>2, RankFrame
<1> QED
  BY <1>3, <1>8, <1>9 DEF BatchIInv

\* Merging the two States that are popped keeps the heap good.
LEMMA MergedHeap ==
  ASSUME BatchTypes, NEW a \in Actors, NEW k \in Nat, NEW even \in BOOLEAN, Merge(a),
         GoodHeap(Items(a), Loads(a), k, even, heap[a])
  PROVE  GoodHeap(Items(a)', Loads(a)', k, even, heap'[a])
<1> DEFINE U == Items(a)
           w == Loads(a)
<1>1. PICK st \in heap[a] : \E other \in heap[a] \ {st} :
         heap' = [heap EXCEPT ![a] = (@ \ {st, other}) \union {Sorted(MergeStates(st, other))}]
  BY DEF Merge
<1>2. PICK other \in heap[a] \ {st} :
         heap' = [heap EXCEPT ![a] = (@ \ {st, other}) \union {Sorted(MergeStates(st, other))}]
  BY <1>1
<1>3. heap'[a] = (heap[a] \ {st, other}) \union {Sorted(MergeStates(st, other))}
  BY <1>2 DEF BatchTypes
<1>4. U \in SUBSET Nat
  BY BatchSizes DEF Items, Samples
<1>5. w \in [U -> Nat]
  BY LoadsPositive
<1>6. Items(a)' = U /\ Loads(a)' = w
  BY SameLoads DEF Merge
<1> HIDE DEF U, w
<1>7. GoodHeap(U, w, k, even, heap[a])
  BY DEF U, w
<1>8. st \in heap[a] /\ other \in heap[a] /\ st # other
  OBVIOUS
<1>9. GoodHeap(U, w, k, even, (heap[a] \ {st, other}) \union {Sorted(MergeStates(st, other))})
  BY <1>4, <1>5, <1>7, <1>8, MergeKeeps
<1> QED
  BY <1>3, <1>6, <1>9

\* Merge keeps the invariant.
LEMMA MergeStepKeeps ==
  ASSUME BatchIInv, NEW a \in Actors, Merge(a)
  PROVE  BatchIInv'
<1>1. /\ BatchTypes /\ stage[a] = "partition"
      /\ UNCHANGED <<lens, divisor, stage, order, count, micro, outputs, answers>>
      /\ heap' = [b \in Actors |-> heap'[b]]
      /\ \A b \in Actors : b # a => heap'[b] = heap[b]
  BY DEF BatchIInv, Merge, BatchTypes
<1>2. BatchTypes'
  BY <1>1 DEF BatchTypes, Actors, Ranks, Samples
<1>3. ASSUME NEW r \in Ranks, r # a PROVE RankInv(r)'
  BY <1>1, <1>3, RankFrame, BatchSizes
<1>4. CASE a = 0
  <2>1. TrainerInv /\ GoodHeap(Items(0), Loads(0), DP, TRUE, heap[0]) /\ DP \in Nat
    BY <1>1, <1>4, BatchSizes DEF BatchIInv, TrainerInv
  <2>2. GoodHeap(Items(0)', Loads(0)', DP, TRUE, heap'[0])
    BY <1>1, <1>4, <2>1, MergedHeap
  <2>3. (stage[0] = "partition" => GoodHeap(Items(0), Loads(0), DP, TRUE, heap[0]))'
    BY <2>2 DEF GoodHeap, GoodState, FairState, Decreasing, SetLess, Once, Everywhere, SetsOf
  <2>4. TrainerInv'
    BY <1>1, <1>4, <2>1, <2>3 DEF TrainerInv
  <2>5. \A r \in Ranks : RankInv(r)'
    BY <1>3, <1>4, BatchSizes
  <2> QED
    BY <1>2, <2>4, <2>5 DEF BatchIInv
<1>5. CASE a # 0
  <2>1. a \in Ranks
    BY <1>5 DEF Actors, Ranks
  <2>2. RankInv(a) /\ count[a] \in Nat
    <3>1. RankInv(a)
      BY <2>1 DEF BatchIInv
    <3>2. count[a] \in 1 .. PerRank
      BY <1>1, <3>1 DEF RankInv
    <3> QED
      BY <3>1, <3>2
  <2>3. GoodHeap(Items(a), Loads(a), count[a], FALSE, heap[a])
    BY <1>1, <2>2 DEF RankInv
  <2>4. GoodHeap(Items(a)', Loads(a)', count'[a], FALSE, heap'[a])
    <3>1. GoodHeap(Items(a)', Loads(a)', count[a], FALSE, heap'[a])
      BY <1>1, <2>2, <2>3, MergedHeap
    <3> QED
      BY <1>1, <3>1
  <2>5. (stage[a] = "partition" => GoodHeap(Items(a), Loads(a), count[a], FALSE, heap[a]))'
    BY <2>4 DEF GoodHeap, GoodState, FairState, Decreasing, SetLess, Once, Everywhere, SetsOf
  <2>6. Computed(a)'
    BY <1>1, <2>2 DEF RankInv, Computed, SampleOf
  <2>7. RankInv(a)'
    BY <1>1, <2>2, <2>5, <2>6 DEF RankInv, Split
  <2>8. stage[0] = "forward" /\ heap'[0] = heap[0]
    BY <1>1, <1>5, <2>1, Working, BatchSizes
  <2>9. TrainerInv'
    BY <1>1, <2>8, TrainerFrame
  <2> QED
    BY <1>2, <1>3, <2>7, <2>9 DEF BatchIInv
<1> QED
  BY <1>4, <1>5

LEMMA TokensPositive ==
  ASSUME BatchTypes, NEW r \in Ranks
  PROVE  Tokens(r) \in Nat \ {0}
<1> DEFINE s == [i \in 1 .. PerRank |-> lens[SampleOf(r, i)]]
<1>1. lens \in [Samples -> Nat \ {0}]
  BY SizesAssumption DEF BatchTypes, Samples
<1>2. r \in Actors /\ Items(r) = 1 .. PerRank /\ PerRank \in Nat /\ PerRank # 0
  BY BatchSizes
<1>3. ASSUME NEW i \in 1 .. PerRank PROVE s[i] \in Nat /\ s[i] # 0
  <2>1. SampleOf(r, i) \in Samples
    BY <1>2, SamplesOfItems
  <2>2. lens[SampleOf(r, i)] \in Nat \ {0}
    BY <1>1, <2>1
  <2> QED
    BY <1>1, <2>2
<1>4. s \in [1 .. PerRank -> Nat]
  BY <1>3
<1> HIDE DEF s
<1>5. s \in Seq(Nat) /\ Len(s) = PerRank
  BY <1>2, <1>4, FunctionIsSeq
<1>6. Total(s) \in Nat /\ Total(s) # 0
  BY <1>2, <1>3, <1>5, TotalIsNatural
<1> QED
  BY <1>6 DEF Tokens, s

\* ceildiv and roundup_divisible of positive numbers are positive.
LEMMA CeilDivIs ==
  ASSUME NEW a \in Nat \ {0}, NEW b \in Nat \ {0}
  PROVE  CeilDiv(a, b) \in Nat \ {0} /\ RoundUp(a, b) \in Nat \ {0}
<1>1. CeilDiv(a, b) \in Nat \ {0}
  <2> DEFINE d == a - 1
  <2>1. a + b - 1 = d + b /\ d \in Nat
    OBVIOUS
  <2> HIDE DEF d
  <2>2. (d + b) \div b \in Nat \ {0}
    BY <2>1
  <2> QED
    BY <2>1, <2>2 DEF CeilDiv
<1> DEFINE c == CeilDiv(a, b)
<1>2. RoundUp(a, b) = c * b
  BY DEF RoundUp
<1> HIDE DEF c
<1>3. c * b \in Nat \ {0}
  BY <1>1 DEF c
<1> QED
  BY <1>1, <1>2, <1>3

\* Plan keeps the invariant.
LEMMA PlanKeeps ==
  ASSUME BatchIInv, NEW r \in Ranks, Plan(r)
  PROVE  BatchIInv'
<1> DEFINE n == Smaller(PerRank, CeilDiv(Tokens(r), MaxTokenLen))
<1>1. /\ BatchTypes /\ RankInv(r)
      /\ stage[0] = "forward" /\ stage[r] = "idle"
      /\ UNCHANGED <<lens, divisor, heap, order, micro, outputs, answers>>
  BY DEF BatchIInv, Plan
<1>2. r \in Actors /\ r # 0 /\ 0 \in Actors /\ PerRank \in Nat \ {0}
  BY BatchSizes
<1>3. n \in 1 .. PerRank
  <2>1. MaxTokenLen \in Nat \ {0}
    BY SizesAssumption
  <2>2. CeilDiv(Tokens(r), MaxTokenLen) \in Nat \ {0}
    BY <1>1, <2>1, TokensPositive, CeilDivIs
  <2> QED
    BY <1>2, <2>2 DEF Smaller
<1>4. PICK next \in {"raised", "reduce"} :
      /\ stage' = [stage EXCEPT ![r] = next]
      /\ count' = [count EXCEPT ![r] = IF next = "raised" THEN count[r] ELSE n]
  <2>1. CASE stage' = [stage EXCEPT ![r] = "raised"] /\ count' = count
    <3>1. count' = [count EXCEPT ![r] = count[r]]
      BY <1>1, <2>1 DEF BatchTypes
    <3> QED
      BY <2>1, <3>1
  <2>2. CASE stage' = [stage EXCEPT ![r] = "reduce"] /\ count' = [count EXCEPT ![r] = n]
    BY <2>2
  <2> QED
    BY <2>1, <2>2 DEF Plan
<1> HIDE DEF n
<1>5. /\ stage'[r] = next /\ stage'[0] = stage[0]
      /\ next = "reduce" => count'[r] = n
      /\ \A q \in Ranks : q # r => stage'[q] = stage[q] /\ count'[q] = count[q]
  BY <1>1, <1>2, <1>4, BatchSizes DEF BatchTypes
<1>6. BatchTypes'
  <2>1. count' \in [Ranks -> 0 .. PerRank]
    BY <1>1, <1>2, <1>3, <1>4 DEF BatchTypes
  <2>2. stage' \in [Actors -> {"idle", "raised", "reduce", "partition", "forward",
                               "restored", "refused", "failed", "done"}]
    BY <1>1, <1>4 DEF BatchTypes
  <2> QED
    BY <1>1, <2>1, <2>2 DEF BatchTypes, Actors, Ranks, Samples
<1>7. TrainerInv'
  BY <1>1, <1>5, TrainerFrame
<1>8. RankInv(r)'
  <2>1. heap[r] = {} /\ micro[r] = <<>> /\ outputs[r] = <<>>
    BY <1>1 DEF RankInv
  <2>2. Computed(r)'
    BY <1>1, <2>1 DEF Computed
  <2> QED
    BY <1>1, <1>3, <1>5, <2>1, <2>2 DEF RankInv
<1>9. ASSUME NEW q \in Ranks, q # r PROVE RankInv(q)'
  BY <1>1, <1>5, <1>9, RankFrame
<1> QED
  BY <1>6, <1>7, <1>8, <1>9 DEF BatchIInv

\* Collect keeps the invariant.
LEMMA CollectKeeps ==
  ASSUME BatchIInv, Collect
  PROVE  BatchIInv'
<1>1. /\ BatchTypes /\ TrainerInv /\ stage[0] = "forward"
      /\ \A r \in Ranks : stage[r] = "restored"
      /\ stage' = [stage EXCEPT ![0] = "done"]
      /\ UNCHANGED <<lens, divisor, heap, order, count, micro, outputs, answers>>
  BY DEF BatchIInv, Collect
<1>2. stage'[0] = "done" /\ \A r \in Ranks : stage'[r] = stage[r]
  BY <1>1, BatchSizes DEF BatchTypes
<1>3. BatchTypes'
  BY <1>1 DEF BatchTypes, Actors, Ranks, Samples
<1>4. TrainerInv'
  BY <1>1, <1>2 DEF TrainerInv
<1>5. \A r \in Ranks : RankInv(r)'
  BY <1>1, <1>2, RankFrame
<1> QED
  BY <1>3, <1>4, <1>5 DEF BatchIInv

\* The largest of the ranks' numbers, of which there is one.
LEMMA LargestIs ==
  ASSUME BatchIInv, \A r \in Ranks : stage[r] = "reduce"
  PROVE  Largest \in 1 .. PerRank
<1> DEFINE C == {PerRank - count[r] : r \in Ranks}
<1>1. \A r \in Ranks : count[r] \in 1 .. PerRank
  BY DEF BatchIInv, RankInv
<1>2. PerRank \in Nat /\ 1 \in Ranks
  BY BatchSizes DEF Ranks
<1>3. C \in SUBSET Nat /\ C # {}
  BY <1>1, <1>2
<1> HIDE DEF C
<1>4. PICK x \in C : \A y \in C : x <= y
  BY <1>3, LeastOf
<1>5. PICK r \in Ranks : x = PerRank - count[r]
  BY <1>4 DEF C
<1>6. ASSUME NEW q \in Ranks PROVE count[q] <= count[r]
  <2>1. PerRank - count[r] <= PerRank - count[q]
    BY <1>4, <1>5 DEF C
  <2>2. count[r] \in 1 .. PerRank /\ count[q] \in 1 .. PerRank
    BY <1>1
  <2> QED
    BY <1>2, <2>1, <2>2
<1>7. \E n \in 0 .. PerRank : /\ \E q \in Ranks : count[q] = n
                              /\ \A q \in Ranks : count[q] <= n
  BY <1>1, <1>2, <1>6
<1>8. \E q \in Ranks : count[q] = Largest
  BY <1>7 DEF Largest
<1> QED
  BY <1>1, <1>8

\* AllReduce keeps the invariant.
LEMMA AllReduceKeeps ==
  ASSUME BatchIInv, AllReduce
  PROVE  BatchIInv'
<1>1. /\ BatchTypes /\ \A r \in Ranks : stage[r] = "reduce" /\ RankInv(r)
      /\ stage' = [a \in Actors |->
            IF a = 0 THEN stage[0] ELSE IF EnoughSamples(a) THEN "partition" ELSE "refused"]
      /\ count' = [r \in Ranks |-> IF EnoughSamples(r) THEN NumMicroBatches(r) ELSE count[r]]
      /\ heap' = [a \in Actors |->
            IF a # 0 /\ EnoughSamples(a) THEN SingleStates(a, NumMicroBatches(a)) ELSE heap[a]]
      /\ UNCHANGED <<lens, divisor, order, micro, outputs, answers>>
  BY DEF BatchIInv, AllReduce
<1>2. ASSUME NEW r \in Ranks
      PROVE  NumMicroBatches(r) \in Nat \ {0}
  <2>1. Largest \in Nat \ {0}
    BY <1>1, LargestIs
  <2>2. divisor \in Nat \ {0}
    BY <1>1, SizesAssumption DEF BatchTypes
  <2> QED
    BY <2>1, <2>2, CeilDivIs DEF NumMicroBatches
<1>3. ASSUME NEW r \in Ranks, EnoughSamples(r)
      PROVE  NumMicroBatches(r) \in 1 .. PerRank
  BY <1>2, <1>3, BatchSizes DEF EnoughSamples
<1>4. stage[0] = "forward"
  <2>1. 1 \in Ranks
    BY BatchSizes DEF Ranks
  <2> QED
    BY <1>1, <2>1, Working
<1>5. /\ stage'[0] = stage[0] /\ heap'[0] = heap[0]
      /\ \A r \in Ranks :
            /\ stage'[r] = IF EnoughSamples(r) THEN "partition" ELSE "refused"
            /\ heap'[r] = IF EnoughSamples(r) THEN SingleStates(r, NumMicroBatches(r)) ELSE heap[r]
            /\ count'[r] = IF EnoughSamples(r) THEN NumMicroBatches(r) ELSE count[r]
  BY <1>1, BatchSizes
<1>6. BatchTypes'
  <2>1. count' \in [Ranks -> 0 .. PerRank]
    <3>1. \A r \in Ranks : count[r] \in 0 .. PerRank
      BY <1>1 DEF BatchTypes
    <3>2. \A r \in Ranks : EnoughSamples(r) => NumMicroBatches(r) \in 0 .. PerRank
      BY <1>3, BatchSizes
    <3> QED
      BY <1>1, <3>1, <3>2
  <2>2. stage' \in [Actors -> {"idle", "raised", "reduce", "partition", "forward",
                               "restored", "refused", "failed", "done"}]
    BY <1>1, <1>4
  <2>3. heap' = [a \in Actors |-> heap'[a]]
    BY <1>1
  <2> QED
    BY <1>1, <2>1, <2>2, <2>3 DEF BatchTypes, Actors, Ranks, Samples
<1>7. TrainerInv'
  BY <1>1, <1>4, <1>5, TrainerFrame
<1>8. ASSUME NEW r \in Ranks PROVE RankInv(r)'
  <2>1. RankInv(r) /\ stage[r] = "reduce" /\ r \in Actors
    BY <1>1, BatchSizes
  <2>2. heap[r] = {} /\ micro[r] = <<>> /\ outputs[r] = <<>> /\ count[r] \in 1 .. PerRank
    BY <2>1 DEF RankInv
  <2>3. Computed(r)'
    BY <1>1, <2>2 DEF Computed
  <2>4. CASE EnoughSamples(r)
    <3> DEFINE n == NumMicroBatches(r)
    <3>1. n \in 1 .. PerRank /\ n \in Nat \ {0}
      BY <1>2, <1>3, <2>4
    <3>2. stage'[r] = "partition" /\ heap'[r] = SingleStates(r, n) /\ count'[r] = n
      BY <1>5, <2>4
    <3> HIDE DEF n
    <3>3. GoodHeap(Items(r), Loads(r), n, FALSE, SingleStates(r, n))
      BY <1>1, <3>1, RankStarts
    <3>4. Items(r)' = Items(r) /\ Loads(r)' = Loads(r)
      BY <1>1, <2>1, SameLoads
    <3>5. GoodHeap(Items(r)', Loads(r)', count'[r], FALSE, heap'[r])
      BY <3>2, <3>3, <3>4
    <3>6. (stage[r] = "partition" => GoodHeap(Items(r), Loads(r), count[r], FALSE, heap[r]))'
      BY <3>5 DEF GoodHeap, GoodState, FairState, Decreasing, SetLess, Once, Everywhere, SetsOf
    <3> QED
      BY <1>1, <2>2, <2>3, <3>1, <3>2, <3>6 DEF RankInv
  <2>5. CASE ~ EnoughSamples(r)
    <3>1. stage'[r] = "refused" /\ heap'[r] = heap[r] /\ count'[r] = count[r]
      BY <1>5, <2>5
    <3> QED
      BY <1>1, <2>2, <2>3, <3>1 DEF RankInv
  <2> QED
    BY <2>4, <2>5
<1> QED
  BY <1>6, <1>7, <1>8 DEF BatchIInv

\* The trainer's reordered partitions split the batch.
LEMMA EndsSplit ==
  ASSUME NEW k \in Nat, NEW S, NEW parts, Split(parts, k, S)
  PROVE  Split([i \in 1 .. k |-> Evens(parts[i]) \o Reverse(Odds(parts[i]))], k, S)
<1> DEFINE tt == [i \in 1 .. k |-> Evens(parts[i]) \o Reverse(Odds(parts[i]))]
<1>1. tt = [i \in 1 .. k |-> tt[i]]
  OBVIOUS
<1>2. ASSUME NEW i \in 1 .. k PROVE Shuffle(parts[i], tt[i])
  <2>1. parts[i] \in Seq(S)
    BY DEF Split
  <2>2. Shuffle(parts[i], Evens(parts[i]) \o Reverse(Odds(parts[i])))
    BY <2>1, EndsShuffle
  <2> QED
    BY <2>2
<1> HIDE DEF tt
<1>3. Split(tt, k, S)
  BY <1>1, <1>2, ListsShuffled
<1> QED
  BY <1>3 DEF tt

\* Dispatch keeps the invariant.
LEMMA DispatchKeeps ==
  ASSUME BatchIInv, Dispatch
  PROVE  BatchIInv'
<1>1. /\ BatchTypes /\ TrainerInv /\ stage[0] = "partition"
      /\ heap' = [heap EXCEPT ![0] = {}]
      /\ UNCHANGED <<lens, divisor, count, micro, outputs, answers>>
  BY DEF BatchIInv, Dispatch
<1>2. PICK st : /\ heap[0] = {st}
                /\ IF Partitions(Partitioned(0, st), DP * PerRank, TRUE)
                   THEN /\ order' = FlattenSeq([i \in 1 .. DP |->
                               Evens(Partitioned(0, st)[i]) \o Reverse(Odds(Partitioned(0, st)[i]))])
                        /\ stage' = [stage EXCEPT ![0] = "forward"]
                   ELSE stage' = [stage EXCEPT ![0] = "failed"] /\ UNCHANGED order
  BY DEF Dispatch
<1> DEFINE parts == Partitioned(0, st)
           ends == [i \in 1 .. DP |-> Evens(parts[i]) \o Reverse(Odds(parts[i]))]
           n == DP * PerRank
<1>3. /\ DP \in Nat \ {0} /\ PerRank \in Nat \ {0} /\ n \in Nat /\ n = PerRank * DP
      /\ Items(0) = 1 .. n /\ Samples = 1 .. n /\ 0 \in Actors
  BY BatchSizes
<1>4. GoodHeap(Items(0), Loads(0), DP, TRUE, {st})
  BY <1>1, <1>2 DEF TrainerInv
<1>5. /\ Split(parts, DP, Items(0))
      /\ \A i \in 1 .. DP : Len(parts[i]) = Len(st[i].items)
  <2>1. BatchTypes /\ DP \in Nat /\ 0 \in Actors
    BY <1>1, <1>3
  <2> HIDE DEF parts
  <2> QED
    BY <1>4, <2>1, PartitionedSplits, ZenonT(30) DEF parts
<1>6. \A i \in 1 .. DP : Len(st[i].items) = PerRank
  <2>1. GoodHeap(1 .. DP * PerRank, Loads(0), DP, TRUE, {st})
    BY <1>3, <1>4
  <2> QED
    BY <1>3, <2>1, EqualLengths
<1> HIDE DEF parts, n
<1>7. Partitions(parts, n, TRUE)
  <2>1. Split(parts, DP, 1 .. n)
    BY <1>3, <1>5
  <2>2. \A i \in 1 .. DP : Len(parts[i]) # 0 /\ Len(parts[i]) * DP = n
    BY <1>3, <1>5, <1>6
  <2> QED
    BY <1>3, <2>1, <2>2, PartitionsHold
<1>8. order' = FlattenSeq(ends) /\ stage' = [stage EXCEPT ![0] = "forward"]
  BY <1>2, <1>7 DEF parts, n
<1>9. Split(ends, DP, 1 .. n)
  BY <1>3, <1>5, EndsSplit
<1> HIDE DEF ends
<1>10. Permutes(order', n)
  BY <1>3, <1>8, <1>9, FlattenPermutes
<1>11. order' \in [Samples -> Samples] /\ \A s, t \in Samples : order'[s] = order'[t] => s = t
  BY <1>3, <1>10 DEF Permutes
<1>12. /\ stage'[0] = "forward" /\ heap'[0] = {}
       /\ \A r \in Ranks : stage'[r] = stage[r] /\ heap'[r] = heap[r]
  BY <1>1, <1>8, BatchSizes DEF BatchTypes
<1>13. BatchTypes'
  BY <1>1, <1>8, <1>11 DEF BatchTypes, Actors, Ranks, Samples
<1>14. TrainerInv'
  BY <1>11, <1>12 DEF TrainerInv, Samples
<1>15. ASSUME NEW r \in Ranks PROVE RankInv(r)'
  <2>1. RankInv(r) /\ stage[r] = "idle"
    BY <1>1 DEF BatchIInv, TrainerInv
  <2>2. heap[r] = {} /\ micro[r] = <<>> /\ outputs[r] = <<>>
    BY <2>1 DEF RankInv
  <2>3. Computed(r)'
    BY <1>1, <2>2 DEF Computed
  <2> QED
    BY <1>1, <1>12, <2>1, <2>2, <2>3 DEF RankInv
<1> QED
  BY <1>13, <1>14, <1>15 DEF BatchIInv

\* Micro-batches by workload and first sample: a strict order, as no two have
\* their first sample in common.
LEMMA HeavierOrder ==
  ASSUME BatchTypes, NEW r \in Ranks, NEW k \in Nat, NEW st,
         st \in [1 .. k -> SetsOf(Items(r))],
         NEW parts, Split(parts, k, Items(r)), \A i \in 1 .. k : Len(parts[i]) # 0
  PROVE  StrictOrder(Heavier(r, st, parts), k)
<1> DEFINE load(i) == Total([m \in DOMAIN st[i].items |-> Load(r, st[i].items[m])])
           key == [i \in 1 .. k |-> load(i)]
           tie == [i \in 1 .. k |-> parts[i][1]]
           R == Heavier(r, st, parts)
<1>1. ASSUME NEW i \in 1 .. k PROVE key[i] = load(i) /\ key[i] \in Nat
  <2> DEFINE s == st[i].items
             l == [m \in DOMAIN s |-> Load(r, s[m])]
  <2>1. s \in Seq(Items(r))
    BY DEF SetsOf
  <2> HIDE DEF s
  <2>2. Len(s) \in Nat /\ DOMAIN s = 1 .. Len(s) /\ \A m \in 1 .. Len(s) : s[m] \in Items(r)
    BY <2>1
  <2>3. \A m \in 1 .. Len(s) : Load(r, s[m]) \in Nat
    BY <2>2, LoadsPositive, BatchSizes
  <2>4. l \in [1 .. Len(s) -> Nat]
    BY <2>2, <2>3
  <2> HIDE DEF l
  <2>5. l \in Seq(Nat)
    BY <2>2, <2>4, FunctionIsSeq
  <2>6. Total(l) \in Nat
    BY <2>5, TotalIsNatural
  <2> QED
    BY <2>6 DEF l, s
<1>2. ASSUME NEW i \in 1 .. k
      PROVE  tie[i] = parts[i][1] /\ tie[i] \in Nat /\ 1 \in 1 .. Len(parts[i])
  <2>1. parts[i] \in Seq(Items(r)) /\ Len(parts[i]) # 0
    BY DEF Split
  <2>2. 1 \in 1 .. Len(parts[i])
    BY <2>1
  <2>3. parts[i][1] \in Items(r)
    BY <2>1, <2>2
  <2> QED
    BY <2>2, <2>3, BatchSizes
<1>3. ASSUME NEW i \in 1 .. k, NEW j \in 1 .. k
      PROVE  <<i, j>> \in R <=> load(i) > load(j) \/ (load(i) = load(j) /\ parts[i][1] > parts[j][1])
  <2>1. DOMAIN st = 1 .. k
    OBVIOUS
  <2>2. <<i, j>> \in (DOMAIN st) \X (DOMAIN st)
    BY <2>1
  <2> QED
    BY <2>2 DEF Heavier
<1> HIDE DEF load, key, tie, R
<1>4. ASSUME NEW i \in 1 .. k, NEW j \in 1 .. k
      PROVE  <<i, j>> \in R <=> key[i] > key[j] \/ (key[i] = key[j] /\ tie[i] > tie[j])
  BY <1>1, <1>2, <1>3
<1>5. ASSUME NEW i \in 1 .. k, NEW j \in 1 .. k, tie[i] = tie[j] PROVE i = j
  <2>1. parts[i][1] = parts[j][1] /\ 1 \in 1 .. Len(parts[i]) /\ 1 \in 1 .. Len(parts[j])
    BY <1>2, <1>5
  <2> QED
    BY <2>1, SplitOnce, SMTT(30)
<1>6. \A i \in 1 .. k : key[i] \in Nat /\ tie[i] \in Nat
  BY <1>1, <1>2
<1>7. StrictOrder(R, k)
  BY <1>4, <1>5, <1>6, KeyOrderDown
<1> QED
  BY <1>7 DEF R

\* The micro-batches are the partitions in another order.
LEMMA MiddleSplit ==
  ASSUME NEW k \in Nat, NEW S, NEW parts, Split(parts, k, S), NEW R, StrictOrder(R, k)
  PROVE  /\ Split(Reverse(Evens(Arranged(parts, R))) \o Odds(Arranged(parts, R)), k, S)
         /\ Len(Reverse(Evens(Arranged(parts, R))) \o Odds(Arranged(parts, R))) = k
<1> DEFINE u == Arranged(parts, R)
           t == Reverse(Evens(u)) \o Odds(u)
<1>1. parts \in [1 .. k -> Seq(S)]
  BY DEF Split
<1>2. parts \in Seq(Seq(S)) /\ Len(parts) = k
  BY <1>1, FunctionIsSeq
<1>3. Shuffle(parts, u)
  BY <1>2, ArrangedShuffles
<1>4. u \in Seq(Seq(S))
  <2> HIDE DEF u
  <2> QED  BY <1>2, <1>3, ShuffleKeeps
<1>5. t = Reverse(Evens(u)) \o Odds(u)
  OBVIOUS
<1> HIDE DEF u, t
<1>6. Shuffle(u, t)
  BY <1>4, <1>5, MiddleShuffle
<1>7. Shuffle(parts, t)
  BY <1>2, <1>3, <1>6, ShuffleTwice
<1>8. PICK q : Permutes(q, k) /\ t = [i \in 1 .. k |-> parts[q[i]]]
  BY <1>2, <1>7 DEF Shuffle
<1>9. Split([i \in 1 .. k |-> parts[q[i]]], k, S)
  BY <1>8, ListsReordered
<1>10. Len(t) = k
  BY <1>2, <1>7, ShuffleKeeps
<1> QED
  BY <1>8, <1>9, <1>10 DEF t, u

\* Arrange keeps the invariant.
LEMMA ArrangeKeeps ==
  ASSUME BatchIInv, NEW r \in Ranks, Arrange(r)
  PROVE  BatchIInv'
<1>1. /\ BatchTypes /\ RankInv(r) /\ stage[r] = "partition"
      /\ heap' = [heap EXCEPT ![r] = {}]
      /\ UNCHANGED <<lens, divisor, order, count, outputs, answers>>
  BY DEF BatchIInv, Arrange
<1>2. PICK st : /\ heap[r] = {st}
                /\ IF Partitions(Partitioned(r, st), PerRank, FALSE)
                   THEN /\ micro' = [micro EXCEPT ![r] =
                               Reverse(Evens(Arranged(Partitioned(r, st), Heavier(r, st, Partitioned(r, st)))))
                                  \o Odds(Arranged(Partitioned(r, st), Heavier(r, st, Partitioned(r, st))))]
                        /\ stage' = [stage EXCEPT ![r] = "forward"]
                   ELSE stage' = [stage EXCEPT ![r] = "failed"] /\ UNCHANGED micro
  BY DEF Arrange
<1> DEFINE parts == Partitioned(r, st)
           k == count[r]
           R == Heavier(r, st, parts)
           t == Reverse(Evens(Arranged(parts, R))) \o Odds(Arranged(parts, R))
<1>3. PerRank \in Nat /\ Items(r) = 1 .. PerRank /\ r \in Actors /\ r # 0 /\ 0 \in Actors
  BY BatchSizes
<1>4. GoodHeap(Items(r), Loads(r), k, FALSE, {st}) /\ k \in 1 .. PerRank
  BY <1>1, <1>2 DEF RankInv
<1>5. k \in Nat /\ k # 0
  BY <1>3, <1>4
<1>6. st \in [1 .. k -> SetsOf(Items(r))]
  BY <1>4 DEF GoodHeap, GoodState, FairState
<1> HIDE DEF k
<1>7. /\ Split(parts, k, Items(r))
      /\ \A i \in 1 .. k : Len(parts[i]) = Len(st[i].items)
  <2>1. BatchTypes
    BY <1>1
  <2>2. GoodHeap(Items(r), Loads(r), k, FALSE, {st})
    BY <1>4
  <2>3. r \in Actors
    BY <1>3
  <2> HIDE DEF parts
  <2> QED
    BY <1>5, <2>1, <2>2, <2>3, PartitionedSplits, ZenonT(30) DEF parts
<1>8. \A i \in 1 .. k : Len(st[i].items) # 0
  <2>1. GoodHeap(1 .. PerRank, Loads(r), k, FALSE, {st})
    BY <1>3, <1>4
  <2> QED
    BY <1>3, <1>4, <2>1, NoneLeftEmpty
<1>9. \A i \in 1 .. k : Len(parts[i]) # 0
  BY <1>7, <1>8
<1> HIDE DEF parts
<1>10. Partitions(parts, PerRank, FALSE)
  <2>1. Split(parts, k, 1 .. PerRank)
    BY <1>3, <1>7
  <2> QED
    BY <1>3, <1>5, <1>9, <2>1, PartitionsHold
<1>11. micro' = [micro EXCEPT ![r] = t] /\ stage' = [stage EXCEPT ![r] = "forward"]
  BY <1>2, <1>10 DEF parts
<1>12. StrictOrder(R, k)
  BY <1>1, <1>5, <1>6, <1>7, <1>9, HeavierOrder
<1> HIDE DEF R
<1>13. Split(t, k, Items(r)) /\ Len(t) = k
  BY <1>5, <1>7, <1>12, MiddleSplit
<1> HIDE DEF t
<1>14. t \in Seq(Seq(1 .. PerRank))
  <2>1. t \in [1 .. k -> Seq(1 .. PerRank)]
    BY <1>3, <1>13 DEF Split
  <2> QED
    BY <1>5, <2>1, FunctionIsSeq
<1>15. /\ stage'[r] = "forward" /\ heap'[r] = {} /\ micro'[r] = t
       /\ stage'[0] = stage[0] /\ heap'[0] = heap[0]
       /\ \A q \in Ranks : q # r =>
             stage'[q] = stage[q] /\ heap'[q] = heap[q] /\ micro'[q] = micro[q]
  BY <1>1, <1>3, <1>11, BatchSizes DEF BatchTypes
<1>16. BatchTypes'
  <2>1. micro' \in [Ranks -> Seq(Seq(1 .. PerRank))]
    BY <1>1, <1>11, <1>14 DEF BatchTypes
  <2>2. stage' \in [Actors -> {"idle", "raised", "reduce", "partition", "forward",
                               "restored", "refused", "failed", "done"}]
    BY <1>1, <1>11 DEF BatchTypes
  <2>3. heap' = [a \in Actors |-> heap'[a]]
    BY <1>1 DEF BatchTypes
  <2> QED
    BY <1>1, <2>1, <2>2, <2>3 DEF BatchTypes, Actors, Ranks, Samples
<1>17. TrainerInv'
  <2>1. stage[0] = "forward"
    BY <1>1, Working
  <2> QED
    BY <1>1, <1>15, <2>1, TrainerFrame
<1>18. RankInv(r)'
  <2>1. outputs'[r] = <<>>
    BY <1>1 DEF RankInv
  <2>2. Computed(r)'
    BY <1>5, <1>13, <1>15, <2>1 DEF Computed
  <2>3. Split(micro'[r], Len(micro'[r]), 1 .. PerRank) /\ Len(micro'[r]) # 0
    BY <1>3, <1>5, <1>13, <1>15
  <2>4. (Split(micro[r], Len(micro[r]), 1 .. PerRank) /\ Len(micro[r]) # 0)'
    BY <2>3 DEF Split
  <2>5. count'[r] \in 1 .. PerRank
    BY <1>1, <1>4 DEF k
  <2> QED
    BY <1>15, <2>2, <2>4, <2>5 DEF RankInv
<1>19. ASSUME NEW q \in Ranks, q # r PROVE RankInv(q)'
  BY <1>1, <1>15, <1>19, RankFrame
<1> QED
  BY <1>16, <1>17, <1>18, <1>19 DEF BatchIInv

LEMMA SeqIs ==
  ASSUME NEW S, NEW s \in Seq(S)
  PROVE  Len(s) \in Nat /\ DOMAIN s = 1 .. Len(s) /\ \A m \in 1 .. Len(s) : s[m] \in S
OBVIOUS

\* Forward keeps the invariant.
LEMMA ForwardKeeps ==
  ASSUME BatchIInv, Forward
  PROVE  BatchIInv'
<1> DEFINE n(r) == Len(outputs[r]) + 1
           part(r) == micro[r][n(r)]
           out(r) == [j \in DOMAIN part(r) |-> SampleOf(r, part(r)[j])]
<1>1. /\ BatchTypes
      /\ \A r \in Ranks : stage[r] = "forward" /\ Len(outputs[r]) < Len(micro[r])
      /\ outputs' = [r \in Ranks |-> Append(outputs[r], out(r))]
      /\ UNCHANGED <<lens, divisor, stage, heap, order, count, micro, answers>>
  BY DEF BatchIInv, Forward
<1>2. ASSUME NEW r \in Ranks
      PROVE  /\ n(r) \in 1 .. Len(micro[r]) /\ n(r) = Len(outputs[r]) + 1
             /\ outputs[r] \in Seq(Seq(Samples)) /\ micro[r] \in Seq(Seq(1 .. PerRank))
             /\ part(r) \in Seq(1 .. PerRank)
             /\ out(r) = [m \in 1 .. Len(micro[r][n(r)]) |-> SampleOf(r, micro[r][n(r)][m])]
             /\ out(r) \in Seq(Samples)
  <2>1. outputs[r] \in Seq(Seq(Samples)) /\ micro[r] \in Seq(Seq(1 .. PerRank))
    BY <1>1 DEF BatchTypes
  <2>2. Len(outputs[r]) \in Nat /\ Len(micro[r]) \in Nat /\ Len(outputs[r]) < Len(micro[r])
    BY <1>1, <2>1
  <2>3. n(r) \in 1 .. Len(micro[r])
    BY <2>2
  <2>4. part(r) \in Seq(1 .. PerRank)
    <3> HIDE DEF n
    <3> QED  BY <2>1, <2>3
  <2> DEFINE p == part(r)
  <2>5. p \in Seq(1 .. PerRank)
    BY <2>4
  <2> HIDE DEF p
  <2>6. DOMAIN p = 1 .. Len(p) /\ Len(p) \in Nat /\ \A m \in 1 .. Len(p) : p[m] \in 1 .. PerRank
    BY <2>5, SeqIs
  <2>7. \A m \in 1 .. Len(p) : SampleOf(r, p[m]) \in Samples
    BY <1>1, <2>6, SamplesOfItems, BatchSizes
  <2>8. [m \in 1 .. Len(p) |-> SampleOf(r, p[m])] \in Seq(Samples)
    <3> DEFINE f == [m \in 1 .. Len(p) |-> SampleOf(r, p[m])]
    <3>1. f \in [1 .. Len(p) -> Samples]
      BY <2>7
    <3> HIDE DEF f
    <3>2. f \in Seq(Samples)
      BY <2>6, <3>1, FunctionIsSeq
    <3> QED
      BY <3>2 DEF f
  <2>9. out(r) = [m \in 1 .. Len(p) |-> SampleOf(r, p[m])]
    BY <2>6 DEF p
  <2> QED
    BY <2>1, <2>3, <2>4, <2>8, <2>9 DEF p
<1> HIDE DEF n, part, out
<1>3. ASSUME NEW r \in Ranks
      PROVE  /\ outputs'[r] \in Seq(Seq(Samples))
             /\ Len(outputs'[r]) = n(r)
             /\ outputs'[r][n(r)] = out(r)
             /\ \A j \in 1 .. Len(outputs[r]) : outputs'[r][j] = outputs[r][j]
  <2>1. outputs'[r] = Append(outputs[r], out(r))
    BY <1>1
  <2> QED
    BY <1>2, <2>1
<1>4. outputs' = [r \in Ranks |-> outputs'[r]]
  BY <1>1
<1>5. BatchTypes'
  <2>1. outputs' \in [Ranks -> Seq(Seq(Samples))]
    BY <1>3, <1>4
  <2> QED
    BY <1>1, <2>1 DEF BatchTypes, Actors, Ranks, Samples
<1>6. TrainerInv'
  <2>1. 1 \in Ranks
    BY BatchSizes DEF Ranks
  <2>2. stage[0] = "forward"
    BY <1>1, <2>1, Working
  <2> QED
    BY <1>1, <2>2, TrainerFrame
<1>7. ASSUME NEW r \in Ranks PROVE RankInv(r)'
  <2>1. RankInv(r) /\ stage[r] = "forward"
    BY <1>1 DEF BatchIInv
  <2>2. Computed(r)
    BY <2>1 DEF RankInv
  <2>3. ASSUME NEW j \in 1 .. n(r)
        PROVE  outputs'[r][j] = [m \in 1 .. Len(micro[r][j]) |-> SampleOf(r, micro[r][j][m])]
    <3>1. CASE j = n(r)
      BY <1>2, <1>3, <3>1
    <3>2. CASE j # n(r)
      <4>1. j \in 1 .. Len(outputs[r])
        BY <1>2, <3>2
      <4>2. outputs'[r][j] = outputs[r][j]
        BY <1>3, <4>1
      <4> QED
        BY <2>2, <4>1, <4>2 DEF Computed
    <3> QED
      BY <3>1, <3>2
  <2>4. Len(outputs'[r]) <= Len(micro[r])
    BY <1>2, <1>3
  <2>5. \A j \in 1 .. Len(outputs'[r]) :
           outputs'[r][j] = [m \in 1 .. Len(micro[r][j]) |-> SampleOf(r, micro[r][j][m])]
    BY <1>3, <2>3
  <2>6. Computed(r)'
    <3>1. micro' = micro /\ order' = order
      BY <1>1
    <3> QED
      BY <2>4, <2>5, <3>1 DEF Computed, SampleOf
  <2> QED
    BY <1>1, <2>1, <2>6 DEF RankInv, Split
<1> QED
  BY <1>5, <1>6, <1>7 DEF BatchIInv

\* The outputs of a rank, put back, are those of its share in order.
LEMMA AnswersInOrder ==
  ASSUME BatchIInv, NEW r \in Ranks, stage[r] = "forward", Len(outputs[r]) = Len(micro[r]),
         NEW i \in 1 .. PerRank
  PROVE  FlattenSeq(outputs[r])[ReverseIdx(r)[i]] = SampleOf(r, i)
<1> DEFINE ss == micro[r]
           tt == outputs[r]
           k == Len(ss)
           U == 1 .. PerRank
           f == [x \in U |-> SampleOf(r, x)]
           q == Indices(r)
<1>1. BatchTypes /\ RankInv(r) /\ PerRank \in Nat
  BY BatchSizes DEF BatchIInv
<1>2. Split(ss, k, U) /\ k # 0 /\ ss \in Seq(Seq(U)) /\ tt \in Seq(Seq(Samples))
  BY <1>1 DEF RankInv, BatchTypes
<1>3. k \in Nat \ {0} /\ Len(tt) = k
  BY <1>2
<1>4. q = FlattenSeq(ss)
  BY DEF Indices
<1>5. ASSUME NEW j \in 1 .. k
      PROVE  tt[j] = [m \in 1 .. Len(ss[j]) |-> SampleOf(r, ss[j][m])]
  <2>1. Computed(r)
    BY <1>1 DEF RankInv
  <2> QED
    BY <1>3, <2>1 DEF Computed
<1> HIDE DEF ss, tt, k
<1>6. ss \in Lists(U, k) /\ tt \in Lists(Samples, k)
  <2>1. ss \in [1 .. k -> Seq(U)]
    BY <1>2 DEF k
  <2>2. tt \in [1 .. k -> Seq(Samples)]
    BY <1>2, <1>3
  <2> QED
    BY <2>1, <2>2 DEF Lists
<1>7. \A x \in U : f[x] = SampleOf(r, x)
  OBVIOUS
<1> HIDE DEF f
<1>8. ASSUME NEW j \in 1 .. k PROVE Maps(f, ss[j], tt[j])
  <2>1. ss[j] \in Seq(U) /\ tt[j] \in Seq(Samples)
    BY <1>6 DEF Lists
  <2>2. Len(ss[j]) \in Nat /\ \A m \in 1 .. Len(ss[j]) : ss[j][m] \in U
    BY <2>1, SeqIs
  <2>3. Len(tt[j]) = Len(ss[j])
    <3>1. DOMAIN tt[j] = 1 .. Len(ss[j])
      BY <1>5
    <3>2. DOMAIN tt[j] = 1 .. Len(tt[j]) /\ Len(tt[j]) \in Nat
      BY <2>1, SeqIs
    <3> QED
      BY <2>2, <3>1, <3>2
  <2>4. \A m \in 1 .. Len(ss[j]) : tt[j][m] = f[ss[j][m]]
    BY <1>5, <1>7, <2>2, ZenonT(30)
  <2> QED
    BY <2>3, <2>4 DEF Maps
<1> HIDE DEF U
<1>9. Maps(f, FlattenSeq(ss), FlattenSeq(tt))
  BY <1>3, <1>6, <1>8, FlattenMaps
<1>10. Permutes(q, PerRank)
  BY <1>1, <1>2, <1>3, <1>4, FlattenPermutes DEF U
<1>11. q \in [1 .. PerRank -> 1 .. PerRank] /\ \E j \in 1 .. PerRank : q[j] = i
  BY <1>10 DEF Permutes
<1> DEFINE j == CHOOSE l \in 1 .. PerRank : q[l] = i
<1> HIDE DEF q
<1>12. j \in 1 .. PerRank /\ q[j] = i
  BY <1>11
<1>13. ReverseIdx(r)[i] = j
  BY DEF ReverseIdx, q
<1> HIDE DEF j
<1>14. Len(q) = PerRank
  BY <1>1, <1>11, FunctionIsSeq
<1>15. FlattenSeq(tt)[j] = f[q[j]]
  BY <1>4, <1>9, <1>12, <1>14 DEF Maps
<1>16. f[i] = SampleOf(r, i)
  BY <1>7 DEF U
<1> QED
  BY <1>12, <1>13, <1>15, <1>16 DEF tt

\* Restore keeps the invariant.
LEMMA RestoreKeeps ==
  ASSUME BatchIInv, NEW r \in Ranks, Restore(r)
  PROVE  BatchIInv'
<1>1. /\ BatchTypes /\ RankInv(r) /\ stage[r] = "forward" /\ Len(outputs[r]) = Len(micro[r])
      /\ stage' = [stage EXCEPT ![r] = "restored"]
      /\ answers' = [answers EXCEPT ![r] =
            [i \in 1 .. PerRank |-> FlattenSeq(outputs[r])[ReverseIdx(r)[i]]]]
      /\ UNCHANGED <<lens, divisor, heap, order, count, micro, outputs>>
  BY DEF BatchIInv, Restore
<1>2. r \in Actors /\ r # 0 /\ 0 \in Actors /\ PerRank \in Nat /\ Items(r) = 1 .. PerRank
  BY BatchSizes
<1> DEFINE answer == [i \in 1 .. PerRank |-> SampleOf(r, i)]
<1>3. answers' = [answers EXCEPT ![r] = answer]
  <2>1. \A i \in 1 .. PerRank : FlattenSeq(outputs[r])[ReverseIdx(r)[i]] = SampleOf(r, i)
    BY <1>1, AnswersInOrder
  <2>2. [i \in 1 .. PerRank |-> FlattenSeq(outputs[r])[ReverseIdx(r)[i]]] = answer
    BY <2>1
  <2> QED
    BY <1>1, <2>2
<1>4. answer \in Seq(Samples)
  <2>1. \A i \in 1 .. PerRank : SampleOf(r, i) \in Samples
    BY <1>1, <1>2, SamplesOfItems
  <2>2. answer \in [1 .. PerRank -> Samples]
    BY <2>1
  <2> HIDE DEF answer
  <2> QED
    BY <1>2, <2>2, FunctionIsSeq
<1>5. (answers[r] = [i \in 1 .. PerRank |-> SampleOf(r, i)])'
  <2>1. answers'[r] = answer
    BY <1>1, <1>3 DEF BatchTypes
  <2> QED
    BY <1>1, <2>1 DEF SampleOf
<1> HIDE DEF answer
<1>6. /\ stage'[r] = "restored" /\ stage'[0] = stage[0]
      /\ \A q \in Ranks : q # r => stage'[q] = stage[q] /\ answers'[q] = answers[q]
  BY <1>1, <1>2, <1>3, BatchSizes DEF BatchTypes
<1>7. BatchTypes'
  <2>1. answers' \in [Ranks -> Seq(Samples)]
    BY <1>1, <1>3, <1>4 DEF BatchTypes
  <2> QED
    BY <1>1, <2>1 DEF BatchTypes, Actors, Ranks, Samples
<1>8. TrainerInv'
  <2>1. stage[0] = "forward"
    BY <1>1, Working
  <2> QED
    BY <1>1, <1>6, <2>1, TrainerFrame
<1>9. RankInv(r)'
  <2>1. Computed(r)'
    BY <1>1, SMTT(30) DEF RankInv, Computed, SampleOf
  <2>2. count'[r] \in 1 .. PerRank /\ heap'[r] = {}
    BY <1>1 DEF RankInv
  <2>3. Split(micro[r], Len(micro[r]), 1 .. PerRank) /\ Len(micro[r]) # 0 /\ micro' = micro
    BY <1>1 DEF RankInv
  <2>5. Split(micro'[r], Len(micro'[r]), 1 .. PerRank) /\ Len(micro'[r]) # 0
    BY <2>3
  <2>4. (Split(micro[r], Len(micro[r]), 1 .. PerRank) /\ Len(micro[r]) # 0)'
    BY <2>5 DEF Split
  <2> QED
    BY <1>5, <1>6, <2>1, <2>2, <2>4 DEF RankInv
<1>10. ASSUME NEW q \in Ranks, q # r PROVE RankInv(q)'
  BY <1>1, <1>6, <1>10, RankFrame
<1> QED
  BY <1>7, <1>8, <1>9, <1>10 DEF BatchIInv

\* The initial states.
LEMMA BatchStarts == BatchInit => BatchIInv
<1> SUFFICES ASSUME BatchInit PROVE BatchIInv
  OBVIOUS
<1>1. BatchTypes
  <2>1. order \in [Samples -> Samples]
    BY DEF BatchInit
  <2>2. /\ micro \in [Ranks -> Seq(Seq(1 .. PerRank))]
        /\ outputs \in [Ranks -> Seq(Seq(Samples))]
        /\ answers \in [Ranks -> Seq(Samples)]
    BY DEF BatchInit
  <2>3. count \in [Ranks -> 0 .. PerRank]
    BY BatchSizes DEF BatchInit
  <2>4. stage \in [Actors -> {"idle", "raised", "reduce", "partition", "forward",
                              "restored", "refused", "failed", "done"}]
    BY DEF BatchInit
  <2>5. heap = [a \in Actors |-> heap[a]] /\ lens \in Batches /\ divisor \in Divisors
    BY DEF BatchInit
  <2> QED
    BY <2>1, <2>2, <2>3, <2>4, <2>5 DEF BatchTypes
<1>2. TrainerInv
  BY BatchSizes DEF BatchInit, TrainerInv
<1>3. ASSUME NEW r \in Ranks PROVE RankInv(r)
  <2>1. r \in Actors /\ r # 0
    BY BatchSizes
  <2>2. stage[r] = "idle" /\ heap[r] = {} /\ micro[r] = <<>> /\ outputs[r] = <<>>
    BY <2>1 DEF BatchInit
  <2> QED
    BY <2>2 DEF RankInv, Computed
<1> QED
  BY <1>1, <1>2, <1>3 DEF BatchIInv

\* A step that changes nothing.
LEMMA StutterKeeps == BatchIInv /\ UNCHANGED batchVars => BatchIInv'
<1> SUFFICES ASSUME BatchIInv, UNCHANGED batchVars PROVE BatchIInv'
  OBVIOUS
<1>1. BatchTypes'
  BY DEF BatchIInv, BatchTypes, batchVars, Actors, Ranks, Samples
<1>2. Items(0)' = Items(0) /\ Loads(0)' = Loads(0)
  BY BatchSizes, SameLoads DEF batchVars
<1>3. TrainerInv'
  <2>1. (stage[0] = "partition" => GoodHeap(Items(0), Loads(0), DP, TRUE, heap[0]))'
    BY <1>2 DEF BatchIInv, TrainerInv, batchVars
  <2> QED
    BY <2>1 DEF BatchIInv, TrainerInv, batchVars, Samples
<1>4. \A r \in Ranks : RankInv(r)'
  BY RankFrame DEF batchVars
<1> QED
  BY <1>1, <1>3, <1>4 DEF BatchIInv

\* BatchIInv is inductive: one lemma above for every action.
LEMMA BatchInvariance == BatchSpec => []BatchIInv
<1>1. ASSUME BatchIInv, [BatchNext]_batchVars PROVE BatchIInv'
  <2>1. CASE BatchNext
    <3>1. CASE Balance
      BY <1>1, <3>1, BalanceKeeps
    <3>2. CASE Merge(0)
      BY <1>1, <3>2, MergeStepKeeps, BatchSizes
    <3>3. CASE Dispatch
      BY <1>1, <3>3, DispatchKeeps
    <3>4. CASE Collect
      BY <1>1, <3>4, CollectKeeps
    <3>5. CASE AllReduce
      BY <1>1, <3>5, AllReduceKeeps
    <3>6. CASE Forward
      BY <1>1, <3>6, ForwardKeeps
    <3>7. ASSUME NEW r \in Ranks, Rank(r) PROVE BatchIInv'
      <4>1. CASE Plan(r)
        BY <1>1, <4>1, PlanKeeps
      <4>2. CASE Merge(r)
        BY <1>1, <4>2, MergeStepKeeps, BatchSizes
      <4>3. CASE Arrange(r)
        BY <1>1, <4>3, ArrangeKeeps
      <4>4. CASE Restore(r)
        BY <1>1, <4>4, RestoreKeeps
      <4> QED
        BY <3>7, <4>1, <4>2, <4>3, <4>4 DEF Rank
    <3> QED
      BY <2>1, <3>1, <3>2, <3>3, <3>4, <3>5, <3>6, <3>7 DEF BatchNext, Trainer, Together
  <2>2. CASE UNCHANGED batchVars
    BY <1>1, <2>2, StutterKeeps
  <2> QED
    BY <1>1, <2>1, <2>2
<1> QED
  BY <1>1, BatchStarts, PTL DEF BatchSpec

\* What the ranks and the trainer keep of a batch has its type: a rank's lists
\* of positions and of samples name nothing outside its share and the batch,
\* and a State has as many Sets as partitions are asked for.
THEOREM BatchTypesCorrect == BatchSpec => []BatchTypeOK
<1>1. BatchIInv => BatchTypeOK
  <2> SUFFICES ASSUME BatchIInv PROVE BatchTypeOK
    OBVIOUS
  <2>1. BatchTypes
    BY DEF BatchIInv
  <2>2. ASSUME NEW a \in Actors, NEW st \in heap[a] PROVE st \in [1 .. Parts(a) -> Sets]
    <3>1. SetsOf(Items(a)) \subseteq Sets
      <4>1. Items(a) \in SUBSET Nat
        BY BatchSizes DEF Items, Samples
      <4>2. SetsOf(Items(a)) \subseteq SetsOf(Nat)
        BY <4>1, SetsOfNaturals
      <4> QED
        BY <4>2 DEF SetsOf, Sets
    <3>2. CASE a = 0
      <4>1. GoodHeap(Items(0), Loads(0), DP, TRUE, heap[0])
        BY <2>2, <3>2 DEF BatchIInv, TrainerInv
      <4>2. st \in [1 .. DP -> SetsOf(Items(0))]
        BY <2>2, <3>2, <4>1 DEF GoodHeap, GoodState, FairState
      <4> QED
        BY <3>1, <3>2, <4>2 DEF Parts
    <3>3. CASE a # 0
      <4>1. a \in Ranks
        BY <3>3 DEF Actors, Ranks
      <4>2. GoodHeap(Items(a), Loads(a), count[a], FALSE, heap[a])
        BY <2>2, <4>1 DEF BatchIInv, RankInv
      <4>3. st \in [1 .. count[a] -> SetsOf(Items(a))]
        BY <2>2, <4>2 DEF GoodHeap, GoodState, FairState
      <4> QED
        BY <3>1, <3>3, <4>3 DEF Parts
    <3> QED
      BY <3>2, <3>3
  <2>3. ASSUME NEW r \in Ranks
        PROVE  /\ \A j \in DOMAIN micro[r] : micro[r][j] \in Seq(1 .. PerRank)
               /\ \A j \in DOMAIN outputs[r] : outputs[r][j] \in Seq(Samples)
               /\ answers[r] \in Seq(Samples)
    <3>1. /\ micro[r] \in Seq(Seq(1 .. PerRank)) /\ outputs[r] \in Seq(Seq(Samples))
          /\ answers[r] \in Seq(Samples)
      BY <2>1 DEF BatchTypes
    <3> QED
      BY <3>1
  <2> QED
    BY <2>1, <2>2, <2>3 DEF BatchTypes, BatchTypeOK
<1> QED
  BY <1>1, BatchInvariance, PTL

\* For any ranks, samples and token counts: throughout karmarkar_karp the Sets
\* of a State differ by no more than the load of one item, and so do at its
\* end the loads of the ranks and those of the micro-batches of a rank.
THEOREM BatchesStayBalanced == BatchSpec => []Balanced
<1>1. BatchIInv => Balanced
  <2> SUFFICES ASSUME BatchIInv, NEW a \in Actors, NEW st \in heap[a],
                      NEW i \in 1 .. Parts(a), NEW j \in 1 .. Parts(a)
               PROVE  \E x \in Items(a) : st[i].sum - st[j].sum <= Load(a, x)
    BY DEF Balanced
  <2>1. \A x \in Items(a) : Load(a, x) = Loads(a)[x]
    BY LoadsPositive DEF BatchIInv
  <2>2. CASE a = 0
    <3>1. GoodHeap(Items(a), Loads(a), Parts(a), TRUE, heap[a])
      BY <2>2 DEF BatchIInv, TrainerInv, Parts
    <3> QED
      BY <2>1, <3>1 DEF GoodHeap, GoodState, FairState
  <2>3. CASE a # 0
    <3>1. a \in Ranks
      BY <2>3 DEF Actors, Ranks
    <3>2. GoodHeap(Items(a), Loads(a), Parts(a), FALSE, heap[a])
      BY <2>3, <3>1 DEF BatchIInv, RankInv, Parts
    <3> QED
      BY <2>1, <3>2 DEF GoodHeap, GoodState, FairState
  <2> QED
    BY <2>2, <2>3
<1> QED
  BY <1>1, BatchInvariance, PTL

\* The assertions on the partitions never fail: for any ranks, samples, token
\* counts and numbers of micro-batches the code accepts, no rank and no
\* micro-batch is left without samples, and the ranks have equally many.
THEOREM NoPartitionEmpty == BatchSpec => []NoneEmpty
<1>1. BatchIInv => NoneEmpty
  <2> SUFFICES ASSUME BatchIInv, NEW a \in Actors PROVE stage[a] # "failed"
    BY DEF NoneEmpty
  <2>1. a = 0 \/ a \in Ranks
    BY DEF Actors, Ranks
  <2> QED
    BY <2>1 DEF BatchIInv, TrainerInv, RankInv
<1> QED
  BY <1>1, BatchInvariance, PTL

\* Over the trainer's reordering, the dispatch, the micro-batches and their
\* rearrangement, the output of every sample comes back at the sample's place,
\* and no sample is there twice.
THEOREM OutputsComeBack == BatchSpec => []OutputsInPlace
<1>1. BatchIInv => OutputsInPlace
  <2> SUFFICES ASSUME BatchIInv, stage[0] = "done"
               PROVE  /\ Result = order
                      /\ \A s, t \in Samples : order[s] = order[t] => s = t
    BY DEF OutputsInPlace
  <2>1. BatchTypes /\ TrainerInv
    BY DEF BatchIInv
  <2>2. \A s, t \in Samples : order[s] = order[t] => s = t
    BY <2>1 DEF TrainerInv
  <2>3. ASSUME NEW r \in Ranks
        PROVE  answers[r] = [i \in 1 .. PerRank |-> order[(r - 1) * PerRank + i]]
    <3>1. answers[r] = [i \in 1 .. PerRank |-> SampleOf(r, i)]
      BY <2>1 DEF TrainerInv, BatchIInv, RankInv
    <3>2. r # 0
      BY BatchSizes
    <3> QED
      BY <3>1, <3>2 DEF SampleOf
  <2>4. DP \in Nat \ {0} /\ PerRank \in Nat \ {0}
    BY BatchSizes
  <2>5. answers \in Lists(Samples, DP)
    BY <2>1 DEF BatchTypes, Lists, Ranks
  <2>6. order \in [1 .. DP * PerRank -> Samples]
    BY <2>1 DEF BatchTypes, Samples
  <2>7. \A j \in 1 .. DP : /\ Len(answers[j]) = PerRank
                           /\ \A m \in 1 .. PerRank : answers[j][m] = order[(j - 1) * PerRank + m]
    <3> TAKE j \in 1 .. DP
    <3>1. answers[j] = [i \in 1 .. PerRank |-> order[(j - 1) * PerRank + i]] /\ answers[j] \in Seq(Samples)
      BY <2>3, <2>5 DEF Ranks, Lists
    <3> DEFINE s == answers[j]
    <3>2. DOMAIN s = 1 .. PerRank /\ \A m \in 1 .. PerRank : s[m] = order[(j - 1) * PerRank + m]
      BY <3>1
    <3>3. DOMAIN s = 1 .. Len(s) /\ Len(s) \in Nat
      BY <3>1, SeqIs
    <3> HIDE DEF s
    <3>4. Len(s) = PerRank
      BY <2>4, <3>2, <3>3
    <3> QED
      BY <3>2, <3>4 DEF s
  <2>8. FlattenSeq(answers) = order
    <3>1. InRows(Samples, DP, PerRank, answers, order)
      BY <2>5, <2>6, <2>7 DEF InRows
    <3> QED
      BY <2>4, <3>1, FlattenRows
  <2> QED
    BY <2>2, <2>8 DEF Result
<1> QED
  BY <1>1, BatchInvariance, PTL
=============================================================================
