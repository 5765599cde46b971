----------------------------- MODULE LoadBalancer -----------------------------
(***************************************************************************)
(* GlobalRequestLoadBalancer, the actor that assigns turns of conversations *)
(* to LLM servers, and its callers: AsyncLLMServerManager.generate in the   *)
(* agent loops.  A turn acquires a server, generates there, and releases    *)
(* the server without waiting for an answer.                                *)
(*                                                                          *)
(* The calls of one conversation reach the actor in the order they are      *)
(* made (a Ray actor serves one caller in order); those of different        *)
(* conversations, which may run in different workers, in any order.         *)
(***************************************************************************)
EXTENDS Integers, FiniteSets, Sequences

CONSTANTS
    Requests,    \* request_ids: conversations
    NServers,    \* LLM servers, in the order of the dictionary
    CacheSize,   \* max_cache_size
    MaxTurns,    \* bound: turns of a conversation
    NoServer

Servers == 1 .. NServers

ASSUME ServersAssumption == NServers \in Nat \ {0} /\ NoServer \notin Servers
ASSUME RequestsAssumption == IsFiniteSet(Requests)
ASSUME BoundsAssumption == CacheSize \in Nat \ {0} /\ MaxTurns \in Nat

VARIABLES
    inflight,   \* _inflight_requests
    cached,     \* _request_id_to_server: server of a request, or NoServer
    recency,    \* keys of the LRU cache, least recently used first
    turn,       \* turn[r]: where the current turn of r is
    server,     \* the server of the last turn acquired
    owed,       \* the server that a release on its way names
    turns,      \* turns begun
    others      \* history: requests that acquired since r did

balancer == <<inflight, cached, recency>>
callers == <<turn, server, owed, turns>>
vars == <<balancer, callers, others>>

Stages == {"idle", "asked", "generating", "over"}
Assigned == Servers \union {NoServer}

TypeOK ==
    /\ inflight \in [Servers -> Nat]
    /\ cached \in [Requests -> Assigned]
    /\ recency \in Seq(Requests)
    /\ turn \in [Requests -> Stages]
    /\ server \in [Requests -> Assigned]
    /\ owed \in [Requests -> Assigned]
    /\ turns \in [Requests -> 0 .. MaxTurns]
    /\ others \in [Requests -> SUBSET Requests]

Init ==
    /\ inflight = [s \in Servers |-> 0]
    /\ cached = [r \in Requests |-> NoServer]
    /\ recency = <<>>
    /\ turn = [r \in Requests |-> "idle"]
    /\ server = [r \in Requests |-> NoServer]
    /\ owed = [r \in Requests |-> NoServer]
    /\ turns = [r \in Requests |-> 0]
    /\ others = [r \in Requests |-> {}]

------------------------------------------------------------------------------
(* The callers *)

\* generate() begins: the call of acquire_server is on its way.
Ask(r) ==
    /\ turn[r] = "idle"
    /\ turns[r] < MaxTurns
    /\ turn' = [turn EXCEPT ![r] = "asked"]
    /\ turns' = [turns EXCEPT ![r] = @ + 1]
    /\ UNCHANGED <<balancer, server, owed, others>>

\* Mutant: no release if the generation fails.
FinishUnprotected(r) ==
    /\ turn[r] = "generating"
    /\ \/ /\ turn' = [turn EXCEPT ![r] = "idle"]
          /\ owed' = [owed EXCEPT ![r] = server[r]]
       \/ /\ turn' = [turn EXCEPT ![r] = "over"]
          /\ UNCHANGED owed
    /\ UNCHANGED <<balancer, server, turns, others>>

\* The server has answered, or failed; `finally` sends the release, and the
\* conversation goes on or is over.
Finish(r) ==
    /\ turn[r] = "generating"
    /\ turn' \in {[turn EXCEPT ![r] = next] : next \in {"idle", "over"}}
    /\ owed' = [owed EXCEPT ![r] = server[r]]
    /\ UNCHANGED <<balancer, server, turns, others>>

------------------------------------------------------------------------------
(* The actor *)

\* What min() returns: the first, in the order of the dictionary, of the least
\* loaded servers.
LeastLoaded(s) ==
    \A t \in Servers : \/ inflight[s] < inflight[t]
                       \/ inflight[s] = inflight[t] /\ s <= t

Cached(r) == cached[r] # NoServer

\* The server that r has in the cache, or else the least loaded one.
Choice(r, s) == IF Cached(r) THEN s = cached[r] ELSE LeastLoaded(s)

\* Mutant: a hit does not refresh the key.
UsedOnce(r) == IF Cached(r) THEN recency ELSE Append(recency, r)

\* The other keys: r is among them once at most.
Others(r) ==
    IF \E n \in DOMAIN recency : recency[n] = r
    THEN LET n == CHOOSE n \in DOMAIN recency : recency[n] = r
         IN  SubSeq(recency, 1, n - 1) \o SubSeq(recency, n + 1, Len(recency))
    ELSE recency

\* A hit or a store makes r the most recently used key.
Used(r) == Append(Others(r), r)

\* A full cache drops the least recently used key.
Dropped(used) == IF Len(used) > CacheSize THEN {Head(used)} ELSE {}

\* acquire_server: sticky, or else the least loaded server.
Acquire(r) ==
    /\ turn[r] = "asked"
    /\ owed[r] = NoServer
    /\ \E s \in Servers :
          /\ Choice(r, s)
          /\ inflight' = [inflight EXCEPT ![s] = @ + 1]
          /\ server' = [server EXCEPT ![r] = s]
          /\ cached' = [q \in Requests |-> IF q \in Dropped(Used(r)) THEN NoServer
                                           ELSE IF q = r THEN s ELSE cached[q]]
    /\ recency' = IF Dropped(Used(r)) = {} THEN Used(r) ELSE Tail(Used(r))
    /\ turn' = [turn EXCEPT ![r] = "generating"]
    /\ others' = [q \in Requests |-> IF q = r THEN {} ELSE others[q] \union {r}]
    /\ UNCHANGED <<owed, turns>>

\* release_server.  A count that is zero is an exception nobody awaits: the
\* call has no effect.
Release(r) ==
    /\ owed[r] # NoServer
    /\ inflight' = IF inflight[owed[r]] <= 0 THEN inflight
                   ELSE [inflight EXCEPT ![owed[r]] = @ - 1]
    /\ owed' = [owed EXCEPT ![r] = NoServer]
    /\ UNCHANGED <<cached, recency, turn, server, turns, others>>

------------------------------------------------------------------------------
\* All conversations have ended.
Terminating ==
    /\ \A r \in Requests : /\ turn[r] = "over" \/ turns[r] = MaxTurns
                           /\ turn[r] \notin {"asked", "generating"}
                           /\ owed[r] = NoServer
    /\ UNCHANGED vars

Turn(r) == Ask(r) \/ Acquire(r) \/ Finish(r) \/ Release(r)

Next == (\E r \in Requests : Turn(r)) \/ Terminating

Spec == Init /\ [][Next]_vars

\* Calls arrive and are served, generations end.
FairSpec == Spec /\ \A r \in Requests :
                      WF_vars(Acquire(r)) /\ WF_vars(Finish(r)) /\ WF_vars(Release(r))

------------------------------------------------------------------------------
(* Properties *)

\* A server's count, by which the next server is chosen, is the number of turns
\* on it and of releases on their way: none is lost or counted twice, whether
\* generations succeed or fail.
Generating(s) == {r \in Requests : turn[r] = "generating" /\ server[r] = s}
Releasing(s) == {r \in Requests : owed[r] = s}

CountsExact ==
    \A s \in Servers :
        inflight[s] = Cardinality(Generating(s)) + Cardinality(Releasing(s))

\* Multi-turn conversations stay on one server ("send multi-turn chat
\* completions to same server"), if fewer than max_cache_size other ones took a
\* turn in between.
Sticky ==
    \A r \in Requests :
        server[r] # NoServer /\ Cardinality(others[r]) < CacheSize
            => cached[r] = server[r]

\* However the turns end, the counts return to zero when no more are begun
\* (their number is bounded here): no server looks loaded for ever.
Drains == <>[](\A s \in Servers : inflight[s] = 0)
=============================================================================
