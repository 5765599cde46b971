------------------------- MODULE PartialRolloutProofs -------------------------
(***************************************************************************)
(* Theorems about PartialRollout for any sessions, servers, lengths, turns *)
(* and updates.  What concerns the versions of tokens needs                *)
(* PausesGeneration: a server that has aborted takes no new request; what  *)
(* concerns the split of the output needs PartialRollout.                  *)
(***************************************************************************)
EXTENDS PartialRollout, SequenceTheorems, TLAPS

\* A request has a server; a session generates while it has a call; what has
\* joined the trajectory is gone from the call.
CallInv ==
    \A c \in Sessions :
        /\ call[c] \in {"sent", "running"} => server[c] \in Servers
        /\ call[c] # "running" => fresh[c] = <<>>
        /\ state[c] = "GENERATING" <=> call[c] # "none"
        /\ call[c] = "none" => final[c] = <<>> /\ span[c] = <<>>
        /\ call[c] = "answered" => span[c] # <<>>
        /\ state[c] = "PENDING" => prompt[c] = <<>> /\ mask[c] = <<>>
                                   /\ logprobs[c] = 0 /\ fields[c] = <<>>
-----------------------------------------------------------------------------
LEMMA Constants ==
  /\ PromptLength \in Nat /\ ResponseLength \in Nat /\ ResponseLength > 0
  /\ PromptLens \subseteq Nat /\ ToolLens \subseteq Nat
  /\ MaxVersion \in Nat /\ NoServer \notin Servers
  /\ PartialRollout \in BOOLEAN /\ PausesGeneration \in BOOLEAN
BY LengthsAssumption, TurnsAssumption, ServersAssumption, ModesAssumption

\* Versions are told from the other tokens.
LEMMA TokenFacts ==
  /\ Versions \subseteq Nat /\ 0 \in Versions
  /\ Versions \subseteq Generated /\ Torn \in Generated /\ Torn \notin Versions
  /\ Generated \subseteq Tokens
  /\ PromptToken \in Tokens \ Generated /\ ToolToken \in Tokens \ Generated
  /\ Tokens \subseteq Int
BY Constants DEF Versions, Generated, Tokens, Torn, PromptToken, ToolToken

LEMMA Repeated ==
  ASSUME NEW S, NEW x \in S, NEW n \in Nat
  PROVE  /\ Repeat(x, n) \in Seq(S) /\ Len(Repeat(x, n)) = n
         /\ \A i \in 1 .. n : Repeat(x, n)[i] = x
BY DEF Repeat

LEMMA MaxTokensType == \A n \in Nat : MaxTokens(n) \in 0 .. ResponseLength
BY Constants DEF MaxTokens, Least

LEMMA MergedType == \A sp \in Spans, v \in Versions : Merged(sp, v) \in Spans /\ Merged(sp, v) # <<>>
BY DEF Spans, Merged

LEMMA UpdatedType == \A f, sp \in Spans : sp # <<>> => Updated(f, sp) \in Spans
BY DEF Spans, Updated

LEMMA SeqUp == \A s \in Seq(Generated) : s \in Seq(Tokens)
BY TokenFacts, SeqMonotonic

\* How the parts of a trajectory may be put together.
LEMMA Concatenations ==
  ASSUME NEW s \in Seq(Tokens), NEW t \in Seq(Tokens), NEW u \in Seq(Tokens)
  PROVE  /\ s \o t \in Seq(Tokens)
         /\ s \o (t \o u) = (s \o t) \o u
         /\ s \o <<>> = s /\ <<>> \o s = s
BY ConcatProperties, ConcatAssociative, ConcatEmptySeq, SMTT(30)

LEMMA OneToken ==
  ASSUME NEW x \in Tokens
  PROVE  /\ <<x>> \in Seq(Tokens)
         /\ \A s \in Seq(Tokens) : Append(s, x) = s \o <<x>>
<1>1. <<x>> \in Seq(Tokens)
  OBVIOUS
<1>2. ASSUME NEW s \in Seq(Tokens) PROVE Append(s, x) = s \o <<x>>
  BY AppendIsConcat
<1> QED
  BY <1>1, <1>2

LEMMA LastToken ==
  ASSUME NEW p \in Seq(Tokens), NEW f \in Seq(Tokens), NEW r \in Seq(Tokens), NEW x \in Tokens
  PROVE  /\ (p \o f) \o (r \o <<x>>) = ((p \o f) \o r) \o <<x>>
         /\ p \o ((f \o r) \o <<x>>) = ((p \o f) \o r) \o <<x>>
<1>1. <<x>> \in Seq(Tokens) /\ p \o f \in Seq(Tokens) /\ f \o r \in Seq(Tokens)
  BY OneToken, Concatenations
<1>2. p \o ((f \o r) \o <<x>>) = (p \o (f \o r)) \o <<x>>
  BY <1>1, Concatenations
<1>3. p \o (f \o r) = (p \o f) \o r
  BY Concatenations
<1> QED
  BY <1>1, <1>2, <1>3, Concatenations, SMTT(30)
-----------------------------------------------------------------------------
TypesInv == TypeOK /\ CallInv

LEMMA TypesInit == Init => TypesInv
BY Constants, TokenFacts, EmptySeq DEF Init, TypesInv, TypeOK, CallInv, Spans

LEMMA TypesStep == TypesInv /\ [Next]_vars => TypesInv'
<1> SUFFICES ASSUME TypesInv, [Next]_vars PROVE TypesInv'
  OBVIOUS
<1> USE DEF TypesInv
<1>1. CASE UNCHANGED vars
  BY <1>1 DEF vars, serverVars, loopVars, callVars, TypeOK, CallInv
<1>2. CASE BeginUpdate
  BY <1>2, Constants DEF BeginUpdate, loopVars, callVars, TypeOK, CallInv, Versions
<1>3. ASSUME NEW s \in Servers, AbortAll(s) PROVE TypesInv'
  <2>1. TypeOK'
    BY <1>3, Constants, MergedType, ConcatProperties, EmptySeq DEF AbortAll, loopVars, TypeOK
  <2>2. CallInv'
    BY <1>3, Constants, MergedType DEF AbortAll, Running, loopVars, TypeOK, CallInv
  <2> QED
    BY <2>1, <2>2
<1>4. CASE BeginTransfer
  BY <1>4 DEF BeginTransfer, loopVars, callVars, TypeOK, CallInv
<1>5. ASSUME NEW s \in Servers, Load(s) PROVE TypesInv'
  BY <1>5 DEF Load, loopVars, callVars, TypeOK, CallInv
<1>6. ASSUME NEW s \in Servers, Resume(s) PROVE TypesInv'
  BY <1>6 DEF Resume, loopVars, callVars, TypeOK, CallInv
<1>7. ASSUME NEW c \in Sessions, Submit(c) PROVE TypesInv'
  <2>1. Len(prompt[c]) + Len(final[c]) \in Nat
    BY LenProperties DEF TypeOK
  <2>2. MaxTokens(Len(prompt[c]) + Len(final[c])) \in 0 .. ResponseLength
    BY <2>1, MaxTokensType
  <2>3. PICK s \in Servers : server' = [server EXCEPT ![c] = s]
    BY <1>7 DEF Submit
  <2>4. TypeOK'
    BY <1>7, <2>2, <2>3 DEF Submit, serverVars, loopVars, TypeOK
  <2>5. CallInv'
    BY <1>7, <2>3 DEF Submit, serverVars, loopVars, TypeOK, CallInv
  <2> QED
    BY <2>4, <2>5
<1>8. ASSUME NEW c \in Sessions, Start(c) PROVE TypesInv'
  BY <1>8, SMTT(30) DEF Start, serverVars, loopVars, TypeOK, CallInv
<1>9. ASSUME NEW c \in Sessions, call[c] = "running"
      PROVE  server[c] \in Servers /\ Sampled(server[c]) \in Generated /\ label[server[c]] \in Versions
  BY <1>9, TokenFacts DEF TypeOK, CallInv, Sampled
<1>10. ASSUME NEW c \in Sessions, Decode(c) PROVE TypesInv'
  <2>1. Append(fresh[c], Sampled(server[c])) \in Seq(Generated)
    BY <1>9, <1>10, AppendProperties DEF Decode, TypeOK
  <2> QED
    BY <1>10, <2>1 DEF Decode, serverVars, loopVars, TypeOK, CallInv
<1>11. ASSUME NEW c \in Sessions, Finish(c) PROVE TypesInv'
  <2>1. (final[c] \o fresh[c]) \o <<Sampled(server[c])>> \in Seq(Generated)
    BY <1>9, <1>11, ConcatProperties DEF Finish, TypeOK
  <2>2. Merged(span[c], label[server[c]]) \in Spans \ {<<>>}
    BY <1>9, <1>11, MergedType DEF Finish, TypeOK
  <2>3. TypeOK'
    BY <1>11, <2>1, <2>2, EmptySeq, Constants, SMTT(30) DEF Finish, serverVars, loopVars, TypeOK
  <2>4. CallInv'
    BY <1>11, <2>2, Constants, SMTT(30) DEF Finish, serverVars, loopVars, TypeOK, CallInv
  <2> QED
    BY <2>3, <2>4
<1>12. ASSUME NEW c \in Sessions, HandlePending(c) PROVE TypesInv'
  <2>1. PICK n \in Nat : prompt' = [prompt EXCEPT ![c] = Repeat(PromptToken, n)]
    BY <1>12, Constants DEF HandlePending
  <2>2. Repeat(PromptToken, n) \in Seq(Tokens)
    BY TokenFacts, Repeated
  <2> QED
    BY <1>12, <2>1, <2>2, ZenonT(30) DEF HandlePending, Generate, serverVars, TypeOK, CallInv
<1>13. ASSUME NEW c \in Sessions, HandleGenerated(c) PROVE TypesInv'
  <2>1. final[c] \in Seq(Tokens) /\ Len(final[c]) \in Nat
    BY SeqUp, LenProperties DEF TypeOK
  <2>2. prompt[c] \o final[c] \in Seq(Tokens)
    BY <2>1, ConcatProperties DEF TypeOK
  <2>3. mask[c] \o Repeat(1, Len(final[c])) \in Seq({0, 1})
    BY <2>1, Repeated, ConcatProperties DEF TypeOK
  <2>4. Updated(fields[c], span[c]) \in Spans
    BY <1>13, UpdatedType DEF HandleGenerated, TypeOK, CallInv
  <2>5. PICK next \in {"PROCESSING_TOOLS", "TERMINATED"} : state' = [state EXCEPT ![c] = next]
    BY <1>13 DEF HandleGenerated
  <2>6. TypeOK'
    <3>1. prompt' \in [Sessions -> Seq(Tokens)] /\ mask' \in [Sessions -> Seq({0, 1})]
      BY <1>13, <2>2, <2>3 DEF HandleGenerated, TypeOK
    <3>2. turns' \in [Sessions -> [assistant : Nat, user : Nat]]
      <4> DEFINE one == [turns[c] EXCEPT !.assistant = @ + 1]
      <4>1. turns[c] \in [assistant : Nat, user : Nat]
        BY DEF TypeOK
      <4>2. one \in [assistant : Nat, user : Nat]
        BY <4>1
      <4>3. turns' = [turns EXCEPT ![c] = one]
        BY <1>13 DEF HandleGenerated
      <4> QED
        BY <4>2, <4>3 DEF TypeOK
    <3>3. /\ logprobs' \in [Sessions -> Nat]
          /\ fields' \in [Sessions -> Spans] /\ span' \in [Sessions -> Spans]
      BY <1>13, <2>1, <2>4, SMTT(30) DEF HandleGenerated, TypeOK, Spans
    <3>4. final' \in [Sessions -> Seq(Generated)]
      BY <1>13, EmptySeq DEF HandleGenerated, TypeOK
    <3> QED
      BY <1>13, <2>5, <3>1, <3>2, <3>3, <3>4 DEF HandleGenerated, serverVars, TypeOK
  <2>7. CallInv'
    BY <1>13, <2>5 DEF HandleGenerated, serverVars, TypeOK, CallInv
  <2> QED
    BY <2>6, <2>7
<1>14. ASSUME NEW c \in Sessions, HandleTools(c) PROVE TypesInv'
  <2>1. PICK n \in ToolLens :
          IF Len(mask[c]) + n >= ResponseLength
          THEN /\ state' = [state EXCEPT ![c] = "TERMINATED"]
               /\ UNCHANGED <<prompt, mask, logprobs, turns, callVars>>
          ELSE /\ prompt' = [prompt EXCEPT ![c] = @ \o Repeat(ToolToken, n)]
               /\ mask' = [mask EXCEPT ![c] = @ \o Repeat(0, n)]
               /\ logprobs' = [logprobs EXCEPT ![c] = IF @ = 0 THEN 0 ELSE @ + n]
               /\ turns' = [turns EXCEPT ![c].user = @ + 1]
               /\ Generate(c)
    BY <1>14 DEF HandleTools
  <2>2. n \in Nat
    BY Constants
  <2>3. prompt[c] \o Repeat(ToolToken, n) \in Seq(Tokens) /\ mask[c] \o Repeat(0, n) \in Seq({0, 1})
    BY <2>2, TokenFacts, Repeated, ConcatProperties DEF TypeOK
  <2>4. CASE Len(mask[c]) + n >= ResponseLength
    <3>1. TypeOK'
      BY <1>14, <2>1, <2>4, ZenonT(30) DEF HandleTools, callVars, serverVars, TypeOK
    <3>2. CallInv'
      BY <1>14, <2>1, <2>4, SMTT(30) DEF HandleTools, callVars, serverVars, TypeOK, CallInv
    <3> QED
      BY <3>1, <3>2
  <2>5. CASE ~(Len(mask[c]) + n >= ResponseLength)
    <3>1. /\ prompt' = [prompt EXCEPT ![c] = @ \o Repeat(ToolToken, n)]
          /\ mask' = [mask EXCEPT ![c] = @ \o Repeat(0, n)]
          /\ logprobs' = [logprobs EXCEPT ![c] = IF @ = 0 THEN 0 ELSE @ + n]
          /\ turns' = [turns EXCEPT ![c].user = @ + 1]
          /\ Generate(c)
      BY <2>1, <2>5
    <3>2. /\ state[c] = "PROCESSING_TOOLS"
          /\ UNCHANGED <<version, weights, label, phase, fields, output>>
      BY <1>14 DEF HandleTools, serverVars
    <3>3. TypeOK'
      <4>1. prompt' \in [Sessions -> Seq(Tokens)] /\ mask' \in [Sessions -> Seq({0, 1})]
        BY <2>3, <3>1 DEF TypeOK
      <4>2. logprobs' \in [Sessions -> Nat]
        BY <2>2, <3>1 DEF TypeOK
      <4>3. turns' \in [Sessions -> [assistant : Nat, user : Nat]]
        <5> DEFINE one == [turns[c] EXCEPT !.user = @ + 1]
        <5>1. turns[c] \in [assistant : Nat, user : Nat]
          BY DEF TypeOK
        <5>2. one \in [assistant : Nat, user : Nat]
          BY <5>1
        <5>3. turns' = [turns EXCEPT ![c] = one]
          BY <3>1
        <5> QED
          BY <5>2, <5>3 DEF TypeOK
      <4> QED
        BY <3>1, <3>2, <4>1, <4>2, <4>3 DEF Generate, TypeOK
    <3>4. CallInv'
      BY <3>1, <3>2 DEF Generate, TypeOK, CallInv
    <3> QED
      BY <3>3, <3>4
  <2> QED
    BY <2>4, <2>5
<1>15. ASSUME NEW c \in Sessions, Finalize(c) PROVE TypesInv'
  BY <1>15 DEF Finalize, serverVars, callVars, TypeOK, CallInv
<1> QED
  BY <1>1, <1>2, <1>3, <1>4, <1>5, <1>6, <1>7, <1>8, <1>10, <1>11, <1>12, <1>13, <1>14, <1>15
     DEF Next, Update, Request, Loop

\* Every variable keeps its type, and calls and sessions go together.
THEOREM TypeCorrect == Spec => []TypeOK
BY TypesInit, TypesStep, PTL DEF Spec, TypesInv
-----------------------------------------------------------------------------
(***************************************************************************)
(* A step extends a trajectory by tokens nobody generated, or by the one   *)
(* that its server samples.                                                *)
(***************************************************************************)
Foreign(u) == \A i \in DOMAIN u : u[i] \notin Generated
SampledFor(c, u) == call[c] = "running" /\ u = <<Sampled(server[c])>>
Extended(c) ==
    \E u \in Seq(Tokens) :
        /\ Trajectory(c)' = Trajectory(c) \o u
        /\ Foreign(u) \/ SampledFor(c, u)

LEMMA Parts ==
  ASSUME TypesInv, NEW c \in Sessions
  PROVE  /\ prompt[c] \in Seq(Tokens) /\ final[c] \in Seq(Tokens) /\ fresh[c] \in Seq(Tokens)
         /\ Trajectory(c) \in Seq(Tokens)
         /\ Trajectory(c) \o <<>> = Trajectory(c)
<1>1. prompt[c] \in Seq(Tokens) /\ final[c] \in Seq(Tokens) /\ fresh[c] \in Seq(Tokens)
  BY SeqUp DEF TypesInv, TypeOK
<1>2. Trajectory(c) \in Seq(Tokens)
  BY <1>1, ConcatProperties DEF Trajectory
<1> QED
  BY <1>1, <1>2, ConcatEmptySeq

LEMMA Associated ==
  ASSUME TypesInv, NEW c \in Sessions
  PROVE  /\ prompt[c] \o (final[c] \o fresh[c]) = Trajectory(c)
         /\ \A x \in Tokens :
               /\ (prompt[c] \o final[c]) \o (fresh[c] \o <<x>>) = Trajectory(c) \o <<x>>
               /\ prompt[c] \o ((final[c] \o fresh[c]) \o <<x>>) = Trajectory(c) \o <<x>>
<1> DEFINE p == prompt[c]
           f == final[c]
           r == fresh[c]
<1>1. p \in Seq(Tokens) /\ f \in Seq(Tokens) /\ r \in Seq(Tokens)
  BY Parts
<1>2. Trajectory(c) = (p \o f) \o r
  BY DEF Trajectory
<1> HIDE DEF p, f, r
<1>3. p \o (f \o r) = (p \o f) \o r
  BY <1>1, Concatenations
<1>4. ASSUME NEW x \in Tokens
      PROVE  /\ (p \o f) \o (r \o <<x>>) = ((p \o f) \o r) \o <<x>>
             /\ p \o ((f \o r) \o <<x>>) = ((p \o f) \o r) \o <<x>>
  BY <1>1, LastToken
<1> QED
  BY <1>2, <1>3, <1>4 DEF p, f, r

\* Nothing, which nobody generated.
LEMMA Kept ==
  ASSUME TypesInv, NEW c \in Sessions, Trajectory(c)' = Trajectory(c)
  PROVE  Extended(c)
<1>1. <<>> \in Seq(Tokens) /\ Foreign(<<>>)
  BY EmptySeq DEF Foreign
<1> QED
  BY <1>1, Parts DEF Extended

LEMMA SampledType ==
  ASSUME TypesInv, NEW c \in Sessions, call[c] = "running"
  PROVE  server[c] \in Servers /\ Sampled(server[c]) \in Generated /\ Sampled(server[c]) \in Tokens
BY TokenFacts DEF TypesInv, TypeOK, CallInv, Sampled

LEMMA TrajectoryStep ==
  ASSUME TypesInv, [Next]_vars, NEW c \in Sessions
  PROVE  Extended(c)
<1> USE DEF TypesInv
<1>0. ASSUME prompt'[c] = prompt[c], final'[c] = final[c], fresh'[c] = fresh[c]
      PROVE  Extended(c)
  BY <1>0, Kept DEF Trajectory
<1>1. CASE UNCHANGED vars
  BY <1>0, <1>1 DEF vars, callVars, loopVars
<1>2. CASE BeginUpdate \/ BeginTransfer
  BY <1>0, <1>2 DEF BeginUpdate, BeginTransfer, callVars, loopVars
<1>3. ASSUME NEW s \in Servers, AbortAll(s) PROVE Extended(c)
  <2>1. CASE c \in Running(s)
    <3>1. prompt'[c] = prompt[c] /\ final'[c] = final[c] \o fresh[c] /\ fresh'[c] = <<>>
      BY <1>3, <2>1 DEF AbortAll, loopVars
    <3>2. Trajectory(c)' = (prompt[c] \o (final[c] \o fresh[c])) \o <<>>
      BY <3>1 DEF Trajectory
    <3>3. prompt[c] \o (final[c] \o fresh[c]) = Trajectory(c)
      BY Associated
    <3> QED
      BY <3>2, <3>3, Parts, Kept
  <2>2. CASE c \notin Running(s)
    BY <1>0, <1>3, <2>2 DEF AbortAll, loopVars, TypeOK
  <2> QED
    BY <2>1, <2>2
<1>4. ASSUME NEW s \in Servers, Load(s) \/ Resume(s) PROVE Extended(c)
  BY <1>0, <1>4 DEF Load, Resume, callVars, loopVars
<1>5. ASSUME NEW d \in Sessions, Submit(d) \/ Start(d) PROVE Extended(c)
  BY <1>0, <1>5 DEF Submit, Start, loopVars
<1>6. ASSUME NEW d \in Sessions, d # c, Request(d) \/ Loop(d) PROVE Extended(c)
  <2>1. prompt'[c] = prompt[c]
    BY <1>6 DEF Request, Loop, Submit, Start, Decode, Finish, HandlePending, HandleGenerated,
                HandleTools, Finalize, loopVars, TypeOK
  <2>2. final'[c] = final[c] /\ fresh'[c] = fresh[c]
    BY <1>6, SMTT(30) DEF Request, Loop, Submit, Start, Decode, Finish, HandlePending, HandleGenerated,
                HandleTools, Finalize, Generate, callVars, TypeOK
  <2> QED
    BY <1>0, <2>1, <2>2
<1>7. CASE Decode(c)
  <2> DEFINE x == Sampled(server[c])
  <2>1. x \in Tokens /\ <<x>> \in Seq(Tokens)
    BY <1>7, SampledType, OneToken DEF Decode
  <2>2. prompt'[c] = prompt[c] /\ final'[c] = final[c] /\ fresh'[c] = fresh[c] \o <<x>>
    BY <1>7, <2>1, Parts, AppendIsConcat, ZenonT(30) DEF Decode, loopVars, TypeOK
  <2>3. Trajectory(c)' = Trajectory(c) \o <<x>>
    <3> HIDE DEF x
    <3>1. Trajectory(c)' = (prompt[c] \o final[c]) \o (fresh[c] \o <<x>>)
      BY <2>2 DEF Trajectory
    <3> QED
      BY <2>1, <3>1, Associated
  <2> QED
    <3>1. SampledFor(c, <<x>>)
      BY <1>7 DEF Decode, SampledFor
    <3> QED
      BY <2>1, <2>3, <3>1 DEF Extended
<1>8. CASE Finish(c)
  <2> DEFINE x == Sampled(server[c])
  <2>1. x \in Tokens /\ <<x>> \in Seq(Tokens)
    BY <1>8, SampledType, OneToken DEF Finish
  <2>2. prompt'[c] = prompt[c] /\ final'[c] = (final[c] \o fresh[c]) \o <<x>> /\ fresh'[c] = <<>>
    BY <1>8 DEF Finish, loopVars, TypeOK
  <2>3. Trajectory(c)' = Trajectory(c) \o <<x>>
    <3> HIDE DEF x
    <3>1. prompt[c] \o ((final[c] \o fresh[c]) \o <<x>>) = Trajectory(c) \o <<x>>
      BY <2>1, Associated
    <3>2. Trajectory(c) \o <<x>> \in Seq(Tokens)
      BY <2>1, Parts, Concatenations
    <3>3. Trajectory(c)' = (prompt[c] \o ((final[c] \o fresh[c]) \o <<x>>)) \o <<>>
      BY <2>2 DEF Trajectory
    <3> QED
      BY <3>1, <3>2, <3>3, Concatenations
  <2> QED
    <3>1. SampledFor(c, <<x>>)
      BY <1>8 DEF Finish, SampledFor
    <3> QED
      BY <2>1, <2>3, <3>1 DEF Extended
<1>9. CASE HandlePending(c)
  <2>1. PICK n \in Nat : prompt' = [prompt EXCEPT ![c] = Repeat(PromptToken, n)]
    BY <1>9, Constants DEF HandlePending
  <2> DEFINE u == Repeat(PromptToken, n)
  <2>2. u \in Seq(Tokens) /\ Foreign(u)
    BY TokenFacts, Repeated DEF Repeat, Foreign
  <2>3. prompt[c] = <<>> /\ final[c] = <<>> /\ fresh[c] = <<>> /\ UNCHANGED <<final, fresh>>
    BY <1>9 DEF HandlePending, Generate, CallInv, TypeOK
  <2>4. prompt'[c] = u
    BY <2>1 DEF TypeOK
  <2>5. Trajectory(c)' = Trajectory(c) \o u
    BY <2>2, <2>3, <2>4, EmptySeq, ConcatEmptySeq DEF Trajectory
  <2> QED
    BY <2>2, <2>5 DEF Extended
<1>10. CASE HandleGenerated(c)
  <2>1. prompt'[c] = prompt[c] \o final[c] /\ final'[c] = <<>> /\ fresh'[c] = fresh[c] /\ fresh[c] = <<>>
    BY <1>10, SMTT(30) DEF HandleGenerated, CallInv, TypeOK
  <2>2. Trajectory(c)' = Trajectory(c)
    BY <2>1, Parts, ConcatProperties, ConcatEmptySeq DEF Trajectory
  <2> QED
    BY <2>2, Kept
<1>11. CASE HandleTools(c)
  <2>1. CASE prompt' = prompt /\ UNCHANGED callVars
    BY <1>0, <2>1 DEF callVars
  <2>2. ASSUME NEW n \in ToolLens,
               prompt' = [prompt EXCEPT ![c] = @ \o Repeat(ToolToken, n)], Generate(c)
        PROVE  Extended(c)
    <3> DEFINE u == Repeat(ToolToken, n)
    <3>1. u \in Seq(Tokens) /\ Foreign(u)
      BY TokenFacts, Repeated, Constants DEF Repeat, Foreign
    <3>2. final[c] = <<>> /\ fresh[c] = <<>> /\ UNCHANGED <<final, fresh>>
      BY <1>11, <2>2 DEF HandleTools, Generate, CallInv, TypeOK
    <3>3. prompt'[c] = prompt[c] \o u
      BY <2>2 DEF TypeOK
    <3>4. Trajectory(c)' = Trajectory(c) \o u
      <4> HIDE DEF u
      <4>1. Trajectory(c)' = ((prompt[c] \o u) \o <<>>) \o <<>>
        BY <3>2, <3>3 DEF Trajectory
      <4>2. Trajectory(c) = prompt[c] /\ prompt[c] \o u \in Seq(Tokens)
        BY <3>1, <3>2, Parts, Concatenations DEF Trajectory
      <4> QED
        BY <4>1, <4>2, Concatenations
    <3> QED
      BY <3>1, <3>4 DEF Extended
  <2> QED
    BY <1>11, <2>1, <2>2 DEF HandleTools
<1>12. CASE Finalize(c)
  BY <1>0, <1>12 DEF Finalize, callVars
<1> QED
  BY <1>1, <1>2, <1>3, <1>4, <1>5, <1>6, <1>7, <1>8, <1>9, <1>10, <1>11, <1>12
     DEF Next, Update, Request, Loop

(***************************************************************************)
(* No interruption, no update and no turn loses a token: NothingLost.      *)
(***************************************************************************)
THEOREM NothingIsLost == Spec => NothingLost
<1>1. TypesInv /\ [Next]_vars =>
        \A c \in Sessions :
            /\ Len(Trajectory(c)) <= Len(Trajectory(c)')
            /\ SubSeq(Trajectory(c)', 1, Len(Trajectory(c))) = Trajectory(c)
  <2> SUFFICES ASSUME TypesInv, [Next]_vars, NEW c \in Sessions
               PROVE  /\ Len(Trajectory(c)) <= Len(Trajectory(c)')
                      /\ SubSeq(Trajectory(c)', 1, Len(Trajectory(c))) = Trajectory(c)
    OBVIOUS
  <2> DEFINE t == Trajectory(c)
             n == Len(t)
  <2>1. PICK u \in Seq(Tokens) : Trajectory(c)' = t \o u
    BY TrajectoryStep DEF Extended
  <2> HIDE DEF t
  <2>2. t \in Seq(Tokens) /\ n \in Nat /\ Len(t \o u) = n + Len(u) /\ Len(u) \in Nat
    BY Parts, ConcatProperties, LenProperties DEF t
  <2>3. SubSeq(t \o u, 1, n) = t
    <3>1. CASE n = 0
      BY <2>2, <3>1, SubSeqEmpty, EmptySeq
    <3>2. CASE n # 0
      <4>1. SubSeq(t \o u, 1, n) = SubSeq(t, 1, n)
        BY <2>2, <3>2, SubSeqOfConcat1
      <4> QED
        BY <2>2, <4>1, SubSeqFull
    <3> QED
      BY <3>1, <3>2
  <2> QED
    BY <2>1, <2>2, <2>3 DEF t
<1> QED
  BY <1>1, TypesInit, TypesStep, PTL DEF Spec, NothingLost
-----------------------------------------------------------------------------
(***************************************************************************)
(* The servers.  While one of them is being loaded or waits for the others *)
(* to be, every server that serves already has the new weights; servers    *)
(* that serve at the same time have the same weights.                      *)
(***************************************************************************)
Receiving(s) == phase[s] \in {"loading", "loaded"}

ServersInv ==
    /\ label = weights
    /\ \A s \in Servers : weights[s] <= version
    /\ \A s \in Servers : phase[s] = "loaded" => weights[s] = version
    /\ \A s, t \in Servers : phase[s] = "serving" /\ phase[t] = "serving" => weights[s] = weights[t]
    /\ \A s, t \in Servers :
          Receiving(s) /\ ~Receiving(t) => phase[t] = "serving" /\ weights[t] = version

\* A request runs on a server that serves.
RunsInv == \A c \in Sessions : call[c] = "running" => phase[server[c]] = "serving"

\* A version that no token to come can be older than.
Below(v) == v <= version /\ \A s \in Servers : phase[s] = "serving" => v <= weights[s]

Covers(sp, t) == \A i \in GeneratedIn(t) : sp[1] <= t[i] /\ t[i] <= sp[2]

\* What is generated is labelled, and labels are no newer than what is to come.
LabelledIn(c) ==
    /\ fields[c] = <<>> => Foreign(prompt[c])
    /\ fields[c] # <<>> =>
          fields[c][1] <= fields[c][2] /\ Below(fields[c][2]) /\ Covers(fields[c], prompt[c])
    /\ span[c] = <<>> => final[c] = <<>>
    /\ span[c] # <<>> =>
          /\ span[c][1] <= span[c][2] /\ Below(span[c][2]) /\ Covers(span[c], final[c])
          /\ fields[c] # <<>> => fields[c][2] <= span[c][1]
    /\ call[c] = "running" => \A i \in DOMAIN fresh[c] : fresh[c][i] = weights[server[c]]

LabelsInv == \A c \in Sessions : LabelledIn(c)

PausedInv == TypesInv /\ ServersInv /\ RunsInv /\ LabelsInv

LEMMA VersionTypes ==
  ASSUME TypeOK
  PROVE  /\ version \in Nat
         /\ \A s \in Servers : weights[s] \in Nat /\ label[s] \in Nat /\ weights[s] \in Versions
BY TokenFacts DEF TypeOK

LEMMA ServersStep == TypesInv /\ ServersInv /\ [Next]_vars => ServersInv'
<1> SUFFICES ASSUME TypesInv, ServersInv, [Next]_vars PROVE ServersInv'
  OBVIOUS
<1> USE DEF TypesInv
<1>1. ASSUME UNCHANGED serverVars PROVE ServersInv'
  BY <1>1 DEF serverVars, ServersInv, Receiving
<1>2. CASE UNCHANGED vars
  BY <1>1, <1>2 DEF vars
<1>3. CASE BeginUpdate
  BY <1>3, VersionTypes DEF BeginUpdate, AllIn, ServersInv, Receiving
<1>4. ASSUME NEW s \in Servers, AbortAll(s) PROVE ServersInv'
  <2>1. \A t \in Servers : ~Receiving(t)
    BY <1>4, VersionTypes DEF AbortAll, ServersInv, Receiving
  <2> QED
    BY <1>4, <2>1 DEF AbortAll, ServersInv, Receiving, TypeOK
<1>5. CASE BeginTransfer
  BY <1>5 DEF BeginTransfer, AllIn, ServersInv, Receiving
<1>6. ASSUME NEW s \in Servers, Load(s) PROVE ServersInv'
  <2>1. /\ phase' = [phase EXCEPT ![s] = "loaded"] /\ phase[s] = "loading"
        /\ weights' = [weights EXCEPT ![s] = version] /\ label' = [label EXCEPT ![s] = version]
        /\ version' = version
    BY <1>6 DEF Load
  <2> QED
    BY <2>1, VersionTypes, SMTT(30) DEF ServersInv, Receiving, TypeOK
<1>7. ASSUME NEW s \in Servers, Resume(s) PROVE ServersInv'
  <2>1. /\ phase' = [phase EXCEPT ![s] = "serving"] /\ phase[s] = "loaded"
        /\ \A t \in Servers : phase[t] \in {"loaded", "serving"}
        /\ UNCHANGED <<version, weights, label>>
    BY <1>7 DEF Resume, AllIn
  <2> QED
    BY <2>1, VersionTypes DEF ServersInv, Receiving, TypeOK
<1>8. ASSUME NEW c \in Sessions, Request(c) \/ Loop(c) PROVE ServersInv'
  BY <1>1, <1>8 DEF Request, Loop, Submit, Start, Decode, Finish, HandlePending, HandleGenerated,
                    HandleTools, Finalize
<1> QED
  BY <1>2, <1>3, <1>4, <1>5, <1>6, <1>7, <1>8 DEF Next, Update

\* What is below every token to come stays so.
LEMMA BelowStays ==
  ASSUME TypesInv, ServersInv, [Next]_vars, NEW v \in Nat, Below(v)
  PROVE  Below(v)'
<1> USE DEF TypesInv
<1>1. ASSUME UNCHANGED serverVars PROVE Below(v)'
  BY <1>1 DEF serverVars, Below
<1>2. CASE UNCHANGED vars
  BY <1>1, <1>2 DEF vars
<1>3. CASE BeginUpdate
  BY <1>3, VersionTypes DEF BeginUpdate, Below
<1>4. ASSUME NEW s \in Servers, AbortAll(s) PROVE Below(v)'
  BY <1>4 DEF AbortAll, Below, TypeOK
<1>5. CASE BeginTransfer
  BY <1>5 DEF BeginTransfer, Below
<1>6. ASSUME NEW s \in Servers, Load(s) PROVE Below(v)'
  BY <1>6 DEF Load, Below, TypeOK
<1>7. ASSUME NEW s \in Servers, Resume(s) PROVE Below(v)'
  BY <1>7 DEF Resume, Below, ServersInv, TypeOK
<1>8. ASSUME NEW c \in Sessions, Request(c) \/ Loop(c) PROVE Below(v)'
  BY <1>1, <1>8 DEF Request, Loop, Submit, Start, Decode, Finish, HandlePending, HandleGenerated,
                    HandleTools, Finalize
<1> QED
  BY <1>2, <1>3, <1>4, <1>5, <1>6, <1>7, <1>8 DEF Next, Update

LEMMA RunsStep == PausesGeneration /\ TypesInv /\ RunsInv /\ [Next]_vars => RunsInv'
<1> SUFFICES ASSUME PausesGeneration, TypesInv, RunsInv, [Next]_vars,
                    NEW c \in Sessions, call'[c] = "running"
             PROVE  phase'[server'[c]] = "serving"
  BY DEF RunsInv
<1> USE DEF TypesInv
<1>1. CASE UNCHANGED vars
  BY <1>1 DEF vars, callVars, serverVars, RunsInv
<1>2. CASE BeginUpdate
  BY <1>2 DEF BeginUpdate, callVars, RunsInv
<1>3. ASSUME NEW s \in Servers, AbortAll(s) PROVE phase'[server'[c]] = "serving"
  <2>1. c \notin Running(s) /\ call[c] = "running" /\ server'[c] = server[c]
    BY <1>3 DEF AbortAll, TypeOK
  <2>2. server[c] # s /\ server[c] \in Servers
    BY <2>1 DEF Running, CallInv
  <2> QED
    BY <1>3, <2>1, <2>2 DEF AbortAll, RunsInv, TypeOK
<1>4. CASE BeginTransfer
  <2>1. call[c] = "running" /\ server[c] \in Servers
    BY <1>4 DEF BeginTransfer, callVars, CallInv
  <2> QED
    BY <1>4, <2>1 DEF BeginTransfer, Running
<1>5. ASSUME NEW s \in Servers, Load(s) \/ Resume(s) PROVE phase'[server'[c]] = "serving"
  BY <1>5 DEF Load, Resume, callVars, RunsInv, CallInv, TypeOK
<1>6. ASSUME NEW d \in Sessions, Request(d) \/ Loop(d) PROVE phase'[server'[c]] = "serving"
  <2>1. phase' = phase
    BY <1>6 DEF Request, Loop, Submit, Start, Decode, Finish, HandlePending, HandleGenerated,
                HandleTools, Finalize, serverVars
  <2>2. CASE Start(c)
    BY <2>1, <2>2 DEF Start
  <2>3. CASE ~Start(c)
    <3>1. call[c] = "running" /\ server'[c] = server[c]
      BY <1>6, <2>3, ZenonT(30) DEF Request, Loop, Submit, Start, Decode, Finish, HandlePending, HandleGenerated,
                  HandleTools, Finalize, Generate, callVars, TypeOK
    <3> QED
      BY <2>1, <3>1 DEF RunsInv
  <2> QED
    BY <2>2, <2>3
<1> QED
  BY <1>1, <1>2, <1>3, <1>4, <1>5, <1>6 DEF Next, Update
-----------------------------------------------------------------------------
\* A served version is below every token to come.
LEMMA ServedBelow ==
  ASSUME TypesInv, ServersInv, NEW s \in Servers, phase[s] = "serving"
  PROVE  label[s] = weights[s] /\ weights[s] \in Nat /\ weights[s] \in Versions /\ Below(weights[s])
BY VersionTypes DEF TypesInv, ServersInv, Below

LEMMA CoverFacts ==
  ASSUME NEW a \in Int, NEW b \in Int, NEW s \in Seq(Tokens), NEW t \in Seq(Tokens)
  PROVE  /\ Covers(<<a, b>>, s) /\ Covers(<<a, b>>, t) => Covers(<<a, b>>, s \o t)
         /\ \A d, e \in Int : Covers(<<a, b>>, s) /\ d <= a /\ b <= e => Covers(<<d, e>>, s)
         /\ Foreign(s) => Covers(<<a, b>>, s)
<1>1. ASSUME Covers(<<a, b>>, s), Covers(<<a, b>>, t) PROVE Covers(<<a, b>>, s \o t)
  BY <1>1, ConcatProperties, LenProperties DEF Covers, GeneratedIn
<1>2. \A d, e \in Int : Covers(<<a, b>>, s) /\ d <= a /\ b <= e => Covers(<<d, e>>, s)
  <2> SUFFICES ASSUME NEW d \in Int, NEW e \in Int, Covers(<<a, b>>, s), d <= a, b <= e,
                      NEW i \in GeneratedIn(s)
               PROVE  d <= s[i] /\ s[i] <= e
    BY DEF Covers
  <2>1. s[i] \in Int
    BY TokenFacts, LenProperties DEF GeneratedIn
  <2>2. a <= s[i] /\ s[i] <= b
    BY DEF Covers
  <2> QED
    BY <2>1, <2>2
<1>3. Foreign(s) => Covers(<<a, b>>, s)
  BY DEF Foreign, Covers, GeneratedIn
<1> QED
  BY <1>1, <1>2, <1>3

LEMMA ForeignFacts ==
  ASSUME NEW s \in Seq(Tokens), NEW t \in Seq(Tokens), Foreign(s), Foreign(t)
  PROVE  Foreign(s \o t)
BY ConcatProperties, LenProperties DEF Foreign

LEMMA SpanType ==
  ASSUME TypesInv, NEW c \in Sessions
  PROVE  /\ fields[c] # <<>> => fields[c][1] \in Nat /\ fields[c][2] \in Nat
                                /\ fields[c] = <<fields[c][1], fields[c][2]>>
         /\ span[c] # <<>> => span[c][1] \in Nat /\ span[c][2] \in Nat
                              /\ span[c] = <<span[c][1], span[c][2]>>
<1>1. fields[c] \in Spans /\ span[c] \in Spans
  BY DEF TypesInv, TypeOK
<1>2. ASSUME NEW sp \in Spans, sp # <<>>
      PROVE  sp[1] \in Nat /\ sp[2] \in Nat /\ sp = <<sp[1], sp[2]>>
  <2>1. PICK v \in Versions, w \in Versions : sp = <<v, w>>
    BY <1>2 DEF Spans
  <2> QED
    BY <2>1, TokenFacts
<1> QED
  BY <1>1, <1>2

\* A session that nothing happens to.
LEMMA Untouched ==
  ASSUME TypesInv, ServersInv, [Next]_vars, NEW c \in Sessions, LabelledIn(c),
         fields'[c] = fields[c], prompt'[c] = prompt[c], span'[c] = span[c], final'[c] = final[c],
         call'[c] = "running" =>
             \A i \in DOMAIN fresh'[c] : fresh'[c][i] = weights'[server'[c]]
  PROVE  LabelledIn(c)'
<1>1. fields[c] # <<>> => Below(fields[c][2])'
  BY SpanType, BelowStays DEF LabelledIn
<1>2. span[c] # <<>> => Below(span[c][2])'
  BY SpanType, BelowStays DEF LabelledIn
<1> QED
  BY <1>1, <1>2 DEF LabelledIn, Covers, GeneratedIn, Foreign

\* The tokens of a running request get the label that its server has had since
\* it took the request.
LEMMA Answered ==
  ASSUME TypesInv, ServersInv, RunsInv, NEW c \in Sessions, LabelledIn(c), call[c] = "running",
         NEW t \in Seq(Tokens), \A i \in DOMAIN t : t[i] = weights[server[c]]
  PROVE  LET w == weights[server[c]]
             sp == Merged(span[c], label[server[c]])
         IN  /\ sp # <<>> /\ sp[1] \in Nat /\ sp[2] = w /\ sp[1] <= w
             /\ Covers(sp, final[c] \o t)
             /\ fields[c] # <<>> => fields[c][2] <= sp[1]
<1> DEFINE w == weights[server[c]]
           sp == Merged(span[c], label[server[c]])
<1>1. server[c] \in Servers /\ phase[server[c]] = "serving"
  BY DEF TypesInv, CallInv, RunsInv
<1>2. w \in Nat /\ label[server[c]] = w /\ Below(w)
  BY <1>1, ServedBelow
<1>3. \A v \in Nat : Below(v) => v <= w
  BY <1>1 DEF Below
<1>4. Covers(<<w, w>>, t)
  BY <1>2, LenProperties DEF Covers, GeneratedIn
<1>5. final[c] \in Seq(Tokens)
  BY Parts
<1>6. CASE span[c] = <<>>
  <2>1. sp = <<w, w>> /\ final[c] = <<>>
    BY <1>2, <1>6 DEF Merged, LabelledIn
  <2>2. fields[c] # <<>> => fields[c][2] <= w
    BY <1>3, SpanType DEF LabelledIn
  <2>3. final[c] \o t = t
    BY <2>1, Concatenations
  <2> QED
    BY <1>2, <1>4, <2>1, <2>2, <2>3
<1>7. CASE span[c] # <<>>
  <2> DEFINE a == span[c][1]
             b == span[c][2]
  <2>1. sp = <<a, w>> /\ a \in Nat /\ b \in Nat /\ a <= b /\ b <= w /\ span[c] = <<a, b>>
    BY <1>2, <1>3, <1>7, SpanType DEF Merged, LabelledIn
  <2>2. Covers(<<a, b>>, final[c])
    BY <1>7, <2>1 DEF LabelledIn
  <2>3. Covers(<<a, w>>, final[c]) /\ Covers(<<a, w>>, t)
    <3> HIDE DEF w, a, b
    <3> QED
      BY <1>2, <1>4, <1>5, <2>1, <2>2, CoverFacts
  <2>4. Covers(<<a, w>>, final[c] \o t)
    <3> HIDE DEF w, a, b
    <3> QED
      BY <1>2, <1>5, <2>1, <2>3, CoverFacts
  <2>5. fields[c] # <<>> => fields[c][2] <= a
    BY <1>7 DEF LabelledIn
  <2> QED
    BY <1>2, <2>1, <2>4, <2>5
<1> QED
  BY <1>6, <1>7

\* An answer, merged.
LEMMA AnsweredStep ==
  ASSUME PausedInv, [Next]_vars, NEW c \in Sessions, LabelledIn(c), call[c] = "running",
         NEW t \in Seq(Tokens), \A i \in DOMAIN t : t[i] = weights[server[c]],
         final'[c] = final[c] \o t, span'[c] = Merged(span[c], label[server[c]]),
         fields'[c] = fields[c], prompt'[c] = prompt[c], call'[c] # "running"
  PROVE  LabelledIn(c)'
<1> USE DEF PausedInv
<1>1. PICK w \in Nat : w = weights[server[c]] /\ Below(w)
  BY ServedBelow DEF TypesInv, CallInv, RunsInv
<1>2. PICK sp : sp = Merged(span[c], label[server[c]])
  OBVIOUS
<1>3. PICK all : all = final[c] \o t
  OBVIOUS
<1>4. /\ sp # <<>> /\ sp[1] \in Nat /\ sp[2] = w /\ sp[1] <= w
      /\ Covers(sp, all)
      /\ fields[c] # <<>> => fields[c][2] <= sp[1]
  BY <1>1, <1>2, <1>3, Answered
<1>5. Below(w)'
  BY <1>1, BelowStays
<1>6. fields[c] # <<>> => Below(fields[c][2])'
  BY SpanType, BelowStays DEF LabelledIn
<1>7. span'[c] = sp /\ final'[c] = all
  BY <1>2, <1>3
<1>8. Foreign(prompt[c])' = Foreign(prompt[c])
  BY DEF Foreign
<1>9. Covers(fields[c], prompt[c])' = Covers(fields[c], prompt[c])
  BY DEF Covers, GeneratedIn
<1>10. Covers(span[c], final[c])'
  BY <1>4, <1>7 DEF Covers, GeneratedIn
<1>11. Below(span[c][2])'
  BY <1>4, <1>5, <1>7
<1> QED
  BY <1>4, <1>6, <1>7, <1>8, <1>9, <1>10, <1>11 DEF LabelledIn

LEMMA LabelsStep ==
  ASSUME PausesGeneration, PausedInv, [Next]_vars, NEW c \in Sessions
  PROVE  LabelledIn(c)'
<1> USE DEF PausedInv, TypesInv
<1>0. LabelledIn(c)
  BY DEF LabelsInv
<1>1. CASE UNCHANGED vars
  BY <1>0, <1>1, Untouched DEF vars, loopVars, callVars, serverVars, LabelledIn
<1>2. CASE BeginUpdate \/ BeginTransfer
  BY <1>0, <1>2, Untouched DEF BeginUpdate, BeginTransfer, loopVars, callVars, LabelledIn
<1>3. ASSUME NEW s \in Servers, AbortAll(s) PROVE LabelledIn(c)'
  <2>1. CASE c \notin Running(s)
    BY <1>0, <1>3, <2>1, Untouched DEF AbortAll, loopVars, LabelledIn, TypeOK
  <2>2. CASE c \in Running(s)
    <3>1. /\ final'[c] = final[c] \o fresh[c] /\ span'[c] = Merged(span[c], label[s])
          /\ fresh'[c] = <<>> /\ call'[c] # "running"
          /\ fields'[c] = fields[c] /\ prompt'[c] = prompt[c]
      BY <1>3, <2>2, Constants DEF AbortAll, loopVars, TypeOK
    <3>2. call[c] = "running" /\ server[c] = s
      BY <2>2 DEF Running
    <3>3. fresh[c] \in Seq(Tokens) /\ \A i \in DOMAIN fresh[c] : fresh[c][i] = weights[s]
      BY <1>0, <3>2, Parts DEF LabelledIn
    <3> QED
      BY <1>0, <3>1, <3>2, <3>3, AnsweredStep
  <2> QED
    BY <2>1, <2>2
<1>4. ASSUME NEW s \in Servers, Load(s) PROVE LabelledIn(c)'
  <2>1. call[c] = "running" => weights'[server[c]] = weights[server[c]]
    BY <1>4 DEF Load, RunsInv, CallInv, TypeOK
  <2> QED
    BY <1>0, <1>4, <2>1, Untouched DEF Load, loopVars, callVars, LabelledIn
<1>5. ASSUME NEW s \in Servers, Resume(s) PROVE LabelledIn(c)'
  BY <1>0, <1>5, Untouched DEF Resume, loopVars, callVars, LabelledIn
<1>6. ASSUME NEW d \in Sessions, d # c, Request(d) \/ Loop(d) PROVE LabelledIn(c)'
  <2>1. fields'[c] = fields[c] /\ prompt'[c] = prompt[c] /\ weights' = weights
    BY <1>6, ZenonT(30) DEF Request, Loop, Submit, Start, Decode, Finish, HandlePending, HandleGenerated,
                HandleTools, Finalize, loopVars, serverVars, TypeOK
  <2>2. /\ span'[c] = span[c] /\ final'[c] = final[c] /\ fresh'[c] = fresh[c]
        /\ call'[c] = call[c] /\ server'[c] = server[c]
    BY <1>6, ZenonT(30) DEF Request, Loop, Submit, Start, Decode, Finish, HandlePending, HandleGenerated,
                HandleTools, Finalize, Generate, callVars, TypeOK
  <2> QED
    BY <1>0, <2>1, <2>2, Untouched DEF LabelledIn
<1>7. CASE Submit(c)
  BY <1>0, <1>7, Untouched DEF Submit, loopVars, TypeOK
<1>8. CASE Start(c)
  <2>1. fresh'[c] = <<>>
    BY <1>8 DEF Start, CallInv
  <2> QED
    BY <1>0, <1>8, <2>1, Untouched DEF Start, loopVars
<1>9. CASE Decode(c)
  <2>1. Sampled(server[c]) = weights[server[c]] /\ weights' = weights /\ server' = server
    BY <1>9 DEF Decode, Sampled, RunsInv, serverVars
  <2>2. fresh'[c] = Append(fresh[c], weights[server[c]]) /\ fresh[c] \in Seq(Tokens)
    BY <1>9, <2>1, Parts DEF Decode, TypeOK
  <2>3. \A i \in DOMAIN fresh'[c] : fresh'[c][i] = weights'[server'[c]]
    BY <1>0, <1>9, <2>1, <2>2, SampledType, AppendProperties, LenProperties DEF Decode, LabelledIn
  <2> QED
    BY <1>0, <1>9, <2>3, Untouched DEF Decode, loopVars
<1>10. CASE Finish(c)
  <2> DEFINE x == Sampled(server[c])
             t == fresh[c] \o <<x>>
  <2>1. call[c] = "running" /\ x = weights[server[c]] /\ x \in Tokens /\ <<x>> \in Seq(Tokens)
    BY <1>10, SampledType, OneToken DEF Finish, Sampled, RunsInv
  <2>2. fresh[c] \in Seq(Tokens) /\ final[c] \in Seq(Tokens) /\ t \in Seq(Tokens)
    BY <2>1, Parts, Concatenations
  <2>3. \A i \in DOMAIN t : t[i] = weights[server[c]]
    <3>1. \A i \in DOMAIN fresh[c] : fresh[c][i] = weights[server[c]]
      BY <1>0, <2>1 DEF LabelledIn
    <3> HIDE DEF x
    <3> QED
      BY <2>1, <2>2, <3>1, ConcatProperties, LenProperties
  <2>4. (final[c] \o fresh[c]) \o <<x>> = final[c] \o t
    <3>1. PICK f \in Seq(Tokens), r \in Seq(Tokens), y \in Seq(Tokens) :
            f = final[c] /\ r = fresh[c] /\ y = <<x>>
      BY <2>1, <2>2
    <3>2. f \o (r \o y) = (f \o r) \o y
      BY Concatenations
    <3> QED
      BY <3>1, <3>2
  <2>5. /\ final'[c] = final[c] \o t /\ span'[c] = Merged(span[c], label[server[c]])
        /\ call'[c] # "running" /\ fields'[c] = fields[c] /\ prompt'[c] = prompt[c]
    BY <1>10, <2>4 DEF Finish, loopVars, TypeOK
  <2> HIDE DEF t
  <2> QED
    BY <1>0, <2>1, <2>2, <2>3, <2>5, AnsweredStep
<1>11. CASE HandlePending(c)
  <2>1. PICK n \in Nat : prompt' = [prompt EXCEPT ![c] = Repeat(PromptToken, n)]
    BY <1>11, Constants DEF HandlePending
  <2>2. Foreign(prompt'[c])
    BY <2>1, TokenFacts DEF Repeat, Foreign, TypeOK
  <2>3. fields'[c] = <<>> /\ final'[c] = <<>> /\ span'[c] = <<>> /\ call'[c] # "running"
    BY <1>11 DEF HandlePending, Generate, CallInv, TypeOK
  <2> QED
    BY <2>2, <2>3 DEF LabelledIn, Foreign
<1>12. CASE HandleGenerated(c)
  <2>1. /\ prompt'[c] = prompt[c] \o final[c] /\ final'[c] = <<>> /\ span'[c] = <<>>
        /\ fields'[c] = Updated(fields[c], span[c]) /\ span[c] # <<>> /\ call'[c] # "running"
    BY <1>12 DEF HandleGenerated, CallInv, TypeOK
  <2>2. PICK a \in Nat, b \in Nat : span[c] = <<a, b>> /\ a <= b /\ Below(b) /\ Covers(<<a, b>>, final[c])
    BY <1>0, <2>1, SpanType DEF LabelledIn
  <2>3. PICK p \in Seq(Tokens), f \in Seq(Tokens) : p = prompt[c] /\ f = final[c]
    BY Parts
  <2>4. Below(b)'
    BY <2>2, BelowStays
  <2>5. ASSUME NEW d \in Nat, d <= b, fields'[c] = <<d, b>>, Covers(<<d, b>>, p), Covers(<<d, b>>, f)
        PROVE  LabelledIn(c)'
    <3>1. Covers(<<d, b>>, p \o f)
      BY <2>2, <2>3, <2>5, CoverFacts
    <3>2. prompt'[c] = p \o f
      BY <2>1, <2>3
    <3>3. Covers(fields[c], prompt[c])'
      BY <2>5, <3>1, <3>2 DEF Covers, GeneratedIn
    <3>4. fields'[c][1] <= fields'[c][2] /\ Below(fields[c][2])' /\ fields'[c] # <<>>
      BY <2>4, <2>5
    <3> QED
      BY <2>1, <3>3, <3>4 DEF LabelledIn
  <2>6. CASE fields[c] = <<>>
    <3>1. Covers(<<a, b>>, p)
      BY <1>0, <2>2, <2>3, <2>6, CoverFacts DEF LabelledIn
    <3>2. fields'[c] = <<a, b>>
      BY <2>1, <2>2, <2>6 DEF Updated
    <3> QED
      BY <2>2, <2>3, <2>5, <3>1, <3>2
  <2>7. CASE fields[c] # <<>>
    <3>1. PICK d \in Nat, e \in Nat :
            fields[c] = <<d, e>> /\ d <= e /\ e <= a /\ Covers(<<d, e>>, p)
      <4>1. PICK d \in Nat, e \in Nat : fields[c] = <<d, e>>
        BY <2>7, SpanType
      <4>2. fields[c][1] <= fields[c][2] /\ Covers(fields[c], prompt[c]) /\ fields[c][2] <= span[c][1]
        BY <1>0, <2>1, <2>7 DEF LabelledIn
      <4>3. d <= e /\ e <= a
        BY <2>2, <4>1, <4>2
      <4>4. Covers(<<d, e>>, p)
        BY <2>3, <4>1, <4>2
      <4> QED
        BY <4>1, <4>3, <4>4
    <3>2. fields'[c] = <<d, b>>
      BY <2>1, <2>2, <2>7, <3>1 DEF Updated
    <3>3. Covers(<<d, b>>, p) /\ Covers(<<d, b>>, f)
      BY <2>2, <2>3, <3>1, CoverFacts, SMTT(30)
    <3> QED
      BY <2>2, <2>5, <3>1, <3>2, <3>3
  <2> QED
    BY <2>6, <2>7
<1>13. CASE HandleTools(c)
  <2>1. /\ final[c] = <<>> /\ span[c] = <<>> /\ UNCHANGED <<final, span, fields>>
        /\ call[c] = "none" /\ call'[c] # "running"
    BY <1>13 DEF HandleTools, Generate, callVars, CallInv, TypeOK
  <2>2. CASE prompt' = prompt
    BY <1>0, <2>1, <2>2, Untouched
  <2>3. ASSUME NEW n \in ToolLens, prompt' = [prompt EXCEPT ![c] = @ \o Repeat(ToolToken, n)]
        PROVE  LabelledIn(c)'
    <3>1. PICK u \in Seq(Tokens), p \in Seq(Tokens) :
            Foreign(u) /\ p = prompt[c] /\ prompt'[c] = p \o u
      <4>1. Repeat(ToolToken, n) \in Seq(Tokens) /\ Foreign(Repeat(ToolToken, n))
        BY TokenFacts, Repeated, Constants DEF Repeat, Foreign
      <4> QED
        BY <2>3, <4>1, Parts DEF TypeOK
    <3>2. CASE fields[c] = <<>>
      <4>1. Foreign(p \o u)
        BY <1>0, <3>1, <3>2, ForeignFacts DEF LabelledIn
      <4>2. Foreign(prompt[c])'
        BY <3>1, <4>1 DEF Foreign
      <4> QED
        BY <2>1, <3>2, <4>2 DEF LabelledIn
    <3>3. CASE fields[c] # <<>>
      <4>1. PICK d \in Nat, e \in Nat :
              fields[c] = <<d, e>> /\ d <= e /\ Covers(<<d, e>>, p) /\ Below(e)
        BY <1>0, <3>1, <3>3, SpanType DEF LabelledIn
      <4>2. Covers(<<d, e>>, p \o u)
        BY <3>1, <4>1, CoverFacts
      <4>3. Below(e)'
        BY <4>1, BelowStays
      <4>4. Covers(fields[c], prompt[c])'
        BY <2>1, <3>1, <4>1, <4>2 DEF Covers, GeneratedIn
      <4> QED
        BY <2>1, <3>3, <4>1, <4>3, <4>4 DEF LabelledIn
    <3> QED
      BY <3>2, <3>3
  <2> QED
    BY <1>13, <2>2, <2>3 DEF HandleTools
<1>14. CASE Finalize(c)
  BY <1>0, <1>14, Untouched DEF Finalize, callVars, serverVars, LabelledIn
<1> QED
  BY <1>1, <1>2, <1>3, <1>4, <1>5, <1>6, <1>7, <1>8, <1>9, <1>10, <1>11, <1>12, <1>13, <1>14
     DEF Next, Update, Request, Loop

LEMMA PausedInit == Init => PausedInv
<1> SUFFICES ASSUME Init PROVE PausedInv
  OBVIOUS
<1>1. ServersInv /\ RunsInv
  BY DEF Init, ServersInv, Receiving, RunsInv
<1>2. LabelsInv
  BY DEF Init, LabelsInv, LabelledIn, Foreign
<1> QED
  BY <1>1, <1>2, TypesInit DEF PausedInv

LEMMA PausedStep == PausesGeneration /\ PausedInv /\ [Next]_vars => PausedInv'
<1> SUFFICES ASSUME PausesGeneration, PausedInv, [Next]_vars PROVE PausedInv'
  OBVIOUS
<1>1. TypesInv' /\ ServersInv' /\ RunsInv'
  BY TypesStep, ServersStep, RunsStep DEF PausedInv
<1>2. LabelsInv'
  BY LabelsStep DEF LabelsInv
<1> QED
  BY <1>1, <1>2 DEF PausedInv

(***************************************************************************)
(* If an abort blocks new requests, the labels of a trajectory cover the   *)
(* versions of all its tokens, however updates interrupt it.               *)
(***************************************************************************)
THEOREM TokensAreLabelled == PausesGeneration => (Spec => []LabelsCoverTokens)
<1>1. PausedInv => LabelsCoverTokens
  BY DEF PausedInv, LabelsInv, LabelledIn, Covers, LabelsCoverTokens
<1>2. CASE PausesGeneration
  <2>1. PausedInv /\ [Next]_vars => PausedInv'
    BY <1>2, PausedStep
  <2> QED
    BY <1>1, <2>1, PausedInit, PTL DEF Spec
<1> QED
  BY <1>2
-----------------------------------------------------------------------------
(***************************************************************************)
(* The versions along a trajectory.  What a running session has is no      *)
(* newer than its server's weights, with which the next token comes.       *)
(***************************************************************************)
Ordered(t) == \A i, j \in GeneratedIn(t) : i <= j => t[i] # Torn /\ t[i] <= t[j]

OrderInv == \A c \in Sessions : Ordered(Trajectory(c))

LEMMA OrderedForeign ==
  ASSUME NEW t \in Seq(Tokens), NEW u \in Seq(Tokens), Ordered(t), Foreign(u)
  PROVE  Ordered(t \o u)
<1>1. ASSUME NEW i \in GeneratedIn(t \o u) PROVE i \in GeneratedIn(t) /\ (t \o u)[i] = t[i]
  BY ConcatProperties, LenProperties DEF GeneratedIn, Foreign
<1> QED
  BY <1>1 DEF Ordered

LEMMA OrderedNext ==
  ASSUME NEW t \in Seq(Tokens), NEW w \in Versions, Ordered(t), Covers(<<0, w>>, t)
  PROVE  Ordered(t \o <<w>>)
<1> DEFINE u == <<w>>
<1>1. u \in Seq(Tokens) /\ Len(u) = 1 /\ u[1] = w /\ w \in Nat /\ w # Torn
  BY TokenFacts
<1> HIDE DEF u
<1>2. PICK n \in Nat : n = Len(t) /\ DOMAIN t = 1 .. n /\ \A i \in 1 .. n : t[i] \in Int
  <2>1. Len(t) \in Nat /\ DOMAIN t = 1 .. Len(t) /\ \A i \in 1 .. Len(t) : t[i] \in Tokens
    BY LenProperties
  <2> QED
    BY <2>1, TokenFacts
<1>3. ASSUME NEW i \in GeneratedIn(t \o u)
      PROVE  \/ i \in GeneratedIn(t) /\ (t \o u)[i] = t[i]
             \/ i = n + 1 /\ (t \o u)[i] = w
  BY <1>1, <1>2, ConcatProperties, LenProperties DEF GeneratedIn
<1>4. \A i \in GeneratedIn(t) : t[i] # Torn /\ t[i] <= w /\ i <= n /\ i \in Int
  BY <1>2 DEF Covers, GeneratedIn, Torn
<1>5. ASSUME NEW i \in GeneratedIn(t \o u), NEW j \in GeneratedIn(t \o u), i <= j
      PROVE  (t \o u)[i] # Torn /\ (t \o u)[i] <= (t \o u)[j]
  <2>1. CASE j \in GeneratedIn(t) /\ (t \o u)[j] = t[j]
    <3>1. i \in GeneratedIn(t) /\ (t \o u)[i] = t[i]
      <4>1. i <= n
        BY <1>4, <1>5, <2>1, <1>2, <1>3
      <4>2. i # n + 1
        BY <1>2, <4>1
      <4> QED
        BY <1>3, <4>2
    <3> QED
      BY <1>5, <2>1, <3>1 DEF Ordered
  <2>2. CASE j = n + 1 /\ (t \o u)[j] = w
    <3>1. CASE i \in GeneratedIn(t) /\ (t \o u)[i] = t[i]
      BY <1>4, <2>2, <3>1
    <3>2. CASE i = n + 1 /\ (t \o u)[i] = w
      BY <1>1, <2>2, <3>2
    <3> QED
      BY <1>3, <3>1, <3>2
  <2> QED
    BY <1>3, <2>1, <2>2
<1>6. Ordered(t \o u)
  BY <1>5 DEF Ordered
<1> QED
  BY <1>6 DEF u

LEMMA History ==
  ASSUME PausedInv, NEW c \in Sessions, call[c] = "running"
  PROVE  /\ Sampled(server[c]) = weights[server[c]] /\ weights[server[c]] \in Versions
         /\ Covers(<<0, weights[server[c]]>>, Trajectory(c))
<1>0. TypesInv /\ LabelledIn(c)
  BY DEF PausedInv, LabelsInv
<1>1. server[c] \in Servers /\ phase[server[c]] = "serving"
  BY DEF PausedInv, TypesInv, CallInv, RunsInv
<1>2. PICK w \in Versions : w = weights[server[c]] /\ \A v \in Nat : Below(v) => v <= w
  BY <1>1, VersionTypes DEF PausedInv, TypesInv, Below
<1>3. w \in Nat
  BY TokenFacts
<1>4. PICK p \in Seq(Tokens), f \in Seq(Tokens), r \in Seq(Tokens) :
        p = prompt[c] /\ f = final[c] /\ r = fresh[c]
  BY <1>0, Parts
<1>5. Covers(<<0, w>>, p)
  <2>1. CASE fields[c] = <<>>
    BY <1>0, <1>3, <1>4, <2>1, CoverFacts DEF LabelledIn
  <2>2. CASE fields[c] # <<>>
    <3>1. PICK d \in Nat, e \in Nat : fields[c] = <<d, e>>
      BY <1>0, <2>2, SpanType
    <3>2. Covers(<<d, e>>, p) /\ e <= w
      BY <1>0, <1>2, <1>4, <2>2, <3>1 DEF LabelledIn
    <3> QED
      BY <1>3, <3>2, CoverFacts
  <2> QED
    BY <2>1, <2>2
<1>6. Covers(<<0, w>>, f)
  <2>1. CASE span[c] = <<>>
    BY <1>0, <1>4, <2>1 DEF LabelledIn, Covers, GeneratedIn
  <2>2. CASE span[c] # <<>>
    <3>1. PICK d \in Nat, e \in Nat : span[c] = <<d, e>>
      BY <1>0, <2>2, SpanType
    <3>2. Covers(<<d, e>>, f) /\ e <= w
      BY <1>0, <1>2, <1>4, <2>2, <3>1 DEF LabelledIn
    <3> QED
      BY <1>3, <3>2, CoverFacts
  <2> QED
    BY <2>1, <2>2
<1>7. Covers(<<0, w>>, r)
  BY <1>0, <1>2, <1>3, <1>4 DEF LabelledIn, Covers, GeneratedIn
<1>8. Covers(<<0, w>>, (p \o f) \o r)
  <2>1. 0 \in Int /\ w \in Int
    BY <1>3
  <2>2. p \o f \in Seq(Tokens)
    BY Concatenations
  <2>3. Covers(<<0, w>>, p \o f)
    BY <1>5, <1>6, <2>1, CoverFacts, Zenon
  <2> QED
    BY <1>7, <2>1, <2>2, <2>3, CoverFacts, Zenon
<1> QED
  BY <1>1, <1>2, <1>4, <1>8 DEF Trajectory, Sampled

LEMMA OrderStep == PausedInv /\ OrderInv /\ [Next]_vars => OrderInv'
<1> SUFFICES ASSUME PausedInv, OrderInv, [Next]_vars, NEW c \in Sessions
             PROVE  Ordered(Trajectory(c)')
  BY DEF OrderInv, Ordered, GeneratedIn
<1>1. PICK t \in Seq(Tokens) : t = Trajectory(c) /\ Ordered(t)
  BY Parts DEF PausedInv, OrderInv
<1>2. PICK u \in Seq(Tokens) : Trajectory(c)' = t \o u /\ (Foreign(u) \/ SampledFor(c, u))
  BY <1>1, TrajectoryStep DEF PausedInv, Extended
<1>3. CASE Foreign(u)
  BY <1>1, <1>2, <1>3, OrderedForeign
<1>4. CASE SampledFor(c, u)
  <2>1. PICK w \in Versions : u = <<w>> /\ Covers(<<0, w>>, t)
    BY <1>1, <1>4, History DEF SampledFor
  <2> QED
    BY <1>1, <1>2, <2>1, OrderedNext
<1> QED
  BY <1>2, <1>3, <1>4

(***************************************************************************)
(* If an abort blocks new requests, no token comes from weights that are   *)
(* half replaced and along a trajectory the versions never go back.        *)
(***************************************************************************)
THEOREM VersionsNeverGoBack == PausesGeneration => (Spec => []VersionsInOrder)
<1>1. Init => OrderInv
  BY DEF Init, OrderInv, Ordered, GeneratedIn, Trajectory
<1>2. OrderInv => VersionsInOrder
  BY DEF OrderInv, Ordered, VersionsInOrder
<1>3. CASE PausesGeneration
  <2>1. PausedInv /\ [Next]_vars => PausedInv'
    BY <1>3, PausedStep
  <2> QED
    BY <1>1, <1>2, <2>1, PausedInit, OrderStep, PTL DEF Spec
<1> QED
  BY <1>3
-----------------------------------------------------------------------------
(***************************************************************************)
(* The mask labels the end of a trajectory token by token, and what comes  *)
(* before is the prompt.  A trajectory that ends has generated something,  *)
(* without which its split would be at the wrong end: that needs            *)
(* PartialRollout, as otherwise the answer of a request that is aborted    *)
(* before its first token is empty.                                        *)
(***************************************************************************)
Same(m, u, i, j) == (m[i] = 1) <=> (u[j] \in Generated)

Labelled(p, m) ==
    /\ Len(m) <= Len(p)
    /\ \A i \in 1 .. Len(p) - Len(m) : p[i] = PromptToken
    /\ \A i \in 1 .. Len(m) : Same(m, p, i, Len(p) - Len(m) + i)

Aligned(o) ==
    /\ Len(o.response) = Len(o.mask)
    /\ o.logprobs \in {0, Len(o.mask)}
    /\ \A i \in DOMAIN o.mask : (o.mask[i] = 1) <=> (o.response[i] \in Generated)
    /\ \A i \in DOMAIN o.prompt : o.prompt[i] = PromptToken

AlignInv ==
    /\ output = [c \in Sessions |-> output[c]]
    /\ \A c \in Sessions :
          /\ Labelled(prompt[c], mask[c])
          /\ logprobs[c] = Len(mask[c])
          /\ state[c] \in {"PROCESSING_TOOLS", "TERMINATED"} => mask[c] # <<>>
          /\ call[c] = "answered" => final[c] # <<>>
          /\ state[c] = "DONE" => Aligned(output[c])

\* Tokens and labels that go together may be appended.
LEMMA LabelledFurther ==
  ASSUME NEW p \in Seq(Tokens), NEW m \in Seq({0, 1}), Labelled(p, m),
         NEW u \in Seq(Tokens), NEW v \in Seq({0, 1}), Len(u) = Len(v),
         \A i \in 1 .. Len(v) : Same(v, u, i, i)
  PROVE  Labelled(p \o u, m \o v) /\ Len(m \o v) = Len(m) + Len(v)
<1> DEFINE P == p \o u
           M == m \o v
<1>1. Len(p) \in Nat /\ Len(m) \in Nat /\ Len(u) \in Nat /\ Len(v) \in Nat
  OBVIOUS
<1>2. /\ Len(P) = Len(p) + Len(u)
      /\ \A i \in 1 .. Len(p) + Len(u) : P[i] = IF i <= Len(p) THEN p[i] ELSE u[i - Len(p)]
  BY ConcatProperties
<1>3. /\ Len(M) = Len(m) + Len(v)
      /\ \A i \in 1 .. Len(m) + Len(v) : M[i] = IF i <= Len(m) THEN m[i] ELSE v[i - Len(m)]
  BY ConcatProperties
<1> HIDE DEF P, M
<1> DEFINE off == Len(p) - Len(m)
<1>4. /\ Len(P) - Len(M) = off /\ off \in Nat /\ off + Len(m) = Len(p)
      /\ \A i \in 1 .. off : p[i] = PromptToken
      /\ \A i \in 1 .. Len(m) : Same(m, p, i, off + i)
  BY <1>1, <1>2, <1>3 DEF Labelled
<1>7. Len(M) <= Len(P)
  BY <1>1, <1>2, <1>3 DEF Labelled
<1> HIDE DEF off
<1>5. \A i \in 1 .. off : P[i] = PromptToken
  <2> SUFFICES ASSUME NEW i \in 1 .. off PROVE P[i] = PromptToken
    OBVIOUS
  <2>1. i \in 1 .. Len(p) + Len(u) /\ i <= Len(p)
    BY <1>1, <1>4
  <2> QED
    BY <2>1, <1>2, <1>4
<1>6. ASSUME NEW i \in 1 .. Len(M) PROVE Same(M, P, i, off + i)
  <2>1. CASE i <= Len(m)
    <3>0. i \in 1 .. Len(m) /\ i \in 1 .. Len(m) + Len(v)
      BY <2>1, <1>1, <1>3
    <3>3. off + i \in 1 .. Len(p) + Len(u) /\ off + i <= Len(p)
      BY <3>0, <1>1, <1>4
    <3>1. M[i] = m[i] /\ P[off + i] = p[off + i]
      BY <2>1, <3>0, <3>3, <1>2, <1>3
    <3>2. Same(m, p, i, off + i)
      BY <3>0, <1>4
    <3> QED
      BY <3>1, <3>2 DEF Same
  <2>2. CASE ~(i <= Len(m))
    <3>0. i \in Nat /\ i > Len(m) /\ i <= Len(m) + Len(v)
      BY <2>2, <1>1, <1>3
    <3> DEFINE j == off + i
    <3>1. /\ j \in 1 .. Len(p) + Len(u) /\ ~(j <= Len(p)) /\ j - Len(p) = i - Len(m)
          /\ i - Len(m) \in 1 .. Len(v) /\ i \in 1 .. Len(m) + Len(v)
      <4> DEFINE l == Len(m)
                 n == Len(p)
                 k == Len(v)
                 b == Len(u)
      <4>1. /\ off \in Nat /\ l \in Nat /\ n \in Nat /\ k \in Nat /\ b \in Nat
            /\ i \in Nat /\ i > l /\ i <= l + k /\ off + l = n /\ b = k
        BY <3>0, <1>1, <1>4
      <4> HIDE DEF l, n, k, b
      <4>2. /\ off + i \in 1 .. n + b /\ ~(off + i <= n) /\ (off + i) - n = i - l
            /\ i - l \in 1 .. k /\ i \in 1 .. l + k
        BY <4>1
      <4> QED
        BY <4>2 DEF l, n, k, b
    <3> HIDE DEF j
    <3>2. P[j] = u[i - Len(m)]
      BY <3>1, <1>2
    <3>3. M[i] = v[i - Len(m)] /\ P[off + i] = u[i - Len(m)]
      BY <2>2, <3>1, <3>2, <1>3 DEF j
    <3>4. Same(v, u, i - Len(m), i - Len(m))
      BY <3>1
    <3> QED
      BY <3>3, <3>4 DEF Same
  <2> QED
    BY <2>1, <2>2
<1>8. Labelled(P, M)
  BY <1>4, <1>5, <1>6, <1>7 DEF Labelled
<1> QED
  BY <1>3, <1>8 DEF P, M

\* The end of run splits a trajectory where its first generation begins.
LEMMA SplitAligned ==
  ASSUME NEW p \in Seq(Tokens), NEW m \in Seq({0, 1}), Labelled(p, m), m # <<>>
  PROVE  Aligned([prompt |-> SubSeq(p, 1, Len(p) - Len(m)),
                  response |-> Cut(LastOf(p, Len(m))),
                  mask |-> Cut(m),
                  logprobs |-> Least(Len(m), ResponseLength)])
<1> DEFINE off == Len(p) - Len(m)
           r == SubSeq(p, off + 1, Len(p))
           k == Least(Len(m), ResponseLength)
           a == SubSeq(p, 1, off)
<1>1. Len(p) \in Nat /\ Len(m) \in Nat /\ Len(m) > 0 /\ off \in Nat
  BY EmptySeq DEF Labelled
<1>2. r \in Seq(Tokens) /\ Len(r) = Len(m) /\ \A i \in 1 .. Len(m) : r[i] = p[off + i]
  <2>1. \A i \in off + 1 .. Len(p) : p[i] \in Tokens
    BY <1>1, ElementOfSeq
  <2> DEFINE lo == off + 1
             hi == Len(p)
  <2>2. lo \in Int /\ hi \in Int /\ hi - lo + 1 = Len(m) /\ lo <= hi
    BY <1>1
  <2>3. \A i \in 1 .. Len(m) : lo + i - 1 = off + i
    BY <1>1
  <2>4. \A i \in lo .. hi : p[i] \in Tokens
    BY <2>1
  <2> HIDE DEF lo, hi
  <2>5. /\ SubSeq(p, lo, hi) \in Seq(Tokens) /\ Len(SubSeq(p, lo, hi)) = Len(m)
        /\ \A i \in 1 .. Len(m) : SubSeq(p, lo, hi)[i] = p[lo + i - 1]
    BY <2>2, <2>4, SubSeqProperties
  <2>6. r = SubSeq(p, lo, hi)
    BY DEF lo, hi
  <2> QED
    BY <2>3, <2>5, <2>6
<1>3. k \in Nat /\ k <= Len(m)
  BY <1>1, Constants DEF Least
<1>4. LastOf(p, Len(m)) = r
  BY <1>1 DEF LastOf
<1>5. a \in Seq(Tokens) /\ DOMAIN a = 1 .. off /\ \A i \in 1 .. off : a[i] = p[i]
  <2>1. \A i \in 1 .. off : p[i] \in Tokens
    BY <1>1, ElementOfSeq
  <2> QED
    BY <2>1, <1>1, SubSeqProperties
<1>6. \A i \in 1 .. off : p[i] = PromptToken
  BY DEF Labelled
<1>7. \A i \in 1 .. Len(m) : Same(m, p, i, off + i)
  BY DEF Labelled
<1> HIDE DEF off, r, a
<1> DEFINE rc == SubSeq(r, 1, k)
           mc == SubSeq(m, 1, k)
<1>8. rc \in Seq(Tokens) /\ Len(rc) = k /\ \A i \in 1 .. k : rc[i] = r[i]
  <2>1. \A i \in 1 .. k : r[i] \in Tokens
    BY <1>1, <1>2, <1>3, ElementOfSeq
  <2> HIDE DEF k
  <2> QED
    BY <2>1, <1>3, SubSeqProperties
<1>9. mc \in Seq({0, 1}) /\ Len(mc) = k /\ \A i \in 1 .. k : mc[i] = m[i]
  <2>1. \A i \in 1 .. k : m[i] \in {0, 1}
    BY <1>1, <1>3, ElementOfSeq
  <2> HIDE DEF k
  <2> QED
    BY <2>1, <1>3, SubSeqProperties
<1>10. Cut(r) = rc /\ Cut(m) = mc
  BY <1>2 DEF Cut
<1> HIDE DEF rc, mc, k
<1>11. \A i \in DOMAIN mc : (mc[i] = 1) <=> (rc[i] \in Generated)
  <2> SUFFICES ASSUME NEW i \in DOMAIN mc PROVE (mc[i] = 1) <=> (rc[i] \in Generated)
    OBVIOUS
  <2>1. i \in 1 .. k /\ i \in 1 .. Len(m)
    BY <1>1, <1>3, <1>9
  <2>2. mc[i] = m[i] /\ rc[i] = p[off + i]
    BY <2>1, <1>2, <1>8, <1>9
  <2> QED
    BY <2>1, <2>2, <1>7 DEF Same
<1>12. \A i \in DOMAIN a : a[i] = PromptToken
  BY <1>5, <1>6
<1>13. Aligned([prompt |-> a, response |-> rc, mask |-> mc, logprobs |-> k])
  BY <1>8, <1>9, <1>11, <1>12 DEF Aligned
<1> QED
  BY <1>4, <1>10, <1>13 DEF a, k, off

LEMMA AlignInit == Init => AlignInv
<1> SUFFICES ASSUME Init PROVE AlignInv
  OBVIOUS
<1>1. Labelled(<<>>, <<>>)
  BY DEF Labelled
<1> QED
  BY <1>1 DEF Init, AlignInv

\* What the labels speak of does not change.
LEMMA AlignSame ==
  ASSUME AlignInv, UNCHANGED <<prompt, mask, logprobs, output, state>>,
         \A c \in Sessions : call'[c] = "answered" => final'[c] # <<>>
  PROVE  AlignInv'
BY DEF AlignInv

LEMMA AlignStep == PartialRollout /\ TypesInv /\ AlignInv /\ [Next]_vars => AlignInv'
<1> SUFFICES ASSUME PartialRollout, TypesInv, AlignInv, [Next]_vars PROVE AlignInv'
  OBVIOUS
<1>0. TypeOK /\ CallInv
  BY DEF TypesInv
<1>1. CASE \/ UNCHANGED vars \/ BeginUpdate \/ BeginTransfer
           \/ \E s \in Servers : Load(s) \/ Resume(s)
  <2>1. UNCHANGED <<loopVars, callVars>>
    BY <1>1 DEF vars, BeginUpdate, BeginTransfer, Load, Resume
  <2> QED
    BY <2>1, AlignSame DEF loopVars, callVars, AlignInv
<1>2. ASSUME NEW s \in Servers, AbortAll(s) PROVE AlignInv'
  <2>1. UNCHANGED <<prompt, mask, logprobs, output, state>>
    BY <1>2 DEF AbortAll, loopVars
  <2>2. \A c \in Sessions : call'[c] = "answered" => call[c] = "answered" /\ final'[c] = final[c]
    BY <1>2 DEF AbortAll
  <2> QED
    BY <2>1, <2>2, AlignSame DEF AlignInv
<1>3. ASSUME NEW c \in Sessions, Submit(c) \/ Start(c) \/ Decode(c) PROVE AlignInv'
  <2>1. UNCHANGED <<prompt, mask, logprobs, output, state, final>>
    BY <1>3 DEF Submit, Start, Decode, loopVars
  <2>2. \A d \in Sessions : call'[d] = "answered" => call[d] = "answered"
    BY <1>0, <1>3 DEF Submit, Start, Decode, TypeOK
  <2> QED
    BY <2>1, <2>2, AlignSame DEF AlignInv
<1>4. ASSUME NEW c \in Sessions, Finish(c) PROVE AlignInv'
  <2>1. UNCHANGED <<prompt, mask, logprobs, output, state>>
    BY <1>4 DEF Finish, loopVars
  <2> DEFINE x == Sampled(server[c])
  <2>2. final'[c] # <<>>
    <3>1. final[c] \o fresh[c] \in Seq(Tokens) /\ x \in Tokens /\ <<x>> \in Seq(Tokens)
      BY <1>4, Parts, SampledType, OneToken, Concatenations DEF Finish
    <3>2. final'[c] = (final[c] \o fresh[c]) \o <<x>>
      BY <1>0, <1>4 DEF Finish, TypeOK
    <3> HIDE DEF x
    <3>3. Len(final'[c]) = Len(final[c] \o fresh[c]) + 1
      BY <3>1, <3>2, ConcatProperties
    <3>4. Len(final[c] \o fresh[c]) \in Nat
      BY <3>1, LenProperties
    <3>5. Len(final'[c]) # 0
      <4> DEFINE k == Len(final[c] \o fresh[c])
      <4>1. Len(final'[c]) = k + 1 /\ k \in Nat
        BY <3>3, <3>4
      <4> HIDE DEF k
      <4> QED
        BY <4>1
    <3> QED
      BY <3>5, EmptySeq
  <2>3. \A d \in Sessions : d # c => call'[d] = call[d] /\ final'[d] = final[d]
    BY <1>0, <1>4 DEF Finish, TypeOK
  <2> QED
    BY <2>1, <2>2, <2>3, AlignSame DEF AlignInv
<1>5. ASSUME NEW c \in Sessions, HandlePending(c) PROVE AlignInv'
  <2>1. PICK n \in Nat : prompt' = [prompt EXCEPT ![c] = Repeat(PromptToken, n)]
    BY <1>5, Constants DEF HandlePending
  <2>2. /\ state[c] = "PENDING" /\ UNCHANGED <<mask, logprobs, output, final>>
        /\ state' = [state EXCEPT ![c] = "GENERATING"] /\ call' = [call EXCEPT ![c] = "ready"]
    BY <1>5 DEF HandlePending, Generate
  <2>3. mask[c] = <<>> /\ Len(mask[c]) = 0
    BY <2>2, <1>0 DEF CallInv
  <2>4. Labelled(Repeat(PromptToken, n), mask[c])
    <3> DEFINE u == Repeat(PromptToken, n)
    <3>1. Len(u) = n /\ \A i \in 1 .. n : u[i] = PromptToken
      BY Repeated, TokenFacts
    <3> HIDE DEF u
    <3>2. Labelled(u, mask[c])
      BY <3>1, <2>3 DEF Labelled
    <3> QED
      BY <3>2 DEF u
  <2>5. /\ prompt'[c] = Repeat(PromptToken, n) /\ state'[c] = "GENERATING" /\ call'[c] = "ready"
        /\ \A d \in Sessions : d # c =>
              prompt'[d] = prompt[d] /\ state'[d] = state[d] /\ call'[d] = call[d]
    BY <2>1, <2>2, <1>0 DEF TypeOK
  <2> QED
    BY <2>2, <2>4, <2>5 DEF AlignInv
<1>6. ASSUME NEW c \in Sessions, HandleGenerated(c) PROVE AlignInv'
  <2> DEFINE v == Repeat(1, Len(final[c]))
  <2>1. /\ call[c] = "answered" /\ UNCHANGED output
        /\ prompt'[c] = prompt[c] \o final[c] /\ mask'[c] = mask[c] \o v
        /\ logprobs'[c] = logprobs[c] + Len(final[c])
        /\ call'[c] = "none" /\ state'[c] \in {"PROCESSING_TOOLS", "TERMINATED"}
    BY <1>0, <1>6 DEF HandleGenerated, TypeOK
  <2>2. \A d \in Sessions : d # c =>
           /\ prompt'[d] = prompt[d] /\ mask'[d] = mask[d] /\ logprobs'[d] = logprobs[d]
           /\ call'[d] = call[d] /\ state'[d] = state[d] /\ final'[d] = final[d]
    BY <1>0, <1>6 DEF HandleGenerated, TypeOK
  <2>3. final[c] \in Seq(Generated) /\ final[c] # <<>> /\ Len(final[c]) \in Nat /\ Len(final[c]) > 0
    BY <1>0, <2>1, EmptySeq DEF AlignInv, TypeOK
  <2>4. v \in Seq({0, 1}) /\ Len(v) = Len(final[c]) /\ \A i \in 1 .. Len(v) : v[i] = 1
    BY <2>3, Repeated
  <2> HIDE DEF v
  <2>5. \A i \in 1 .. Len(v) : Same(v, final[c], i, i)
    <3>1. \A i \in 1 .. Len(final[c]) : final[c][i] \in Generated
      BY <2>3, ElementOfSeq
    <3> QED
      BY <2>4, <3>1 DEF Same
  <2>6. prompt[c] \in Seq(Tokens) /\ mask[c] \in Seq({0, 1}) /\ final[c] \in Seq(Tokens)
        /\ Labelled(prompt[c], mask[c]) /\ logprobs[c] = Len(mask[c])
    BY <1>0, Parts DEF AlignInv, TypeOK
  <2>7. Labelled(prompt'[c], mask'[c]) /\ Len(mask'[c]) = Len(mask[c]) + Len(v)
    <3>1. Len(final[c]) = Len(v)
      BY <2>4
    <3>2. /\ Labelled(prompt[c] \o final[c], mask[c] \o v)
          /\ Len(mask[c] \o v) = Len(mask[c]) + Len(v)
      BY <2>4, <2>5, <2>6, <3>1, LabelledFurther, ZenonT(30)
    <3> QED
      BY <2>1, <3>2
  <2>8. mask'[c] # <<>>
    <3>1. Len(mask[c]) \in Nat
      BY <2>6, LenProperties
    <3>2. Len(mask'[c]) # 0
      <4> DEFINE k == Len(mask'[c])
                 l == Len(mask[c])
                 n == Len(final[c])
      <4>1. k = l + n /\ l \in Nat /\ n \in Nat /\ n > 0
        BY <2>3, <2>4, <2>7, <3>1
      <4> HIDE DEF k, l, n
      <4>2. k # 0
        BY <4>1
      <4> QED
        BY <4>2 DEF k
    <3> QED
      BY <3>2, EmptySeq
  <2>9. logprobs'[c] = Len(mask'[c])
    BY <2>1, <2>4, <2>6, <2>7
  <2> QED
    BY <2>1, <2>2, <2>7, <2>8, <2>9 DEF AlignInv
<1>7. ASSUME NEW c \in Sessions, HandleTools(c) PROVE AlignInv'
  <2>1. state[c] = "PROCESSING_TOOLS" /\ UNCHANGED output /\ mask[c] # <<>>
    BY <1>7 DEF HandleTools, AlignInv
  <2>2. CASE /\ state' = [state EXCEPT ![c] = "TERMINATED"]
             /\ UNCHANGED <<prompt, mask, logprobs, turns, callVars>>
    <3>1. state'[c] = "TERMINATED" /\ \A d \in Sessions : d # c => state'[d] = state[d]
      BY <2>2, <1>0 DEF TypeOK
    <3> QED
      BY <2>1, <2>2, <3>1 DEF AlignInv, callVars
  <2>3. ASSUME NEW n \in ToolLens,
               prompt' = [prompt EXCEPT ![c] = @ \o Repeat(ToolToken, n)],
               mask' = [mask EXCEPT ![c] = @ \o Repeat(0, n)],
               logprobs' = [logprobs EXCEPT ![c] = IF @ = 0 THEN 0 ELSE @ + n],
               Generate(c)
        PROVE  AlignInv'
    <3> DEFINE u == Repeat(ToolToken, n)
               v == Repeat(0, n)
    <3>1. /\ u \in Seq(Tokens) /\ Len(u) = n /\ \A i \in 1 .. n : u[i] = ToolToken
          /\ v \in Seq({0, 1}) /\ Len(v) = n /\ \A i \in 1 .. n : v[i] = 0
          /\ n \in Nat
      BY Repeated, TokenFacts, Constants
    <3>2. /\ prompt'[c] = prompt[c] \o u /\ mask'[c] = mask[c] \o v
          /\ logprobs'[c] = IF logprobs[c] = 0 THEN 0 ELSE logprobs[c] + n
          /\ state'[c] = "GENERATING" /\ call'[c] = "ready" /\ UNCHANGED final
          /\ \A d \in Sessions : d # c =>
               /\ prompt'[d] = prompt[d] /\ mask'[d] = mask[d] /\ logprobs'[d] = logprobs[d]
               /\ state'[d] = state[d] /\ call'[d] = call[d]
      BY <2>3, <1>0 DEF Generate, TypeOK
    <3> HIDE DEF u, v
    <3>3. \A i \in 1 .. Len(v) : Same(v, u, i, i)
      BY <3>1, TokenFacts DEF Same
    <3>4. /\ prompt[c] \in Seq(Tokens) /\ mask[c] \in Seq({0, 1})
          /\ Labelled(prompt[c], mask[c]) /\ logprobs[c] = Len(mask[c])
      BY <1>0, Parts DEF AlignInv, TypeOK
    <3>5. Labelled(prompt'[c], mask'[c]) /\ Len(mask'[c]) = Len(mask[c]) + n
      BY <3>1, <3>2, <3>3, <3>4, LabelledFurther, ZenonT(30)
    <3>6. logprobs'[c] = Len(mask'[c])
      <4>1. Len(mask[c]) # 0
        BY <2>1, <3>4, EmptySeq
      <4> QED
        BY <4>1, <3>2, <3>4, <3>5
    <3> QED
      BY <2>1, <3>2, <3>5, <3>6 DEF AlignInv
  <2> QED
    BY <1>7, <2>2, <2>3 DEF HandleTools
<1>8. ASSUME NEW c \in Sessions, Finalize(c) PROVE AlignInv'
  <2> DEFINE o == [prompt |-> SubSeq(prompt[c], 1, Len(prompt[c]) - Len(mask[c])),
                   response |-> Cut(LastOf(prompt[c], Len(mask[c]))),
                   mask |-> Cut(mask[c]),
                   logprobs |-> Least(Len(mask[c]), ResponseLength)]
  <2>1. /\ state[c] = "TERMINATED" /\ UNCHANGED <<prompt, mask, logprobs, call, final>>
        /\ logprobs[c] = Len(mask[c]) /\ mask[c] # <<>> /\ Labelled(prompt[c], mask[c])
    BY <1>8 DEF Finalize, callVars, AlignInv
  <2>2. Aligned(o)
    BY <1>0, <2>1, Parts, SplitAligned DEF TypeOK
  <2>3. output' = [output EXCEPT ![c] = o] /\ state' = [state EXCEPT ![c] = "DONE"]
    BY <1>8, <2>1 DEF Finalize
  <2> HIDE DEF o
  <2>4. output'[c] = o /\ \A d \in Sessions : d # c => output'[d] = output[d]
    BY <2>3 DEF AlignInv
  <2>5. output' = [d \in Sessions |-> output'[d]]
    BY <2>3 DEF AlignInv
  <2>6. state'[c] = "DONE" /\ \A d \in Sessions : d # c => state'[d] = state[d]
    BY <2>3, <1>0 DEF TypeOK
  <2> QED
    BY <2>1, <2>2, <2>4, <2>5, <2>6 DEF AlignInv
<1> QED
  BY <1>1, <1>2, <1>3, <1>4, <1>5, <1>6, <1>7, <1>8 DEF Next, Update, Request, Loop

\* With partial rollout the output of every trajectory is aligned, whatever
\* the lengths, the turns and the interruptions.
THEOREM OutputsAreAligned == PartialRollout => (Spec => []OutputAligned)
<1>1. AlignInv => OutputAligned
  BY DEF AlignInv, Aligned, OutputAligned
<1>2. CASE PartialRollout
  <2>1. TypesInv /\ AlignInv /\ [Next]_vars => AlignInv'
    BY <1>2, AlignStep
  <2> QED
    BY <1>1, <2>1, AlignInit, TypesInit, TypesStep, PTL DEF Spec
<1> QED
  BY <1>2
=============================================================================
