--------------------------- MODULE Agents_proofs ----------------------------
(***************************************************************************)
(* Proofs about what the agents stand on.                                  *)
(*                                                                         *)
(* LlmManager, for every number of requests, providers, attempts and       *)
(* chunks: when a request goes on to a fallback and when it is given up.   *)
(* ModelClients: whose vector a text gets, and whose header a call.        *)
(***************************************************************************)
EXTENDS LlmManager, PlannerLoops, ModelClients, SequenceTheorems, TLAPS

\* The part of the type invariant that concerns the requests.
RequestType ==
  /\ phase \in [Requests -> {"idle", "calling", "sleeping", "answered", "thrown", "left"}]
  /\ link \in [Requests -> Chain]
  /\ attempt \in [Requests -> 1 .. MaxAttempts]
  /\ failed \in [Requests -> [Chain -> Nat]]
  /\ terminal \in [Requests -> BOOLEAN]

\* A request has failed once per ended attempt at its provider, MaxAttempts
\* times at the primary if it is past it, and never at a provider to come.
Count(r) ==
  /\ phase[r] \in {"idle", "calling", "answered", "left"} =>
       failed[r][link[r]] = attempt[r] - 1
  /\ phase[r] = "sleeping" => failed[r][link[r]] = attempt[r] /\ attempt[r] < MaxAttempts
  /\ \A p \in Chain : p < link[r] => failed[r][p] > 0
  /\ \A p \in Chain : p > link[r] => failed[r][p] = 0

Counts == \A r \in Requests : Count(r)

Inv == RequestType /\ Counts /\ FallbackAfterRetries /\ GivesUpLast

LEMMA InitInv == LlmInit => Inv
  BY ChainAssumption
  DEF LlmInit, Inv, RequestType, Counts, Count, FallbackAfterRetries, GivesUpLast, Chain, ChainAssumption

LEMMA StepInv == ASSUME Inv, [LlmNext]_llmVars PROVE Inv'
<1> USE ChainAssumption DEF Chain, ChainAssumption
<1>1. ASSUME NEW r \in Requests, NEW s \in {"calling", "answered", "left"},
             phase' = [phase EXCEPT ![r] = s], phase[r] \in {"idle", "calling"},
             UNCHANGED <<link, attempt, failed, terminal>>
      PROVE  Inv'
  <2>1. RequestType' BY <1>1 DEF Inv, RequestType
  <2>2. phase'[r] = s /\ \A q \in Requests : q # r => phase'[q] = phase[q]
    BY <1>1 DEF Inv, RequestType
  <2>3. Counts' BY <1>1, <2>2 DEF Inv, Counts, Count
  <2>4. FallbackAfterRetries' /\ GivesUpLast'
    BY <1>1, <2>2 DEF Inv, FallbackAfterRetries, GivesUpLast
  <2> QED BY <2>1, <2>3, <2>4 DEF Inv
<1>2. ASSUME NEW r \in Requests, Start(r) \/ Answer(r) \/ Pull(r) \/ Exhaust(r) \/ Leave(r)
      PROVE  Inv'
  <2>1. CASE Pull(r)
    BY <2>1 DEF Pull, history, Inv, RequestType, Counts, Count, FallbackAfterRetries, GivesUpLast
  <2>2. CASE ~Pull(r) BY <1>1, <1>2, <2>2 DEF Start, Answer, Exhaust, Leave, history
  <2> QED BY <2>1, <2>2
<1>3. ASSUME NEW r \in Requests, CanFail(r), Retry(r) PROVE Inv'
  <2>1. RequestType'
    BY <1>3 DEF Inv, RequestType, Retry, Failure
  <2>2. /\ phase[r] = "calling" /\ attempt[r] < MaxAttempts
        /\ failed[r][link[r]] = attempt[r] - 1
    BY <1>3 DEF Retry, LastAttempt, CanFail, Inv, RequestType, Counts, Count
  <2>3. /\ phase'[r] = "sleeping" /\ failed'[r][link[r]] = attempt[r]
        /\ \A p \in Chain : p # link[r] => failed'[r][p] = failed[r][p]
        /\ \A q \in Requests : q # r => /\ failed'[q] = failed[q]
                                        /\ terminal'[q] = terminal[q]
                                        /\ phase'[q] = phase[q]
        /\ UNCHANGED <<link, attempt>>
    BY <1>3, <2>2 DEF Inv, RequestType, Retry, Failure
  <2>4. Counts'
    <3>1. ASSUME NEW q \in Requests, q # r PROVE Count(q)'
      BY <3>1, <2>3 DEF Inv, Counts, Count
    <3>2. Count(r)'
      BY <2>2, <2>3 DEF Inv, Counts, Count
    <3> QED BY <3>1, <3>2 DEF Counts
  <2>5. FallbackAfterRetries'
    <3>1. link[r] > 1 => failed'[r][1] = failed[r][1]
      BY <2>3, SMTT(30) DEF Inv, RequestType
    <3> QED BY <3>1, <2>3 DEF Inv, FallbackAfterRetries
  <2>6. GivesUpLast' BY <2>3 DEF Inv, GivesUpLast
  <2> QED BY <2>1, <2>4, <2>5, <2>6 DEF Inv
<1>4. ASSUME NEW r \in Requests, Wake(r) PROVE Inv'
  <2>1. /\ phase[r] = "sleeping" /\ failed[r][link[r]] = attempt[r] /\ attempt[r] < MaxAttempts
        /\ UNCHANGED <<link, failed, terminal>>
    BY <1>4 DEF Wake, history, Inv, Counts, Count
  <2>2. /\ phase'[r] = "calling" /\ attempt'[r] = attempt[r] + 1
        /\ \A q \in Requests : q # r => phase'[q] = phase[q] /\ attempt'[q] = attempt[q]
    BY <1>4 DEF Wake, Inv, RequestType
  <2>3. RequestType'
    BY <1>4, <2>1, SMTT(30) DEF Wake, Inv, RequestType
  <2>4. Counts'
    <3>1. ASSUME NEW q \in Requests, q # r PROVE Count(q)'
      BY <3>1, <2>1, <2>2 DEF Inv, Counts, Count
    <3>2. Count(r)'
      BY <2>1, <2>2 DEF Inv, RequestType, Counts, Count
    <3> QED BY <3>1, <3>2 DEF Counts
  <2>5. FallbackAfterRetries' BY <2>1 DEF Inv, FallbackAfterRetries
  <2>6. GivesUpLast' BY <2>1, <2>2 DEF Inv, GivesUpLast
  <2> QED BY <2>3, <2>4, <2>5, <2>6 DEF Inv
<1>5. ASSUME NEW r \in Requests, NEW retryable \in BOOLEAN, CanFail(r), GiveUp(r, retryable) PROVE Inv'
  <2>1. /\ phase[r] = "calling" /\ failed[r][link[r]] = attempt[r] - 1
        /\ failed' = [failed EXCEPT ![r][link[r]] = @ + 1]
        /\ terminal' = [terminal EXCEPT ![r] = ~retryable]
        /\ retryable => attempt[r] = MaxAttempts
        /\ link[r] \in Chain /\ attempt[r] \in Nat
    BY <1>5 DEF GiveUp, Failure, CanFail, LastAttempt, Inv, RequestType, Counts, Count
  <2>2. failed' \in [Requests -> [Chain -> Nat]] /\ terminal' \in [Requests -> BOOLEAN]
    BY <2>1 DEF Inv, RequestType
  <2>3. /\ failed'[r][link[r]] > 0
        /\ \A p \in Chain : p # link[r] => failed'[r][p] = failed[r][p]
        /\ \A q \in Requests : q # r => failed'[q] = failed[q] /\ terminal'[q] = terminal[q]
        /\ terminal'[r] = ~retryable
        /\ retryable => failed'[r][link[r]] = MaxAttempts
    BY <2>1 DEF Inv, RequestType
  <2>4. CASE /\ Surfaces(r, retryable) \/ link[r] = Providers
             /\ phase' = [phase EXCEPT ![r] = "thrown"]
             /\ UNCHANGED <<link, attempt>>
    <3>1. RequestType' BY <2>2, <2>4 DEF Inv, RequestType
    <3>2. phase'[r] = "thrown" /\ \A q \in Requests : q # r => phase'[q] = phase[q]
      BY <2>4 DEF Inv, RequestType
    <3>3. Counts'
      <4>1. ASSUME NEW q \in Requests, q # r PROVE Count(q)'
        BY <4>1, <2>3, <2>4, <3>2 DEF Inv, Counts, Count
      <4>2. Count(r)'
        BY <2>1, <2>3, <2>4, <3>2 DEF Inv, Counts, Count
      <4> QED BY <4>1, <4>2 DEF Counts
    <3>4. FallbackAfterRetries'
      <4>1. link[r] \in Chain /\ 1 \in Chain
        BY DEF Inv, RequestType
      <4>2. link[r] > 1 => 1 # link[r]
        BY <4>1
      <4>3. link[r] > 1 => failed'[r][1] = failed[r][1]
        BY <4>1, <4>2, <2>3, Zenon
      <4> QED BY <4>3, <2>3, <2>4 DEF Inv, FallbackAfterRetries
    <3>5. \/ link[r] = 1 /\ terminal'[r]
          \/ link[r] = Providers /\ \A p \in Chain : failed'[r][p] > 0
      <4>1. \A p \in Chain : p < link[r] => failed'[r][p] > 0
        BY <2>1, <2>3 DEF Inv, Counts, Count
      <4>2. CASE Surfaces(r, retryable)
        BY <4>2, <2>3 , <2>4 DEF Surfaces
      <4>3. CASE link[r] = Providers
        BY <4>1, <4>3, <2>1, <2>3, <2>4
      <4> QED BY <4>2, <4>3, <2>4
    <3>6. GivesUpLast' BY <2>3, <2>4, <3>2, <3>5 DEF Inv, GivesUpLast
    <3> QED BY <3>1, <3>3, <3>4, <3>6 DEF Inv
  <2>5. CASE /\ ~Surfaces(r, retryable) /\ link[r] < Providers
             /\ link' = [link EXCEPT ![r] = @ + 1]
             /\ attempt' = [attempt EXCEPT ![r] = 1]
             /\ UNCHANGED phase
    <3>1. RequestType'
      <4>1. link[r] + 1 \in Chain BY <2>1, <2>5
      <4>2. link' \in [Requests -> Chain] BY <4>1, <2>5 DEF Inv, RequestType
      <4>3. attempt' \in [Requests -> 1 .. MaxAttempts] BY <2>5 DEF Inv, RequestType
      <4> QED BY <4>2, <4>3, <2>2, <2>5 DEF Inv, RequestType
    <3>2. /\ link'[r] = link[r] + 1 /\ attempt'[r] = 1 /\ link[r] \in Chain
          /\ \A q \in Requests : q # r => link'[q] = link[q] /\ attempt'[q] = attempt[q]
      BY <2>5 DEF Inv, RequestType
    <3>3. Counts'
      <4>1. ASSUME NEW q \in Requests, q # r PROVE Count(q)'
        BY <4>1, <2>3, <2>5, <3>2 DEF Inv, Counts, Count
      <4>2. Count(r)'
        <5>1. link[r] + 1 \in Chain /\ failed[r][link[r] + 1] = 0
          BY <2>1, <2>5 DEF Inv, Counts, Count
        <5>2. failed'[r][link[r] + 1] = 0 BY <5>1, <2>1, <2>3
        <5>3. \A p \in Chain : p < link[r] + 1 => failed'[r][p] > 0
          BY <2>1, <2>3 DEF Inv, Counts, Count
        <5>4. \A p \in Chain : p > link[r] + 1 => failed'[r][p] = 0
          BY <2>1, <2>3 DEF Inv, Counts, Count
        <5> QED BY <5>2, <5>3, <5>4, <2>1, <2>5, <3>2 DEF Count
      <4> QED BY <4>1, <4>2 DEF Counts
    <3>4. failed'[r][1] = MaxAttempts
      <4>1. CASE link[r] = 1 BY <4>1, <2>3, <2>5 DEF Surfaces
      <4>2. CASE link[r] > 1 BY <4>2, <2>1, <2>3 DEF Inv, FallbackAfterRetries
      <4> QED BY <4>1, <4>2, <3>2
    <3>5. FallbackAfterRetries' BY <3>2, <3>4, <2>3 DEF Inv, FallbackAfterRetries
    <3>6. GivesUpLast' BY <2>1, <2>3, <2>5, <3>2 DEF Inv, GivesUpLast
    <3> QED BY <3>1, <3>3, <3>5, <3>6 DEF Inv
  <2> QED BY <1>5, <2>4, <2>5 DEF GiveUp
<1>6. CASE UNCHANGED llmVars
  BY <1>6 DEF llmVars, request, history, Inv, RequestType, Counts, Count, FallbackAfterRetries, GivesUpLast
<1>7. ASSUME NEW v \in ErrorVerdicts PROVE v \in BOOLEAN
  <2>1. \E kind : v = Retryable(kind)
    BY <1>7 DEF ErrorVerdicts
  <2> QED BY <2>1 DEF Retryable
<1>8. ASSUME NEW r \in Requests, Fail(r) PROVE Inv'
  <2>1. PICK v \in ErrorVerdicts : CanFail(r) /\ ((v /\ Retry(r)) \/ GiveUp(r, v))
    BY <1>8, Zenon DEF Fail
  <2>2. CASE Retry(r) BY <1>3, <2>1, <2>2
  <2>3. CASE GiveUp(r, v) BY <1>5, <1>7, <2>1, <2>3
  <2> QED BY <2>1, <2>2, <2>3
<1> QED BY <1>2, <1>4, <1>6, <1>8 DEF LlmNext, Step

LEMMA Invariance == LlmSpec => []Inv
  BY InitInv, StepInv, PTL DEF LlmSpec

\* manager.ts:16 -- no request leaves the primary before its retries are over.
THEOREM FallbackAfterRetriesCorrect == LlmSpec => []FallbackAfterRetries
  BY Invariance, PTL DEF Inv

\* No request is given up while a provider it may try is left.
THEOREM GivesUpLastCorrect == LlmSpec => []GivesUpLast
  BY Invariance, PTL DEF Inv

\* Together: a chain is walked link by link, retries first, to its end.
THEOREM AttemptsInOrderCorrect == LlmSpec => []AttemptsInOrder
  BY FallbackAfterRetriesCorrect, GivesUpLastCorrect, PTL DEF AttemptsInOrder

-----------------------------------------------------------------------------
(* PlannerLoops, for every model, tool and number of steps: the events of  *)
(* a run.  What the loops collect is not part of it.                       *)

EventKinds == {"thought", "tool_call", "tool_result", "answer_chunk", "final"}

Pending(t) == t # <<>> /\ t[Len(t)] = "tool_call"

Paired(t) ==
  \A i \in 1 .. Len(t) :
    /\ t[i] = "tool_call" /\ i < Len(t) => t[i + 1] = "tool_result"
    /\ t[i] = "tool_result" => i > 1 /\ t[i - 1] = "tool_call"

Unfinished(t) == \A i \in 1 .. Len(t) : t[i] # "final"
FinalLast(t) == \A i \in 1 .. Len(t) : t[i] = "final" => i = Len(t)

\* Events a loop emits at once: a result can only be the first and a call the last.
Burst(k) ==
  /\ k \in Seq(EventKinds) /\ Len(k) > 0
  /\ \A i \in 1 .. Len(k) :
       /\ k[i] = "tool_call" \/ k[i] = "final" => i = Len(k)
       /\ k[i] = "tool_result" => i = 1

LEMMA BurstIsAppended ==
  ASSUME NEW t \in Seq(EventKinds), Paired(t), Unfinished(t),
         NEW k, Burst(k), k[1] = "tool_result" <=> Pending(t)
  PROVE  /\ t \o k \in Seq(EventKinds) /\ t \o k # <<>>
         /\ (t \o k)[Len(t \o k)] = k[Len(k)]
         /\ Paired(t \o k) /\ FinalLast(t \o k)
         /\ k[Len(k)] # "final" => Unfinished(t \o k)
<1> DEFINE s == t \o k
           m == Len(t)
           n == Len(k)
<1>1. /\ k \in Seq(EventKinds) /\ n > 0 /\ m \in Nat /\ n \in Nat
  BY DEF Burst
<1>2. /\ s \in Seq(EventKinds) /\ Len(s) = m + n
      /\ \A i \in 1 .. m : s[i] = t[i]
      /\ \A i \in 1 .. n : s[m + i] = k[i]
  BY <1>1
<1>3. \A i \in 1 .. m + n : i \in 1 .. m \/ (i - m \in 1 .. n /\ s[i] = k[i - m])
  <2> SUFFICES ASSUME NEW i \in 1 .. m + n, i \notin 1 .. m
               PROVE  i - m \in 1 .. n /\ s[i] = k[i - m]
    OBVIOUS
  <2>1. i - m \in 1 .. n /\ m + (i - m) = i
    BY <1>1
  <2> QED BY <2>1, <1>2
<1>4. s[Len(s)] = k[n] /\ s # <<>>
  BY <1>1, <1>2
<1>5. m > 0 => t # <<>>
  BY <1>1
<1>6. ASSUME NEW i \in 1 .. m + n
      PROVE  /\ s[i] = "tool_call" /\ i < m + n => s[i + 1] = "tool_result"
             /\ s[i] = "tool_result" => i > 1 /\ s[i - 1] = "tool_call"
  <2>1. CASE i \in 1 .. m /\ i < m
    <3>1. i + 1 \in 1 .. m /\ s[i] = t[i] /\ s[i + 1] = t[i + 1]
      BY <1>1, <1>2, <2>1
    <3>2. i > 1 => s[i - 1] = t[i - 1]
      BY <1>1, <1>2, <2>1
    <3> QED BY <2>1, <3>1, <3>2 DEF Paired
  <2>2. CASE i = m
    <3>1. m \in 1 .. m /\ s[m] = t[m] /\ s[m + 1] = k[1]
      BY <1>1, <1>2, <2>2
    <3>2. i > 1 => s[i - 1] = t[i - 1]
      BY <1>1, <1>2, <2>2
    <3>3. t[m] = "tool_call" => k[1] = "tool_result"
      BY <1>5, <3>1 DEF Pending
    <3> QED BY <2>2, <3>1, <3>2, <3>3 DEF Paired
  <2>3. CASE i \notin 1 .. m
    <3>1. i - m \in 1 .. n /\ s[i] = k[i - m]
      BY <1>3, <2>3
    <3>2. s[i] = "tool_call" => i = m + n
      BY <1>1, <3>1 DEF Burst
    <3>3. ASSUME s[i] = "tool_result" PROVE i > 1 /\ s[i - 1] = "tool_call"
      <4>1. i - m = 1
        BY <3>1, <3>3 DEF Burst
      <4>2. Pending(t) /\ i = m + 1
        BY <1>1, <3>1, <3>3, <4>1
      <4>3. m > 0 /\ t[m] = "tool_call"
        BY <4>2 DEF Pending
      <4> QED BY <1>1, <1>2, <4>2, <4>3
    <3> QED BY <1>1, <3>2, <3>3
  <2> QED BY <1>1, <2>1, <2>2, <2>3
<1>7. Paired(s)
  BY <1>2, <1>6 DEF Paired
<1>8. ASSUME NEW i \in 1 .. m + n, s[i] = "final" PROVE i = m + n /\ k[n] = "final"
  <2>1. i \notin 1 .. m
    BY <1>2, <1>8 DEF Unfinished
  <2>2. i - m \in 1 .. n /\ k[i - m] = "final"
    BY <1>3, <1>8, <2>1
  <2>3. i - m = n
    BY <2>2 DEF Burst
  <2> QED BY <1>1, <2>2, <2>3
<1> QED BY <1>2, <1>4, <1>7, <1>8 DEF FinalLast, Unfinished

TraceInv ==
  /\ trace \in Seq(EventKinds) /\ Paired(trace) /\ FinalLast(trace)
  /\ loopAt # "done" => Unfinished(trace)
  /\ loopAt = "new" => trace = <<>>
  /\ loopAt = "calling" => Pending(trace)
  /\ loopAt \in {"planning", "synthesis", "done"} => ~Pending(trace)
  /\ loopAt = "done" /\ reply # "canned" => trace # <<>> /\ trace[Len(trace)] = "final"

\* What an action emits keeps the invariant when the place it leads to fits.
LEMMA EmittedKeeps ==
  ASSUME TraceInv, loopAt # "done", NEW k, Burst(k), Emit(k),
         k[1] = "tool_result" <=> Pending(trace),
         k[Len(k)] = "final" <=> loopAt' = "done",
         k[Len(k)] = "tool_call" => loopAt' \notin {"planning", "synthesis", "done"},
         loopAt' = "calling" => k[Len(k)] = "tool_call", loopAt' # "new"
  PROVE  TraceInv'
<1>1. /\ trace \in Seq(EventKinds) /\ Paired(trace) /\ Unfinished(trace) /\ trace' = trace \o k
  BY DEF TraceInv, Emit
<1>2. /\ trace' \in Seq(EventKinds) /\ trace' # <<>> /\ trace'[Len(trace')] = k[Len(k)]
      /\ Paired(trace') /\ FinalLast(trace')
      /\ k[Len(k)] # "final" => Unfinished(trace')
  BY <1>1, BurstIsAppended, Zenon
<1>3. Pending(trace') <=> k[Len(k)] = "tool_call"
  BY <1>2 DEF Pending
<1> QED BY <1>2, <1>3 DEF TraceInv

LEMMA InitTrace == LoopInit => TraceInv
<1> SUFFICES ASSUME LoopInit PROVE TraceInv
  OBVIOUS
<1>1. trace = <<>> /\ loopAt = "new"
  BY DEF LoopInit
<1> QED BY <1>1 DEF TraceInv, Paired, FinalLast, Unfinished, Pending

LEMMA QuietTrace ==
  ASSUME TraceInv, UNCHANGED trace, loopAt # "done",
         loopAt' \in {"thrown", "left"} \/ UNCHANGED loopAt
  PROVE  TraceInv'
  BY DEF TraceInv

\* A tool that answers or fails is told in a result.
LEMMA AfterToolTrace ==
  ASSUME TraceInv, loopAt = "calling", AfterTool
  PROVE  TraceInv'
<1>1. Pending(trace)
  BY DEF TraceInv
<1>2. CASE loopAt' = "planning" /\ Emit(<<"tool_result">>)
  <2>1. Burst(<<"tool_result">>)
    BY DEF Burst, EventKinds
  <2> QED BY <1>1, <1>2, <2>1, EmittedKeeps
<1>3. CASE loopAt' = "synthesis" /\ Emit(<<"tool_result", "thought">>)
  <2>1. Burst(<<"tool_result", "thought">>)
    BY DEF Burst, EventKinds
  <2> QED BY <1>1, <1>3, <2>1, EmittedKeeps
<1>4. CASE loopAt' = "done" /\ Emit(<<"tool_result", "final">>)
  <2>1. Burst(<<"tool_result", "final">>)
    BY DEF Burst, EventKinds
  <2> QED BY <1>1, <1>4, <2>1, EmittedKeeps
<1> QED BY <1>2, <1>3, <1>4, Zenon DEF AfterTool

\* Deep research hands the model's text out first.
LEMMA SpokenFirst ==
  ASSUME NEW k, Burst(k), k[1] # "tool_result"
  PROVE  LET b == <<"answer_chunk">> \o k
         IN  Burst(b) /\ b[1] = "answer_chunk" /\ b[Len(b)] = k[Len(k)]
<1> DEFINE a == <<"answer_chunk">>
           b == a \o k
           n == Len(k)
<1>1. a \in Seq(EventKinds) /\ k \in Seq(EventKinds) /\ Len(a) = 1 /\ a[1] = "answer_chunk"
  BY DEF Burst, EventKinds
<1>2. n \in Nat /\ n > 0
  BY <1>1, LenProperties DEF Burst
<1> HIDE DEF a
<1>3. /\ b \in Seq(EventKinds) /\ Len(b) = 1 + n
      /\ \A i \in 1 .. 1 + n : b[i] = IF i <= 1 THEN a[i] ELSE k[i - 1]
  <2>1. /\ b \in Seq(EventKinds) /\ Len(b) = Len(a) + n
        /\ \A i \in 1 .. Len(a) + n : b[i] = IF i <= Len(a) THEN a[i] ELSE k[i - Len(a)]
    BY <1>1, ConcatProperties
  <2> QED BY <2>1, <1>1
<1> HIDE DEF b
<1>4. b[1] = "answer_chunk" /\ b[1 + n] = k[n]
  BY <1>1, <1>2, <1>3
<1>5. \A i \in 1 .. 1 + n : i # 1 => i - 1 \in 1 .. n /\ b[i] = k[i - 1]
  BY <1>2, <1>3
<1>6. ASSUME NEW i \in 1 .. 1 + n
      PROVE  /\ b[i] = "tool_call" \/ b[i] = "final" => i = 1 + n
             /\ b[i] = "tool_result" => i = 1
  <2>1. CASE i = 1
    BY <2>1, <1>4
  <2>2. CASE i # 1
    <3>1. i - 1 \in 1 .. n /\ b[i] = k[i - 1]
      BY <1>5, <2>2
    <3>2. /\ k[i - 1] = "tool_call" \/ k[i - 1] = "final" => i - 1 = n
          /\ k[i - 1] = "tool_result" => i - 1 = 1
      BY <3>1 DEF Burst
    <3> QED BY <1>2, <3>1, <3>2
  <2> QED BY <2>1, <2>2
<1>7. Burst(b)
  BY <1>2, <1>3, <1>6 DEF Burst
<1> QED BY <1>3, <1>4, <1>7 DEF b, a

LEMMA PlanCallTrace ==
  ASSUME TraceInv, NEW c, PlanCall(c)
  PROVE  TraceInv'
<1>1. loopAt = "planning" /\ ~Pending(trace)
  BY DEF PlanCall, TurnIs, TraceInv
<1>2. CASE Deep /\ c = repeatGuard
  <2> DEFINE k == <<"thought", "thought", "thought">>
             b == <<"answer_chunk">> \o k
  <2>1. loopAt' = "synthesis" /\ Emit(b)
    BY <1>2 DEF PlanCall, Spoken
  <2>2. Burst(k) /\ k[1] # "tool_result"
    BY DEF Burst, EventKinds
  <2>3. Burst(b) /\ b[1] = "answer_chunk" /\ b[Len(b)] = k[Len(k)]
    BY <2>2, SpokenFirst
  <2> HIDE DEF b
  <2> QED BY <1>1, <2>1, <2>3, EmittedKeeps
<1>3. CASE ~(Deep /\ c = repeatGuard)
  <2>1. loopAt' \in {"thrown", "calling"} /\ Emit(Spoken \o <<"thought", "tool_call">>)
    BY <1>3 DEF PlanCall
  <2>2. CASE Deep
    <3> DEFINE k == <<"thought", "tool_call">>
               b == <<"answer_chunk">> \o k
    <3>1. Spoken \o k = b
      BY <2>2 DEF Spoken
    <3>2. Burst(k) /\ k[1] # "tool_result" /\ k[Len(k)] = "tool_call"
      BY DEF Burst, EventKinds
    <3>3. Burst(b) /\ b[1] = "answer_chunk" /\ b[Len(b)] = "tool_call"
      BY <3>2, SpokenFirst
    <3> HIDE DEF b
    <3> QED BY <1>1, <2>1, <3>1, <3>3, EmittedKeeps
  <2>3. CASE ~Deep
    <3> DEFINE k == <<"thought", "tool_call">>
    <3>1. Spoken \o <<"thought", "tool_call">> = k
      BY <2>3 DEF Spoken
    <3>2. Burst(k)
      BY DEF Burst, EventKinds
    <3> QED BY <1>1, <2>1, <3>1, <3>2, EmittedKeeps
  <2> QED BY <2>2, <2>3
<1> QED BY <1>2, <1>3

LEMMA PlanAnswerTrace ==
  ASSUME TraceInv, NEW cited, PlanAnswer(cited)
  PROVE  TraceInv'
<1>1. loopAt = "planning" /\ ~Pending(trace) /\ loopAt' = "done"
  BY DEF PlanAnswer, TurnIs, TraceInv
<1>2. CASE Deep
  <2> DEFINE k == <<"thought", "final">>
             b == <<"answer_chunk">> \o k
  <2>1. Emit(b)
    BY <1>2 DEF PlanAnswer, Spoken
  <2>2. Burst(k) /\ k[1] # "tool_result"
    BY DEF Burst, EventKinds
  <2>3. Burst(b) /\ b[1] = "answer_chunk" /\ b[Len(b)] = k[Len(k)]
    BY <2>2, SpokenFirst
  <2> HIDE DEF b
  <2> QED BY <1>1, <2>1, <2>3, EmittedKeeps
<1>3. CASE ~Deep
  <2> DEFINE k == <<"final">>
  <2>1. Emit(<<>> \o <<"final">>)
    BY <1>3 DEF PlanAnswer, Spoken
  <2>2. <<>> \o <<"final">> = k
    OBVIOUS
  <2>3. Burst(k)
    BY DEF Burst, EventKinds
  <2> QED BY <1>1, <2>1, <2>2, <2>3, EmittedKeeps
<1> QED BY <1>2, <1>3

LEMMA PlanGarbledTrace ==
  ASSUME TraceInv, PlanGarbled
  PROVE  TraceInv'
<1>1. loopAt = "planning" /\ ~Pending(trace)
  BY DEF PlanGarbled, TurnIs, TraceInv
<1>2. CASE Deep
  <2> DEFINE k == <<"thought", "thought">>
             b == <<"answer_chunk">> \o k
  <2>1. loopAt' = "synthesis" /\ Emit(b)
    BY <1>2 DEF PlanGarbled, Spoken
  <2>2. Burst(k) /\ k[1] # "tool_result"
    BY DEF Burst, EventKinds
  <2>3. Burst(b) /\ b[1] = "answer_chunk" /\ b[Len(b)] = k[Len(k)]
    BY <2>2, SpokenFirst
  <2> HIDE DEF b
  <2> QED BY <1>1, <2>1, <2>3, EmittedKeeps
<1>3. CASE ~Deep
  <2> DEFINE k == <<"final">>
  <2>1. loopAt' = "done" /\ Emit(k)
    BY <1>3 DEF PlanGarbled
  <2>2. Burst(k)
    BY DEF Burst, EventKinds
  <2> QED BY <1>1, <2>1, <2>2, EmittedKeeps
<1> QED BY <1>2, <1>3

LEMMA SynthesizeTrace ==
  ASSUME TraceInv, NEW parses, Synthesize(parses)
  PROVE  TraceInv'
<1>1. loopAt = "synthesis" /\ ~Pending(trace)
  BY DEF Synthesize, TraceInv
<1>2. CASE parses
  <2>1. loopAt' = "done" /\ Emit(<<"thought", "answer_chunk", "final">>)
    BY <1>2 DEF Synthesize
  <2>2. Burst(<<"thought", "answer_chunk", "final">>)
    BY DEF Burst, EventKinds
  <2> QED BY <1>1, <2>1, <2>2, EmittedKeeps
<1>3. CASE ~parses
  <2>1. loopAt' = "thrown" /\ Emit(<<"thought", "answer_chunk">>)
    BY <1>3 DEF Synthesize
  <2>2. Burst(<<"thought", "answer_chunk">>)
    BY DEF Burst, EventKinds
  <2> QED BY <1>1, <2>1, <2>2, EmittedKeeps
<1> QED BY <1>2, <1>3

LEMMA StepTrace == TraceInv /\ [LoopNext]_loopVars => TraceInv'
<1> SUFFICES ASSUME TraceInv, [LoopNext]_loopVars PROVE TraceInv'
  OBVIOUS
<1>1. CASE LoopStart
  <2>1. /\ loopAt = "new" /\ UNCHANGED trace
        /\ loopAt' = "planning" \/ (loopAt' = "done" /\ reply' = "canned")
    BY <1>1 DEF LoopStart
  <2>2. trace = <<>> /\ ~Pending(<<>>)
    BY <2>1 DEF TraceInv, Pending
  <2> QED BY <2>1, <2>2 DEF TraceInv
<1>2. CASE LoopBreaks
  <2>1. UNCHANGED trace /\ loopAt # "done" /\ loopAt' \in {"thrown", "left"}
    BY <1>2 DEF LoopBreaks
  <2> QED BY <2>1, QuietTrace
<1>3. CASE PlanGarbled
  BY <1>3, PlanGarbledTrace
<1>4. CASE ToolFails
  <2>1. loopAt = "calling" /\ AfterTool
    BY <1>4 DEF ToolFails
  <2> QED BY <2>1, AfterToolTrace
<1>5. ASSUME NEW hits, ToolAnswers(hits) PROVE TraceInv'
  <2>1. loopAt = "calling" /\ AfterTool
    BY <1>5 DEF ToolAnswers
  <2> QED BY <2>1, AfterToolTrace
<1>6. CASE UNCHANGED loopVars
  BY <1>6 DEF loopVars, TraceInv
<1> QED
  BY <1>1, <1>2, <1>3, <1>4, <1>5, <1>6, PlanCallTrace, PlanAnswerTrace, SynthesizeTrace, Zenon
  DEF LoopNext

\* A live trace can be drawn from the events of either loop (agents/react.ts,
\* deep-research.ts): calls and results pair up, and a run that returns says so once.
THEOREM TraceIsPairedCorrect == LoopSpec => []TraceIsPaired
<1>1. TraceInv => TraceIsPaired
  <2> SUFFICES ASSUME TraceInv PROVE TraceIsPaired
    OBVIOUS
  <2>1. DOMAIN trace = 1 .. Len(trace) /\ Last(trace) = trace[Len(trace)]
    BY DEF TraceInv, Last
  <2> QED BY <2>1 DEF TraceInv, Paired, FinalLast, Pending, TraceIsPaired
<1> QED BY InitTrace, StepTrace, <1>1, PTL DEF LoopSpec

-----------------------------------------------------------------------------
(* ModelClients                                                            *)

\* The batch is the next texts in order, and what was embedded are the texts of the
\* batches before and of the slices of this one.
EmbedInv ==
  /\ texts \in Nat /\ processed \in Nat /\ sliceAt \in Nat /\ Len(batch) \in Nat
  /\ processed + Len(batch) <= texts
  /\ batch = [k \in 1 .. Len(batch) |-> processed + k]
  /\ all = [k \in 1 .. processed + (IF sliceAt < Len(batch) THEN sliceAt ELSE Len(batch)) |-> k]
  /\ VectorsMatchTexts

LEMMA MinOfTwo ==
  ASSUME NEW a \in Nat, NEW b \in Nat
  PROVE  Min({a, b}) = IF a <= b THEN a ELSE b
<1> DEFINE m == IF a <= b THEN a ELSE b
<1>1. m \in {a, b} /\ \A y \in {a, b} : m =< y
  OBVIOUS
<1>2. \A x \in {a, b} : (\A y \in {a, b} : x =< y) => x = m
  OBVIOUS
<1> HIDE DEF m
<1>3. Min({a, b}) = m
  BY <1>1, <1>2 DEF Min
<1> QED BY <1>3 DEF m

\* The numbers up to n; the l numbers after p.
UpTo(s, n) == s = [k \in 1 .. n |-> k]
After(s, p, l) == s = [k \in 1 .. l |-> p + k]

\* Counting on by a slice of numbers that begin where the count ends.
LEMMA CountsOn ==
  ASSUME NEW p \in Nat, NEW f \in Nat, NEW l \in Nat, NEW m \in Nat, f < m, m <= l,
         NEW b, After(b, p, l), NEW a, UpTo(a, p + f)
  PROVE  UpTo(a \o SubSeq(b, f + 1, m), p + m)
<1> USE DEF UpTo, After
<1> DEFINE new == SubSeq(b, f + 1, m)
<1>1. b \in Seq(Nat) /\ Len(b) = l /\ a \in Seq(Nat) /\ Len(a) = p + f
  OBVIOUS
<1>2. new \in Seq(Nat) /\ Len(new) = m - f /\ \A k \in 1 .. m - f : new[k] = b[f + k]
  BY <1>1
<1>3. \A k \in 1 .. m - f : new[k] = p + f + k
  BY <1>2
<1> HIDE DEF new
<1>4. a \o new \in Seq(Nat) /\ Len(a \o new) = p + m
  BY <1>1, <1>2
<1>5. \A k \in 1 .. p + m : (a \o new)[k] = k
  <2> SUFFICES ASSUME NEW k \in 1 .. p + m PROVE (a \o new)[k] = k
    OBVIOUS
  <2>1. CASE k <= p + f
    BY <1>1, <1>2, <2>1
  <2>2. CASE ~(k <= p + f)
    <3> DEFINE j == k - (p + f)
    <3>1. j \in 1 .. m - f /\ k = p + f + j
      BY <2>2
    <3>2. (a \o new)[k] = new[k - Len(a)]
      BY <1>1, <1>2, <1>4, <2>2
    <3>3. (a \o new)[k] = new[j]
      BY <1>1, <3>2
    <3> HIDE DEF j
    <3>4. new[j] = p + f + j
      BY <1>3, <3>1
    <3> QED BY <3>1, <3>3, <3>4
  <2> QED BY <2>1, <2>2
<1>6. a \o new \in [1 .. p + m -> Nat]
  BY ONLY <1>4, LenProperties
<1> QED BY ONLY <1>5, <1>6 DEF new, UpTo

LEMMA EmbedStep ==
  ASSUME EmbedInv, EmbedNext PROVE EmbedInv'
<1> USE ClientsAssumption DEF ClientsAssumption
<1>1. CASE BeginBatch
  <2> DEFINE n == Min({IngestBatch, texts - processed})
  <2>1. n \in Nat /\ processed + n <= texts
    BY <1>1, MinOfTwo DEF BeginBatch, EmbedInv
  <2>2. batch' = [k \in 1 .. n |-> processed + k] /\ sliceAt' = 0 /\ Len(batch) = 0
        /\ UNCHANGED <<texts, processed, all, storedVec>>
    BY <1>1 DEF BeginBatch
  <2> HIDE DEF n
  <2>3. Len(batch') = n
    BY <2>1, <2>2
  <2>4. all' = [k \in 1 .. processed' + (IF sliceAt' < Len(batch') THEN sliceAt' ELSE Len(batch')) |-> k]
    BY <2>1, <2>2, <2>3 DEF EmbedInv
  <2> QED BY <2>1, <2>2, <2>3, <2>4 DEF EmbedInv, VectorsMatchTexts
<1>2. CASE EmbedSlice
  <2> DEFINE m == Min({sliceAt + EmbedderBatch, Len(batch)})
  <2>1. sliceAt < Len(batch) /\ all' = all \o SubSeq(batch, sliceAt + 1, m)
        /\ sliceAt' = sliceAt + EmbedderBatch /\ UNCHANGED <<texts, batch, processed, storedVec>>
    BY <1>2 DEF EmbedSlice, NextSlice
  <2>2. Len(batch) \in Nat /\ sliceAt \in Nat /\ processed \in Nat /\ sliceAt + EmbedderBatch \in Nat
        /\ EmbedderBatch > 0
    BY DEF EmbedInv
  <2>3. m = IF sliceAt + EmbedderBatch <= Len(batch) THEN sliceAt + EmbedderBatch ELSE Len(batch)
    BY <2>2, MinOfTwo
  <2> HIDE DEF m
  <2>4. m \in Nat /\ sliceAt < m /\ m <= Len(batch)
    BY <2>1, <2>2, <2>3
  <2>5. UpTo(all, processed + sliceAt) /\ After(batch, processed, Len(batch))
    BY <2>1 DEF EmbedInv, UpTo, After
  <2>6. all' = [k \in 1 .. processed + m |-> k]
    <3>1. UpTo(all \o SubSeq(batch, sliceAt + 1, m), processed + m)
      BY ONLY <2>1, <2>2, <2>4, <2>5, CountsOn
    <3> QED BY <2>1, <3>1 DEF UpTo
  <2>7. m = IF sliceAt' < Len(batch') THEN sliceAt' ELSE Len(batch')
    BY <2>1, <2>2, <2>3
  <2>8. all' = [k \in 1 .. processed' + (IF sliceAt' < Len(batch') THEN sliceAt' ELSE Len(batch')) |-> k]
    BY <2>1, <2>6, <2>7
  <2>9. sliceAt' \in Nat
    BY <2>1, <2>2
  <2> QED BY <2>1, <2>8, <2>9 DEF EmbedInv, VectorsMatchTexts
<1>3. CASE EndBatch
  <2>1. batch # <<>> /\ sliceAt >= Len(batch) /\ processed' = processed + Len(batch) /\ batch' = <<>>
        /\ UNCHANGED <<texts, sliceAt, all, storedVec>>
    BY <1>3 DEF EndBatch
  <2>2. Len(batch') = 0 /\ batch' = [k \in 1 .. 0 |-> processed' + k]
    BY <2>1
  <2>3. all' = [k \in 1 .. processed' + (IF sliceAt' < Len(batch') THEN sliceAt' ELSE Len(batch')) |-> k]
    BY <2>1, <2>2 DEF EmbedInv
  <2> QED BY <2>1, <2>2, <2>3 DEF EmbedInv, VectorsMatchTexts
<1>4. CASE HandOver
  <2>1. processed = texts /\ Len(batch) = 0 /\ UNCHANGED <<texts, batch, sliceAt, processed, all>>
        /\ storedVec' = {<<i, all[i]>> : i \in 1 .. Min({texts, Len(all)})}
    BY <1>4 DEF HandOver
  <2>2. all = [k \in 1 .. texts |-> k] /\ texts \in Nat
    BY <2>1 DEF EmbedInv
  <2>3. Min({texts, Len(all)}) = texts
    BY <2>2, MinOfTwo
  <2>4. storedVec' = {<<i, i>> : i \in 1 .. texts}
    BY <2>1, <2>2, <2>3
  <2> QED BY <2>1, <2>4 DEF EmbedInv, VectorsMatchTexts
<1> QED BY <1>1, <1>2, <1>3, <1>4 DEF EmbedNext

\* For any number of texts and any sizes of the two nested batches: a chunk is stored
\* under the vector of its own text, and none is left out.
THEOREM VectorsMatchTextsCorrect == ClientsSpec => []VectorsMatchTexts
<1>1. ClientsInit => EmbedInv
  BY ClientsAssumption DEF ClientsInit, EmbedInv, VectorsMatchTexts, ClientsAssumption
<1>2. ASSUME EmbedInv, [ClientsNext]_modelVars PROVE EmbedInv'
  <2>1. CASE UNCHANGED embedVars
    BY <1>2, <2>1 DEF embedVars, EmbedInv, VectorsMatchTexts
  <2>2. CASE EmbedNext
    BY <1>2, <2>2, EmbedStep
  <2> QED BY <1>2, <2>1, <2>2, Zenon DEF ClientsNext, modelVars
<1>3. EmbedInv => VectorsMatchTexts
  BY DEF EmbedInv
<1> QED BY <1>1, <1>2, <1>3, PTL DEF ClientsSpec

\* A client with another header than the configured one was made by a stream, which
\* is past its import, and so is every one a call took or used.
StreamMade == prefix = "Raw" /\ \E s \in ModelCalls : Streamed(s) /\ callAt[s] \in {"ready", "sent"}

HeaderInv ==
  /\ prefix \in {"Bearer", "Raw"}
  /\ callAt \in [ModelCalls -> {"new", "loading", "ready", "sent", "failed"}]
  /\ ownClient \in [ModelCalls -> {"null", "Bearer", "Raw"}]
  /\ sentWith \in [ModelCalls -> {"null", "Bearer", "Raw"}]
  /\ client \in {"null", "Bearer", "Raw"}
  /\ client \notin {"null", prefix} => StreamMade
  /\ \A c \in ModelCalls : ownClient[c] \notin {"null", prefix} => StreamMade
  /\ \A c \in ModelCalls : sentWith[c] \notin {"null", prefix} => StreamMade

LEMMA HeaderStep == ASSUME HeaderInv, CallNext PROVE HeaderInv'
<1> PICK c \in ModelCalls : BeginCall(c) \/ Loaded(c) \/ LoadFails(c) \/ Send(c)
  BY DEF CallNext
<1>1. StreamMade => StreamMade'
  BY DEF StreamMade, HeaderInv, BeginCall, Loaded, LoadFails, Send
<1>2. CASE BeginCall(c)
  BY <1>1, <1>2 DEF BeginCall, HeaderInv
<1>3. CASE Loaded(c)
  <2> DEFINE made == IF Streamed(c) /\ client # "null" THEN client ELSE MakesClient(c)
  <2>1. /\ client' = made /\ ownClient' = [ownClient EXCEPT ![c] = made]
        /\ callAt' = [callAt EXCEPT ![c] = "ready"] /\ UNCHANGED <<prefix, sentWith>>
    BY <1>3 DEF Loaded
  <2>2. made \in {"null", "Bearer", "Raw"}
    BY DEF HeaderInv, MakesClient
  <2>3. made \notin {"null", prefix} => StreamMade'
    BY <1>1, <2>1 DEF HeaderInv, MakesClient, StreamMade
  <2> HIDE DEF made
  <2> QED BY <1>1, <2>1, <2>2, <2>3 DEF HeaderInv
<1>4. CASE LoadFails(c)
  BY <1>1, <1>4 DEF LoadFails, HeaderInv
<1>5. CASE Send(c)
  BY <1>1, <1>5 DEF Send, HeaderInv
<1> QED BY <1>2, <1>3, <1>4, <1>5

\* For any calls that race on one client: one goes out with another authorization than
\* the configured one only if a stream made the client.
THEOREM ForeignHeaderCorrect == ClientsSpec => []ForeignHeaderComesFromStream
<1>1. ClientsInit => HeaderInv
  BY DEF ClientsInit, HeaderInv
<1>2. ASSUME HeaderInv, [ClientsNext]_modelVars PROVE HeaderInv'
  <2>1. CASE UNCHANGED clientVars
    BY <1>2, <2>1 DEF clientVars, HeaderInv, StreamMade
  <2>2. CASE CallNext
    BY <1>2, <2>2, HeaderStep
  <2> QED BY <1>2, <2>1, <2>2, Zenon DEF ClientsNext, modelVars
<1>3. HeaderInv => ForeignHeaderComesFromStream
  BY DEF HeaderInv, StreamMade, ForeignHeaderComesFromStream
<1> QED BY <1>1, <1>2, <1>3, PTL DEF ClientsSpec

\* For any number of texts, sizes of batches and slices, and calls: every text is
\* stored under its own vector, and a header that was not configured comes from a
\* stream (ingest-verbose.ts, embedder/openai.ts, llm/openai.ts).
THEOREM CallsKeepTheirOwnCorrect == ClientsSpec => []CallsKeepTheirOwn
  BY VectorsMatchTextsCorrect, ForeignHeaderCorrect, PTL DEF CallsKeepTheirOwn

=============================================================================
