----------------------------- MODULE LlmManager -----------------------------
(***************************************************************************)
(* One LlmManager shared by concurrent requests (core/src/llm/manager.ts): *)
(* retries with backoff, then the next provider of the chain, and totals   *)
(* over all calls.  A provider is external: it answers or fails with an    *)
(* error that errors.ts classifies as retryable or terminal.               *)
(*                                                                         *)
(* A step is what runs between two awaits (or two pulls of a stream).      *)
(***************************************************************************)
EXTENDS Integers, Sequences, FiniteSets, FiniteSetsExt

CONSTANTS
  Generates,     \* requests that call generate()
  Streams,       \* requests that consume stream()
  Providers,     \* the length of the chain; 1 is the primary
  MaxAttempts,   \* maxAttempts
  Chunks,        \* how many chunks an answer has
  CutMidway      \* a stream may fail after some of its chunks

ASSUME ChainAssumption == Providers \in Nat \ {0} /\ MaxAttempts \in Nat \ {0}
ASSUME ChunkAssumption == Chunks \in Nat \ {0} /\ CutMidway \in BOOLEAN

Requests == Generates \cup Streams

VARIABLES
  phase,      \* "idle", "calling", "sleeping", "answered", "thrown", "left"
  link,       \* the provider being tried
  attempt,    \* the attempt at it
  pulled,     \* the chunks of the current attempt already yielded
  output,     \* what the consumer of a stream received
  failed,     \* history: the failures of each provider, by request
  terminal,   \* history: the last failure of the request was not retryable
  totals      \* LlmUsageTotals, and the calls of each provider

request == <<phase, link, attempt, pulled, output>>
history == <<failed, terminal>>
llmVars == <<request, history, totals>>

Chain == 1 .. Providers

LlmTypeOK ==
  /\ phase \in [Requests -> {"idle", "calling", "sleeping", "answered", "thrown", "left"}]
  /\ link \in [Requests -> Chain]
  /\ attempt \in [Requests -> 1 .. MaxAttempts]
  /\ pulled \in [Requests -> 0 .. Chunks]
  /\ output \in [Requests -> Seq(Chain \X (1 .. Chunks))]
  /\ failed \in [Requests -> [Chain -> 0 .. MaxAttempts]]
  /\ terminal \in [Requests -> BOOLEAN]
  /\ totals \in [attempts : Nat, failures : Nat, fallbacksUsed : Nat, answers : Nat,
                 calls : [Chain -> Nat]]

LlmInit ==
  /\ phase = [r \in Requests |-> "idle"]
  /\ link = [r \in Requests |-> 1]
  /\ attempt = [r \in Requests |-> 1]
  /\ pulled = [r \in Requests |-> 0]
  /\ output = [r \in Requests |-> <<>>]
  /\ failed = [r \in Requests |-> [p \in Chain |-> 0]]
  /\ terminal = [r \in Requests |-> FALSE]
  /\ totals = [attempts |-> 0, failures |-> 0, fallbacksUsed |-> 0, answers |-> 0,
               calls |-> [p \in Chain |-> 0]]

IsStream(r) == r \in Streams

\* tryStreamWithRetries counts an attempt when it starts, tryWithRetries when
\* it ends.
Counted(r, t) == IF IsStream(r) THEN [t EXCEPT !.attempts = @ + 1] ELSE t

-----------------------------------------------------------------------------
(* errors.ts                                                               *)

\* The status of a response, 0 if there was none.
Statuses == {0, 400, 401, 403, 408, 413, 429, 500, 599}

ClassifyStatus(status) ==
  CASE status \in {401, 403} -> "auth"
    [] status = 408 -> "timeout"
    [] status = 413 -> "context_overflow"
    [] status = 429 -> "rate_limit"
    [] status \in 500 .. 599 -> "provider_5xx"
    [] OTHER -> "unknown"

\* What a message may speak of, in the order in which its words are looked for.
Topics == <<"rate_limit", "timeout", "network", "auth", "context_overflow", "config">>

ClassifyMessage(said) ==
  LET found == {i \in DOMAIN Topics : Topics[i] \in said}
  IN  IF found = {} THEN "unknown" ELSE Topics[Min(found)]

\* The status decides, unless it says nothing.
ClassifyError(status, said) ==
  LET kind == ClassifyStatus(status)
  IN  IF kind # "unknown" THEN kind ELSE ClassifyMessage(said)

Retryable(kind) == kind \in {"rate_limit", "timeout", "network", "provider_5xx"}

\* What an error of a provider may turn out to be: one that has a status, or one
\* that has only its message.
ErrorVerdicts ==
  {Retryable(ClassifyError(status, {})) : status \in Statuses}
    \cup {Retryable(ClassifyError(0, said)) : said \in SUBSET {Topics[i] : i \in DOMAIN Topics}}

-----------------------------------------------------------------------------
Start(r) ==
  /\ phase[r] = "idle"
  /\ phase' = [phase EXCEPT ![r] = "calling"]
  /\ totals' = Counted(r, totals)
  /\ UNCHANGED <<link, attempt, pulled, output, history>>

\* llm.generate resolves: recordSuccess adds the usage of the answer.
Answer(r) ==
  /\ phase[r] = "calling" /\ ~IsStream(r)
  /\ phase' = [phase EXCEPT ![r] = "answered"]
  /\ totals' = [totals EXCEPT !.attempts = @ + 1, !.answers = @ + 1,
                              !.calls[link[r]] = @ + 1]
  /\ UNCHANGED <<link, attempt, pulled, output, history>>

\* The iterator yields, and so does stream().
Pull(r) ==
  /\ phase[r] = "calling" /\ IsStream(r) /\ pulled[r] < Chunks
  /\ pulled' = [pulled EXCEPT ![r] = @ + 1]
  /\ output' = [output EXCEPT ![r] = Append(@, <<link[r], pulled[r] + 1>>)]
  /\ UNCHANGED <<phase, link, attempt, history, totals>>

\* The iterator is done: no usage and no call is recorded.
Exhaust(r) ==
  /\ phase[r] = "calling" /\ IsStream(r) /\ pulled[r] = Chunks
  /\ phase' = [phase EXCEPT ![r] = "answered"]
  /\ UNCHANGED <<link, attempt, pulled, output, history, totals>>

\* The consumer stops reading.
Leave(r) ==
  /\ phase[r] = "calling" /\ IsStream(r)
  /\ phase' = [phase EXCEPT ![r] = "left"]
  /\ UNCHANGED <<link, attempt, pulled, output, history, totals>>

\* Mutant: a stream fails after chunks were handed out and the next attempt repeats.
CanFail_AnyTime(r) == phase[r] = "calling"

CanFail(r) ==
  phase[r] = "calling" /\ (IsStream(r) /\ pulled[r] > 0 => CutMidway)

\* The catch of the attempt.
Failure(r, retryable) ==
  /\ failed' = [failed EXCEPT ![r][link[r]] = @ + 1]
  /\ terminal' = [terminal EXCEPT ![r] = ~retryable]
  /\ UNCHANGED output

\* Mutant: failures of a stream are counted as attempts again.
Failures_Twice(r) == [totals EXCEPT !.failures = @ + 1, !.attempts = @ + 1]

Failures(r) ==
  [totals EXCEPT !.failures = @ + 1, !.attempts = IF IsStream(r) THEN @ ELSE @ + 1]

LastAttempt(r, retryable) == ~retryable \/ attempt[r] = MaxAttempts

\* A retryable failure with attempts left: back off.
Retry(r) ==
  /\ ~LastAttempt(r, TRUE)
  /\ Failure(r, TRUE)
  /\ phase' = [phase EXCEPT ![r] = "sleeping"]
  /\ totals' = Failures(r)
  /\ UNCHANGED <<link, attempt, pulled>>

Wake(r) ==
  /\ phase[r] = "sleeping"
  /\ phase' = [phase EXCEPT ![r] = "calling"]
  /\ attempt' = [attempt EXCEPT ![r] = @ + 1]
  /\ pulled' = [pulled EXCEPT ![r] = 0]
  /\ totals' = Counted(r, totals)
  /\ UNCHANGED <<link, output, history>>

\* Mutant: a terminal error of the primary is answered by a fallback.
Surfaces_Never(r, retryable) == FALSE

\* Mutant: a terminal error of a fallback surfaces as well.
Surfaces_Always(r, retryable) == ~retryable

\* The attempts at this provider are over: the catch of the chain.
Surfaces(r, retryable) == ~retryable /\ link[r] = 1

GiveUp(r, retryable) ==
  /\ LastAttempt(r, retryable)
  /\ Failure(r, retryable)
  /\ LET t == [Failures(r) EXCEPT !.calls[link[r]] = @ + 1]
         counted == IF link[r] = 1 /\ ~Surfaces(r, retryable)
                    THEN [t EXCEPT !.fallbacksUsed = @ + 1] ELSE t
     IN  \/ /\ Surfaces(r, retryable) \/ link[r] = Providers
            /\ phase' = [phase EXCEPT ![r] = "thrown"]
            /\ totals' = counted
            /\ UNCHANGED <<link, attempt, pulled>>
         \/ /\ ~Surfaces(r, retryable) /\ link[r] < Providers
            /\ link' = [link EXCEPT ![r] = @ + 1]
            /\ attempt' = [attempt EXCEPT ![r] = 1]
            /\ pulled' = [pulled EXCEPT ![r] = 0]
            /\ totals' = Counted(r, counted)
            /\ UNCHANGED phase

Fail(r) ==
  CanFail(r) /\ \E retryable \in ErrorVerdicts : (retryable /\ Retry(r)) \/ GiveUp(r, retryable)

Step(r) == Answer(r) \/ Pull(r) \/ Exhaust(r) \/ Leave(r) \/ Fail(r) \/ Wake(r)

LlmNext == \E r \in Requests : Start(r) \/ Step(r)

LlmSpec == LlmInit /\ [][LlmNext]_llmVars

\* A provider answers or fails, a timer fires, a consumer goes on reading.
LlmFairSpec == LlmSpec /\ \A r \in Requests : WF_llmVars(Step(r))

-----------------------------------------------------------------------------
(* Properties                                                              *)

Finished(r) == phase[r] \in {"answered", "thrown", "left"}
FailuresOf(r) == MapThenSumSet(LAMBDA p : failed[r][p], Chain)

\* "Fallback fires only after the primary's retries are exhausted": a request
\* that is past the primary has failed at it MaxAttempts times.
FallbackAfterRetries ==
  \A r \in Requests : link[r] > 1 => failed[r][1] = MaxAttempts

\* A request is given up only on a terminal error of the primary or at the end
\* of the chain, when every provider it passed has failed.
GivesUpLast ==
  \A r \in Requests : phase[r] = "thrown" =>
    \/ link[r] = 1 /\ terminal[r]
    \/ link[r] = Providers /\ \A p \in Chain : failed[r][p] > 0

\* A chain is walked in order and to its end, link by link, retries first.
AttemptsInOrder == FallbackAfterRetries /\ GivesUpLast

\* The totals are those of all requests, however they interleave: no failure
\* is lost, and the attempts are the failures, the answers and what is open.
TotalsAddUp ==
  LET open == {r \in Streams : phase[r] \in {"calling", "answered", "left"}}
  IN  /\ totals.failures = MapThenSumSet(FailuresOf, Requests)
      /\ totals.attempts = totals.failures + totals.answers + Cardinality(open)
      /\ Providers > 1 => totals.fallbacksUsed = Cardinality({r \in Requests : link[r] > 1})

\* A stream hands its consumer one answer: the chunks of one provider in order.
StreamIsOneAnswer ==
  \A r \in Streams :
    /\ \A i \in DOMAIN output[r] : output[r][i][2] = i
    /\ \A i, j \in DOMAIN output[r] : output[r][i][1] = output[r][j][1]

\* An authentication, configuration or context-overflow error surfaces
\* immediately: the request does not go on to another provider.
TerminalSurfaces == [][\A r \in Requests : terminal'[r] => link'[r] = link[r]]_llmVars

\* usage() covers what every answered request cost.
UsageCoversAnswers ==
  totals.answers = Cardinality({r \in Requests : phase[r] = "answered"})

=============================================================================
