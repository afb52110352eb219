------------------------------ MODULE WebChat -------------------------------
(***************************************************************************)
(* The chat page of the web application (apps/web): one tab, the hook      *)
(* useRevexStream with its fetch and AbortController, and the page that    *)
(* shows its text in the bubble of the question (chat/page.tsx).           *)
(*                                                                         *)
(* The tab is single-threaded: a step is a handler, the continuation of an *)
(* await or a commit of React with its effects.  React commits before it   *)
(* handles the next click or key.  The network cuts the response anywhere. *)
(***************************************************************************)
EXTENDS Integers, Sequences, FiniteSets, SequencesExt, Functions

CONSTANTS
  MaxQuestions,   \* bound on the questions of a session
  MaxEvents       \* bound on the events of a response

ASSUME ChatAssumption == MaxQuestions \in Nat /\ MaxEvents \in Nat

Questions == 1 .. MaxQuestions

\* Events of a response: a delta, the final answer, or one the parser skips.
EventKinds == {"answer_chunk", "final", "unparsable"}
Nothing == [q |-> 0, delta |-> 0]

VARIABLES
  chatAt,       \* "open", "left"
  asked,        \* the last question (nextId, assistantMessageIdRef)
  start,        \* by question: "none", "fetching", "reading", "over"
  aborted,      \* by question: its controller's abort() was called
  script,       \* by question: the events the server sends
  cut,          \* by question: the connection ends inside the last event
  taken,        \* by question: the events parsed from `buffer`
  accumulated,  \* by question: the local of start()
  controller,   \* controllerRef.current: a question, or 0
  streamText,   \* state of the hook: text, as <<question, event>> pairs
  streaming,    \* state of the hook
  streamError,  \* state of the hook
  committed,    \* the text of the last commit, on which the effect ran
  closureText,  \* by question: stream.text in the closure of submit
  bubble,       \* by question: what its assistant message shows
  posted        \* by question: the ratings sent to /v1/feedback, in order

chatVars == <<chatAt, asked, start, aborted, script, cut, taken, accumulated, controller,
              streamText, streaming, streamError, committed, closureText, bubble, posted>>

Texts == Seq(Questions \X (1 .. MaxEvents))

ChatTypeOK ==
  /\ chatAt \in {"open", "left"}
  /\ asked \in 0 .. MaxQuestions /\ controller \in 0 .. MaxQuestions
  /\ start \in [Questions -> {"none", "fetching", "reading", "over"}]
  /\ \A q \in Questions : taken[q] \in 0 .. Len(script[q])
  /\ {streamText, committed} \subseteq Texts
  /\ {streaming, streamError} \subseteq BOOLEAN
  /\ posted \in [Questions -> Seq({"neutral", "up", "down"})]

ChatInit ==
  /\ chatAt = "open" /\ asked = 0 /\ controller = 0
  /\ start = [q \in Questions |-> "none"]
  /\ aborted = [q \in Questions |-> FALSE]
  /\ script = [q \in Questions |-> <<>>]
  /\ cut = [q \in Questions |-> FALSE]
  /\ taken = [q \in Questions |-> 0]
  /\ streamText = <<>> /\ committed = <<>>
  /\ accumulated = [q \in Questions |-> <<>>]
  /\ closureText = [q \in Questions |-> <<>>]
  /\ bubble = [q \in Questions |-> <<>>]
  /\ streaming = FALSE /\ streamError = FALSE
  /\ posted = [q \in Questions |-> <<>>]

\* React has committed the state of the hook and run the effects on it.
Settled == chatAt = "open" /\ committed = streamText

\* Mutant: the reference to the bubble is set once.
Target_First == 1

\* assistantMessageIdRef.current
Target == asked

\* The effect on stream.text: the text goes into the bubble of the last question.
Commit ==
  /\ chatAt = "open" /\ committed # streamText
  /\ committed' = streamText
  /\ bubble' = IF streamText = <<>> THEN bubble ELSE [bubble EXCEPT ![Target] = streamText]
  /\ UNCHANGED <<chatAt, asked, start, aborted, script, cut, taken, accumulated, controller,
                 streamText, streaming, streamError, closureText, posted>>

\* Mutant: a question is accepted while an answer is streaming.
MayAsk_Always == TRUE

MayAsk == ~streaming

\* An empty chat shows questions to start with.
StartersShown == asked = 0

\* What works on the page: Stop in the place of Send while it streams, and the starters
\* while it does not.
ComposerOffers ==
  IF streaming THEN {"stop"} ELSE {"send"} \cup (IF StartersShown THEN {"starter"} ELSE {})

\* submit() from Send, a starter or the Enter key, up to the fetch of start(): whatever is
\* running is aborted.
AskQuestion ==
  LET q == asked + 1 IN
  /\ Settled /\ asked < MaxQuestions /\ MayAsk
  /\ asked' = q
  /\ start' = [start EXCEPT ![q] = "fetching"]
  /\ aborted' = IF controller = 0 THEN aborted ELSE [aborted EXCEPT ![controller] = TRUE]
  /\ controller' = q
  /\ closureText' = [closureText EXCEPT ![q] = streamText]
  /\ streamText' = <<>> /\ committed' = <<>> /\ streaming' = TRUE /\ streamError' = FALSE
  /\ UNCHANGED <<chatAt, script, cut, taken, accumulated, bubble, posted>>

\* The head of the response arrives.
Respond(q) ==
  /\ start[q] = "fetching" /\ ~aborted[q]
  /\ start' = [start EXCEPT ![q] = "reading"]
  /\ script' \in {[script EXCEPT ![q] = s] : s \in SeqOf(EventKinds, MaxEvents)}
  /\ cut' \in {cut, [cut EXCEPT ![q] = script'[q] # <<>>]}
  /\ UNCHANGED <<chatAt, asked, aborted, taken, accumulated, controller, streamText, streaming,
                 streamError, committed, closureText, bubble, posted>>

\* The events the reader gets whole: a cut event stays in `buffer`.
Whole(q) == IF cut[q] THEN Len(script[q]) - 1 ELSE Len(script[q])

\* One event: a delta is appended, the final answer counts if there is no text.
TextAfter(text, q, i) ==
  CASE script[q][i] = "answer_chunk" -> Append(text, <<q, i>>)
    [] script[q][i] = "final" /\ text = <<>> -> <<<<q, i>>>>
    [] OTHER -> text

\* read() resolves with bytes that complete the next n events.
Read(q, n) ==
  /\ start[q] = "reading" /\ ~aborted[q] /\ taken[q] + n <= Whole(q)
  /\ taken' = [taken EXCEPT ![q] = @ + n]
  /\ LET text == FoldLeft(LAMBDA t, i : TextAfter(t, q, i), accumulated[q],
                          [i \in 1 .. n |-> taken[q] + i])
     IN  /\ accumulated' = [accumulated EXCEPT ![q] = text]
         /\ streamText' = IF text # accumulated[q] THEN text ELSE streamText
  /\ UNCHANGED <<chatAt, asked, start, aborted, script, cut, controller, streaming, streamError,
                 committed, closureText, bubble, posted>>

\* The `finally` of start(), and submit() after its await: the bubble gets the
\* text of the answer or, without one, the text its closure saw; a neutral
\* rating is sent.
Over(q, failed) ==
  /\ start' = [start EXCEPT ![q] = "over"]
  /\ streaming' = FALSE /\ controller' = 0
  /\ streamError' = failed
  /\ bubble' = [bubble EXCEPT ![q] = IF accumulated[q] # <<>> THEN accumulated[q] ELSE closureText[q]]
  /\ posted' = [posted EXCEPT ![q] = Append(@, "neutral")]
  /\ UNCHANGED <<chatAt, asked, aborted, script, cut, taken, accumulated, streamText, committed,
                 closureText>>

Done(q) == start[q] = "reading" /\ ~aborted[q] /\ taken[q] = Whole(q) /\ Over(q, streamError)
Fails(q) == start[q] \in {"fetching", "reading"} /\ ~aborted[q] /\ Over(q, TRUE)
AbortError(q) == start[q] \in {"fetching", "reading"} /\ aborted[q] /\ Over(q, FALSE)

\* The Stop button, shown while streaming.
StopStream ==
  /\ Settled /\ "stop" \in ComposerOffers /\ controller # 0
  /\ aborted' = [aborted EXCEPT ![controller] = TRUE] /\ controller' = 0
  /\ UNCHANGED <<chatAt, asked, start, script, cut, taken, accumulated, streamText, streaming,
                 streamError, committed, closureText, bubble, posted>>

\* The bubble of an answer has buttons once it has text, while it still streams, too.
MayRate(q) == bubble[q] # <<>>

Rate(q, rating) ==
  /\ Settled /\ MayRate(q) /\ \A i \in DOMAIN posted[q] : posted[q][i] = "neutral"
  /\ posted' = [posted EXCEPT ![q] = Append(@, rating)]
  /\ UNCHANGED <<chatAt, asked, start, aborted, script, cut, taken, accumulated, controller,
                 streamText, streaming, streamError, committed, closureText, bubble>>

\* The page is unmounted; its continuations go on without a view.
LeaveChat ==
  /\ Settled /\ chatAt' = "left"
  /\ aborted' = IF controller = 0 THEN aborted ELSE [aborted EXCEPT ![controller] = TRUE]
  /\ UNCHANGED <<asked, start, script, cut, taken, accumulated, controller, streamText, streaming,
                 streamError, committed, closureText, bubble, posted>>

ChatNext ==
  \/ Commit \/ AskQuestion \/ StopStream \/ LeaveChat
  \/ \E q \in Questions :
       \/ Respond(q) \/ Done(q) \/ Fails(q) \/ AbortError(q)
       \/ \E n \in 1 .. MaxEvents : Read(q, n)
       \/ \E rating \in {"up", "down"} : Rate(q, rating)

ChatSpec == ChatInit /\ [][ChatNext]_chatVars

-----------------------------------------------------------------------------
(* Properties                                                              *)

Running == {q \in Questions : start[q] \in {"fetching", "reading"}}

\* While the page shows that it streams, exactly one answer is on its way and
\* Stop reaches it, unless it has been stopped already; when it shows that it is
\* ready, nothing arrives any more.
StopReachesStream ==
  /\ Cardinality(Running) <= 1
  /\ streaming <=> Running # {}
  /\ chatAt = "open" => \A q \in Running : controller = q \/ (aborted[q] /\ controller = 0)

\* Answers that are over stay as they are: later questions, stops and late
\* events change the last bubble only.
EarlierAnswersStay ==
  [][\A q \in Questions : start[q] = "over" /\ q < asked => bubble'[q] = bubble[q]]_chatVars

\* (Not kept: an answer without text shows the previous one, from the closure.)
NoForeignText == \A q \in Questions : \A i \in DOMAIN bubble[q] : bubble[q][i][1] = q
=============================================================================
