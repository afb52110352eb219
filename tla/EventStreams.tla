---------------------------- MODULE EventStreams ----------------------------
(***************************************************************************)
(* The server-sent event streams of one API process and the tasks that     *)
(* feed them: POST /v1/documents/ingest-stream (api/src/routes/            *)
(* documents.ts, core/src/ingest-verbose.ts) and POST /v1/query/stream     *)
(* (orchestrator/src/orchestrator.ts), with the requests that only await   *)
(* their answer (/v1/query, /v1/agent/run).                                *)
(*                                                                         *)
(* Both streams use the same bridge: the task pushes into a queue and      *)
(* calls resolveNext, the writer drains the queue and parks on a promise.  *)
(* The Orchestrator is one object for all requests, and with it the agent  *)
(* called 'generator'.  A step is what runs between two awaits.            *)
(***************************************************************************)
EXTENDS Integers, Sequences, FiniteSets, SequencesExt

CONSTANTS
  Queries,      \* requests of POST /v1/query/stream
  Plains,       \* requests of POST /v1/query and POST /v1/agent/run
  Ingests,      \* requests of POST /v1/documents/ingest-stream
  Mixes,        \* the sets of requests that may come together
  Plain,        \* the generator that answers at once
  Deltas,       \* how many chunks an answer has
  MaxBatches,   \* bound on the embedding batches of a document
  MaxFailures   \* bound on calls that fail

ASSUME KindsAreDisjoint ==
  /\ Queries \cap Plains = {} /\ Ingests \cap (Queries \cup Plains) = {}
  /\ Plain \notin Queries
  /\ Mixes \subseteq SUBSET (Queries \cup Plains \cup Ingests)
ASSUME StreamBounds == Deltas \in Nat /\ MaxBatches \in Nat /\ MaxFailures \in Nat

Asks == Queries \cup Plains
Streams == Queries \cup Ingests
Requests == Asks \cup Ingests

VARIABLES
  pc,          \* where the task of a request is
  generator,   \* agents.get('generator'): the stream its onDelta feeds, or Plain
  feeds,       \* what runPipeline got from agents.require('generator')
  made,        \* chunks of the answer, or batches of the document, so far
  batches,     \* batches the document has
  queue,       \* queue of the bridge
  done,        \* done of the bridge
  writer,      \* "off", "first", "ready", "parked" (resolveNext is set), "closed", "cut"
  delivered,   \* what was written to the client
  rejected,    \* a task was rejected and nobody awaits it
  failures,
  sent,        \* history: everything pushed into a bridge
  sentAtDone,  \* history: how much of it when done was set
  alone        \* history: no other request used the orchestrator meanwhile

task == <<pc, generator, feeds, made, batches>>
bridge == <<queue, done, writer, delivered, sent, sentAtDone>>
streamVars == <<task, bridge, rejected, failures, alone>>

Thought == <<"thought">>
Final == <<"final">>
Chunk(r, i) == <<"answer_chunk", r, i>>
Phase(name) == <<name>>
Batch(i) == <<"embedding", i>>
Terminal == {Phase("indexed"), Phase("failed")}

StreamInit ==
  /\ \E come \in Mixes : pc = [r \in Requests |-> IF r \in come THEN "new" ELSE "never"]
  /\ generator = Plain
  /\ feeds = [r \in Asks |-> Plain]
  /\ made = [r \in Requests |-> 0]
  /\ batches = [r \in Ingests |-> 0]
  /\ queue = [s \in Streams |-> <<>>]
  /\ done = [s \in Streams |-> FALSE]
  /\ writer = [s \in Streams |-> "off"]
  /\ delivered = [s \in Streams |-> <<>>]
  /\ rejected = FALSE
  /\ failures = 0
  /\ sent = [s \in Streams |-> <<>>]
  /\ sentAtDone = [s \in Streams |-> 0]
  /\ alone = [r \in Asks |-> TRUE]

Up == \A s \in Streams : writer[s] # "cut"
MayFail == failures < MaxFailures /\ failures' = failures + 1

Goto(r, there) == pc' = [pc EXCEPT ![r] = there]

-----------------------------------------------------------------------------
(* The bridge. *)

Woken(s) == [writer EXCEPT ![s] = IF @ = "parked" THEN "ready" ELSE @]

Push(s, events) ==
  /\ queue' = [queue EXCEPT ![s] = @ \o events]
  /\ sent' = [sent EXCEPT ![s] = @ \o events]
  /\ writer' = Woken(s)
  /\ UNCHANGED <<done, delivered, sentAtDone>>

\* Mutant: the end of the task does not wake the writer.
SetDone_NoWake(s, events) ==
  /\ done' = [done EXCEPT ![s] = TRUE]
  /\ queue' = [queue EXCEPT ![s] = @ \o events]
  /\ sent' = [sent EXCEPT ![s] = @ \o events]
  /\ sentAtDone' = [sentAtDone EXCEPT ![s] = Len(sent[s]) + Len(events)]
  /\ UNCHANGED <<writer, delivered>>

\* The finally of the task, after the events the catch may have pushed.
SetDone(s, events) ==
  /\ done' = [done EXCEPT ![s] = TRUE]
  /\ queue' = [queue EXCEPT ![s] = @ \o events]
  /\ sent' = [sent EXCEPT ![s] = @ \o events]
  /\ sentAtDone' = [sentAtDone EXCEPT ![s] = Len(sent[s]) + Len(events)]
  /\ writer' = Woken(s)
  /\ UNCHANGED delivered

\* The writer sends the next event; while it awaits the write it is not parked.
Write(s) ==
  /\ writer[s] = "ready" /\ queue[s] # <<>>
  /\ delivered' = [delivered EXCEPT ![s] = Append(@, Head(queue[s]))]
  /\ queue' = [queue EXCEPT ![s] = Tail(@)]
  /\ UNCHANGED <<task, done, writer, rejected, failures, sent, sentAtDone, alone>>

Park(s) ==
  /\ writer[s] = "ready" /\ queue[s] = <<>> /\ ~done[s]
  /\ writer' = [writer EXCEPT ![s] = "parked"]
  /\ UNCHANGED <<task, queue, done, delivered, rejected, failures, sent, sentAtDone, alone>>

\* Mutant: the writer looks at done before it looks at the queue.
Return_DoneFirst(s) ==
  /\ writer[s] = "ready" /\ done[s]
  /\ writer' = [writer EXCEPT ![s] = "closed"]
  /\ UNCHANGED <<task, queue, done, delivered, rejected, failures, sent, sentAtDone, alone>>

\* It returns, or throws thrownError, which streamSSE logs: the stream ends.
Return(s) ==
  /\ writer[s] = "ready" /\ queue[s] = <<>> /\ done[s]
  /\ writer' = [writer EXCEPT ![s] = "closed"]
  /\ UNCHANGED <<task, queue, done, delivered, rejected, failures, sent, sentAtDone, alone>>

-----------------------------------------------------------------------------
(* POST /v1/documents/ingest-stream. *)

\* The task runs up to its first await before the stream is opened.
Upload(s) ==
  /\ pc[s] = "new" /\ s \in Ingests
  /\ Goto(s, "importing")
  /\ writer' = [writer EXCEPT ![s] = "ready"]
  /\ UNCHANGED <<generator, feeds, made, batches, queue, done, delivered, rejected, failures,
                 sent, sentAtDone, alone>>

\* The text is cut into chunks; the task of a document without any just ends.
Cut(s, events) ==
  /\ \E n \in 0 .. MaxBatches :
       /\ batches' = [batches EXCEPT ![s] = n]
       /\ Goto(s, IF n = 0 THEN "ended" ELSE "embedding")
  /\ Push(s, events \o <<Phase("parsed"), Phase("chunked")>>)

\* Only a PDF is parsed in a step of its own.
Imported(s) ==
  /\ pc[s] = "importing"
  /\ \/ Cut(s, <<Phase("start")>>)
     \/ /\ Goto(s, "parsing")
        /\ Push(s, <<Phase("start")>>)
        /\ UNCHANGED batches
  /\ UNCHANGED <<generator, feeds, made, rejected, failures, alone>>

Parsed(s) ==
  /\ pc[s] = "parsing"
  /\ Cut(s, <<>>)
  /\ UNCHANGED <<generator, feeds, made, rejected, failures, alone>>

Embedded(s) ==
  /\ pc[s] = "embedding"
  /\ made' = [made EXCEPT ![s] = @ + 1]
  /\ LET last == made'[s] = batches[s]
     IN  /\ Goto(s, IF last THEN "storing" ELSE "embedding")
         /\ Push(s, <<Batch(made'[s])>> \o IF last THEN <<Phase("persisting")>> ELSE <<>>)
  /\ UNCHANGED <<generator, feeds, batches, rejected, failures, alone>>

Stored(s) ==
  /\ pc[s] = "storing"
  /\ Goto(s, "ended")
  /\ Push(s, <<Phase("indexed")>>)
  /\ UNCHANGED <<generator, feeds, made, batches, rejected, failures, alone>>

\* Mutant: the catch of the task emits nothing.
IngestFails_Silent(s) ==
  /\ pc[s] \in {"importing", "parsing", "embedding", "storing"}
  /\ MayFail
  /\ Goto(s, "ended")
  /\ UNCHANGED <<generator, feeds, made, batches, bridge, rejected, alone>>

\* One of its awaits rejects: the catch of the route emits "failed".
IngestFails(s) ==
  /\ pc[s] \in {"importing", "parsing", "embedding", "storing"}
  /\ MayFail
  /\ Goto(s, "ended")
  /\ Push(s, <<Phase("failed")>>)
  /\ UNCHANGED <<generator, feeds, made, batches, rejected, alone>>

-----------------------------------------------------------------------------
(* The orchestrator. *)

Using == {r \in Asks : \/ pc[r] \in {"retrieving", "generating", "researching", "ended"}
                       \/ r \in Queries /\ writer[r] \in {"ready", "parked"}}

Joins(r) ==
  alone' = [x \in Asks |->
              alone[x] /\ ~(Using # {} /\ x \in Using \cup {r})]

\* stream() yields a first thought before it starts its task.
Ask(s) ==
  /\ pc[s] = "new" /\ s \in Queries
  /\ Goto(s, "asked")
  /\ delivered' = [delivered EXCEPT ![s] = <<Thought>>]
  /\ writer' = [writer EXCEPT ![s] = "first"]
  /\ sent' = [sent EXCEPT ![s] = <<Thought>>]
  /\ UNCHANGED <<generator, feeds, made, batches, queue, done, rejected, failures, sentAtDone, alone>>

\* Mutant: an agent that is registered already is kept.
Install_First(s) == generator' = IF generator = Plain THEN s ELSE generator

\* installStreamingHook: the 'generator' of the shared registry is replaced.
Install(s) == generator' = s

\* The client has the thought: the hook is installed and the task runs up to
\* its first await.  deep_research reports its events with its result only.
Begin(s) ==
  /\ pc[s] = "asked"
  /\ Install(s)
  /\ \E there \in {"retrieving", "researching"} : Goto(s, there)
  /\ writer' = [writer EXCEPT ![s] = "ready"]
  /\ Joins(s)
  /\ UNCHANGED <<feeds, made, batches, queue, done, delivered, rejected, failures, sent, sentAtDone>>

\* run(): the generator stays whatever an earlier stream made of it.
Run(r) ==
  /\ pc[r] = "new" /\ r \in Plains
  /\ \E there \in {"retrieving", "researching"} : Goto(r, there)
  /\ Joins(r)
  /\ UNCHANGED <<generator, feeds, made, batches, bridge, rejected, failures>>

\* retriever.retrieve() resolves; without a result the pipeline ends here.
Retrieved(r) ==
  /\ pc[r] = "retrieving"
  /\ \/ /\ Goto(r, "generating")
        /\ feeds' = [feeds EXCEPT ![r] = generator]
     \/ /\ Goto(r, "ended")
        /\ UNCHANGED feeds
  /\ UNCHANGED <<generator, made, batches, bridge, rejected, failures, alone>>

\* The model yields a chunk: onDelta pushes it into the bridge it was made for.
Delta(r) ==
  /\ pc[r] = "generating" /\ made[r] < Deltas
  /\ made' = [made EXCEPT ![r] = @ + 1]
  /\ IF feeds[r] = Plain THEN UNCHANGED bridge
     ELSE Push(feeds[r], <<Chunk(r, made'[r])>>)
  /\ UNCHANGED <<pc, generator, feeds, batches, rejected, failures, alone>>

Generated(r) ==
  /\ \/ pc[r] = "generating" /\ made[r] = Deltas
     \/ pc[r] = "researching"
  /\ Goto(r, "ended")
  /\ UNCHANGED <<generator, feeds, made, batches, bridge, rejected, failures, alone>>

\* The model fails.  stream() pushes an empty final event, sets done and
\* rethrows into a promise that nobody awaits; run() rejects to its route.
GenerationFails(r) ==
  /\ pc[r] \in {"generating", "researching"}
  /\ MayFail
  /\ Goto(r, "failed")
  /\ IF r \in Queries THEN SetDone(r, <<Final>>) /\ rejected' = TRUE
                      ELSE UNCHANGED <<bridge, rejected>>
  /\ UNCHANGED <<generator, feeds, made, batches, alone>>

-----------------------------------------------------------------------------
\* The finally of both tasks.
End(s) ==
  /\ pc[s] = "ended" /\ s \in Streams
  /\ Goto(s, "over")
  /\ SetDone(s, <<>>)
  /\ UNCHANGED <<generator, feeds, made, batches, rejected, failures, alone>>

Answer(r) ==
  /\ pc[r] = "ended" /\ r \in Plains
  /\ Goto(r, "over")
  /\ UNCHANGED <<generator, feeds, made, batches, bridge, rejected, failures, alone>>

\* Node ends a process that has an unhandled rejection.
Die ==
  /\ rejected
  /\ writer' = [s \in Streams |-> IF writer[s] = "closed" THEN "closed" ELSE "cut"]
  /\ UNCHANGED <<task, queue, done, delivered, rejected, failures, sent, sentAtDone, alone>>

TaskStep(r) ==
  \/ r \in Ingests /\ (Imported(r) \/ Parsed(r) \/ Embedded(r) \/ Stored(r) \/ IngestFails(r))
  \/ r \in Asks /\ (Retrieved(r) \/ Delta(r) \/ Generated(r) \/ GenerationFails(r) \/ Answer(r))
  \/ End(r)

WriterStep(s) == Write(s) \/ Park(s) \/ Return(s) \/ (s \in Queries /\ Begin(s))

StreamNext ==
  /\ Up
  /\ \/ \E s \in Streams : Upload(s) \/ Ask(s) \/ WriterStep(s)
     \/ \E r \in Plains : Run(r)
     \/ \E r \in Requests : TaskStep(r)
     \/ Die

StreamSpec == StreamInit /\ [][StreamNext]_streamVars

\* Awaits settle: the embedder, the model and the store answer or fail, and the
\* client, or its absence, lets a write end.
StreamFairness ==
  /\ \A r \in Requests : WF_streamVars(Up /\ TaskStep(r))
  /\ \A s \in Streams : WF_streamVars(Up /\ WriterStep(s))

StreamFairSpec == StreamSpec /\ StreamFairness

-----------------------------------------------------------------------------
(* Properties                                                              *)

\* The two guards of the writer and the wake-ups of the task never lose, repeat
\* or swap an event: the client gets what was pushed, in order, and a stream
\* ends only after everything that was pushed before its task ended.
ClosedSawAll ==
  \A s \in Streams :
    /\ IsPrefix(delivered[s], sent[s])
    /\ writer[s] = "closed" => Len(delivered[s]) >= sentAtDone[s]

\* Every stream that was opened ends: no writer is left parked for good.
StreamsClose ==
  \A s \in Streams :
    writer[s] \in {"first", "ready", "parked"} ~> writer[s] \in {"closed", "cut"}

\* A query that had the orchestrator for itself streams its whole answer, and
\* nothing else, whatever streams came before it.
AloneIsWhole ==
  \A s \in Queries :
    writer[s] = "closed" /\ alone[s] /\ pc[s] = "over" /\ made[s] = Deltas =>
      delivered[s] = <<Thought>> \o [i \in 1 .. Deltas |-> Chunk(s, i)]

\* What the clients of both bridges can rely on.
StreamsAreWhole == ClosedSawAll /\ AloneIsWhole

\* The log of an upload ends with its outcome, and says it once -- unless the
\* document has no text: then the task ends without one.
UploadIsTold ==
  \A s \in Ingests :
    LET log == delivered[s]
        outcomes == {i \in DOMAIN log : log[i] \in Terminal}
    IN  writer[s] = "closed" =>
          \/ log # <<>> /\ outcomes = {Len(log)}
          \/ /\ log # <<>> /\ Last(log) = Phase("chunked")
             /\ outcomes = {} /\ batches[s] = 0

\* orchestrator.ts:93-97 -- the hook pushes the answer_chunk events of a stream
\* as the model emits them: a stream carries chunks of its own answer only.
OwnAnswerOnly ==
  \A s \in Queries : \A i \in DOMAIN delivered[s] :
    delivered[s][i][1] = "answer_chunk" => delivered[s][i][2] = s

\* deep-research.ts:7-8 -- "SSE clients see the synthesis land chunk-by-chunk":
\* a stream that was answered shows more than its first thought.
AnsweredIsStreamed ==
  \A s \in Queries :
    writer[s] = "closed" /\ pc[s] = "over" => Len(delivered[s]) > 1
=============================================================================
