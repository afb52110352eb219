---------------------------- MODULE ModelClients ----------------------------
(* The clients of the model providers: the reader of a streamed answer, the  *)
(* client object that generate and stream share (llm/openai.ts), and the     *)
(* batches of the embedder under those of an ingest (embedder/openai.ts,     *)
(* ingest-verbose.ts).  The provider and the network are external: they      *)
(* answer, fail, and cut the bytes of a stream where they like.              *)
EXTENDS Integers, Sequences, SequencesExt, FiniteSets, FiniteSetsExt

CONSTANTS
  MaxWire,       \* bound on the events of a stream
  ModelCalls,    \* calls on one OpenAILlm
  MaxTexts,      \* bound on the chunks of a document
  IngestBatch,   \* batchSize of ingestVerbose
  EmbedderBatch  \* batchSize of OpenAIEmbedder

ASSUME ClientsAssumption ==
  /\ {MaxWire, MaxTexts} \subseteq Nat /\ {IngestBatch, EmbedderBatch} \subseteq Nat \ {0}

\* Events on the wire: a delta, a comment or another field before the data, data
\* that is not JSON, the end mark.
WireKinds == {"delta", "comment", "malformed", "done"}

VARIABLES
  wire,      \* events the provider sends
  arrived,   \* bytes read so far; an event is six of them
  pending,   \* of streamToChunks: the bytes after the last blank line
  garbled,   \* events with a character whose two bytes came apart
  yielded,   \* events stream() has yielded, and how each reads
  readAt,    \* "reading", "returned", "failed"

  prefix,    \* authorizationPrefix
  client,    \* clientPromise: "null", or how its client authorizes
  callAt,    \* a call: "new", "loading", "ready", "sent"
  ownClient, \* the client a call is about to use
  sentWith,  \* how each call was authorized

  texts,     \* chunks to embed
  batch,     \* the texts of the running embedDocuments
  sliceAt,   \* its i
  processed, \* texts of the batches before
  all,       \* allEmbeddings: the text each vector is of
  storedVec  \* the chunks handed to the store, with their vectors

readerVars == <<wire, arrived, pending, garbled, yielded, readAt>>
clientVars == <<prefix, client, callAt, ownClient, sentWith>>
embedVars == <<texts, batch, sliceAt, processed, all, storedVec>>
modelVars == <<readerVars, clientVars, embedVars>>

-----------------------------------------------------------------------------
(* stream().                                                               *)

\* The bytes of event e: `data:`, the two bytes of a character, the end of its
\* line, the blank line.
Bytes(e) == [i \in 1 .. 6 |-> <<e, i>>]
WireBytes == FlattenSeq([e \in DOMAIN wire |-> Bytes(e)])

\* A blank line ends a block.
EndsBlock(bytes, i) == i > 1 /\ bytes[i - 1][2] = 5 /\ bytes[i][2] = 6

\* Mutant: what follows the last blank line of a piece is not kept.
Rest_Dropped(bytes) == <<>>

\* The bytes after the last blank line.
Rest(bytes) ==
  LET ends == {i \in DOMAIN bytes : EndsBlock(bytes, i)}
  IN  IF ends = {} THEN bytes ELSE SubSeq(bytes, Max(ends) + 1, Len(bytes))

\* The events of the blocks that a piece completes; a block that is not a whole
\* event is malformed.
Complete(bytes) ==
  LET ends == SetToSortSeq({i \in DOMAIN bytes : EndsBlock(bytes, i)}, <)
      whole(i) == i >= 6 /\ SubSeq(bytes, i - 5, i) = Bytes(bytes[i][1])
  IN  [k \in DOMAIN SelectSeq(ends, whole) |-> bytes[SelectSeq(ends, whole)[k]][1]]

\* What stream() yields for events: nothing for those it cannot parse, and
\* nothing after the end mark.
Visible(events) ==
  LET shown == SelectSeq(events, LAMBDA e : wire[e] \in {"delta", "done"})
      marks == {k \in DOMAIN shown : wire[shown[k]] = "done"}
  IN  IF marks = {} THEN shown ELSE SubSeq(shown, 1, Min(marks))

\* The next piece of the body, cut anywhere.  Each piece is decoded by itself.
Piece ==
  /\ readAt = "reading"
  /\ \E n \in 1 .. Len(WireBytes) - arrived :
       LET piece == SubSeq(WireBytes, arrived + 1, arrived + n)
           bytes == pending \o piece
           broken == {e \in DOMAIN wire : Cardinality({2, 3} \cap {b[2] : b \in {b \in ToSet(piece) : b[1] = e}}) = 1}
           shown == Visible(Complete(bytes))
       IN  /\ arrived' = arrived + n
           /\ pending' = Rest(bytes)
           /\ garbled' = garbled \cup broken
           /\ yielded' = yielded \o [k \in DOMAIN shown |-> <<shown[k], shown[k] \in garbled'>>]
           /\ readAt' = IF \E e \in ToSet(shown) : wire[e] = "done" THEN "returned" ELSE readAt
  /\ UNCHANGED wire

\* The connection breaks, or the body ends: what is pending is taken for a block.
EndOfBody ==
  /\ readAt = "reading"
  /\ \/ readAt' = "failed" /\ UNCHANGED yielded
     \/ /\ readAt' = "returned"
        /\ LET tail == IF Len(pending) < 4 THEN <<>> ELSE Visible(<<pending[1][1]>>)
           IN  yielded' = yielded \o [k \in DOMAIN tail |-> <<tail[k], tail[k] \in garbled>>]
  /\ UNCHANGED <<wire, arrived, pending, garbled>>

-----------------------------------------------------------------------------
(* ensureClient and rawStream.                                             *)

\* The SDK sends `Bearer` when no header is given.
Streamed(c) == c \in {"stream", "stream2"}

\* Mutant: generate gives no header either.
MakesClient_Plain(c) == "Bearer"

MakesClient(c) == IF Streamed(c) THEN "Bearer" ELSE prefix

\* generate looks for a client before the import, rawStream only after it.
BeginCall(c) ==
  /\ callAt[c] = "new"
  /\ IF ~Streamed(c) /\ client # "null"
     THEN callAt' = [callAt EXCEPT ![c] = "ready"] /\ ownClient' = [ownClient EXCEPT ![c] = client]
     ELSE callAt' = [callAt EXCEPT ![c] = "loading"] /\ UNCHANGED ownClient
  /\ UNCHANGED <<prefix, client, sentWith>>

Loaded(c) ==
  /\ callAt[c] = "loading"
  /\ LET kept == Streamed(c) /\ client # "null"
         made == IF kept THEN client ELSE MakesClient(c)
     IN  client' = made /\ ownClient' = [ownClient EXCEPT ![c] = made]
  /\ callAt' = [callAt EXCEPT ![c] = "ready"]
  /\ UNCHANGED <<prefix, sentWith>>

\* The import of the SDK fails.
LoadFails(c) ==
  /\ callAt[c] = "loading"
  /\ callAt' = [callAt EXCEPT ![c] = "failed"]
  /\ UNCHANGED <<prefix, client, ownClient, sentWith>>

Send(c) ==
  /\ callAt[c] = "ready"
  /\ callAt' = [callAt EXCEPT ![c] = "sent"]
  /\ sentWith' = [sentWith EXCEPT ![c] = ownClient[c]]
  /\ UNCHANGED <<prefix, client, ownClient>>

-----------------------------------------------------------------------------
(* Embedding the chunks of a document.                                     *)

\* The next batch of ingestVerbose.
BeginBatch ==
  /\ batch = <<>> /\ processed < texts
  /\ batch' = [k \in 1 .. Min({IngestBatch, texts - processed}) |-> processed + k]
  /\ sliceAt' = 0
  /\ UNCHANGED <<texts, processed, all, storedVec>>

\* Mutant: the slices are as far apart as the batches.
NextSlice_Batch == sliceAt + IngestBatch

\* i of the loop of embedDocuments.
NextSlice == sliceAt + EmbedderBatch

\* One request for a slice of the batch: a vector for each text, in order.
EmbedSlice ==
  /\ sliceAt < Len(batch)
  /\ all' = all \o SubSeq(batch, sliceAt + 1, Min({sliceAt + EmbedderBatch, Len(batch)}))
  /\ sliceAt' = NextSlice
  /\ UNCHANGED <<texts, batch, processed, storedVec>>

EndBatch ==
  /\ batch # <<>> /\ sliceAt >= Len(batch)
  /\ processed' = processed + Len(batch) /\ batch' = <<>>
  /\ UNCHANGED <<texts, sliceAt, all, storedVec>>

\* A chunk takes the vector at its own place; one for which there is none is
\* passed over.
HandOver ==
  /\ batch = <<>> /\ storedVec = {} /\ texts > 0 /\ processed = texts
  /\ storedVec' = {<<i, all[i]>> : i \in 1 .. Min({texts, Len(all)})}
  /\ UNCHANGED <<texts, batch, sliceAt, processed, all>>

-----------------------------------------------------------------------------

ClientsTypeOK ==
  /\ wire \in Seq(WireKinds) /\ readAt \in {"reading", "returned", "failed"}
  /\ yielded \in Seq((DOMAIN wire) \X BOOLEAN) /\ garbled \subseteq DOMAIN wire
  /\ prefix \in {"Bearer", "Raw"} /\ client \in {"null", "Bearer", "Raw"}
  /\ callAt \in [ModelCalls -> {"new", "loading", "ready", "sent", "failed"}]
  /\ texts \in 0 .. MaxTexts /\ {all, batch} \subseteq Seq(1 .. texts)

ClientsInit ==
  /\ wire \in BoundedSeq(WireKinds, MaxWire)
  /\ arrived = 0 /\ pending = <<>> /\ garbled = {} /\ yielded = <<>> /\ readAt = "reading"
  /\ prefix \in {"Bearer", "Raw"} /\ client = "null"
  /\ callAt = [c \in ModelCalls |-> "new"] /\ ownClient = [c \in ModelCalls |-> "null"]
  /\ sentWith = [c \in ModelCalls |-> "null"]
  /\ texts \in 0 .. MaxTexts /\ batch = <<>> /\ sliceAt = 0 /\ processed = 0
  /\ all = <<>> /\ storedVec = {}

ReaderNext == Piece \/ EndOfBody
CallNext == \E c \in ModelCalls : BeginCall(c) \/ Loaded(c) \/ LoadFails(c) \/ Send(c)
EmbedNext == BeginBatch \/ EmbedSlice \/ EndBatch \/ HandOver

ClientsNext ==
  \/ ReaderNext /\ UNCHANGED <<clientVars, embedVars>>
  \/ CallNext /\ UNCHANGED <<readerVars, embedVars>>
  \/ EmbedNext /\ UNCHANGED <<readerVars, clientVars>>

ClientsSpec == ClientsInit /\ [][ClientsNext]_modelVars

-----------------------------------------------------------------------------
(* Properties.                                                             *)

\* However the network cuts the body, stream() has yielded the deltas of the
\* events that have arrived, each once and in order, up to the end mark; one reads
\* wrongly only when a cut fell inside a character.
StreamSurvivesCuts ==
  LET whole(e) == 6 * e <= arrived \/ (readAt = "returned" /\ 6 * e - 2 <= arrived)
      received == SetToSortSeq({e \in DOMAIN wire : whole(e)}, <)
  IN  [k \in DOMAIN yielded |-> yielded[k][1]] = Visible(received)

\* A chunk is stored under the vector of its own text, and none is left out,
\* whatever the sizes of the two batches that are nested.
VectorsMatchTexts ==
  storedVec # {} => storedVec = {<<i, i>> : i \in 1 .. texts}

\* A call goes out with the configured authorization unless a stream made the
\* client: a generate that finds none makes its own, also when calls race.
ForeignHeaderComesFromStream ==
  \A c \in ModelCalls :
    sentWith[c] \notin {"null", prefix} =>
      prefix = "Raw" /\ \E s \in ModelCalls : Streamed(s) /\ callAt[s] \in {"ready", "sent"}

\* What is shared keeps what belongs to whom: the texts of one batch their vectors,
\* the calls on one client their header.
CallsKeepTheirOwn == VectorsMatchTexts /\ ForeignHeaderComesFromStream
=============================================================================
