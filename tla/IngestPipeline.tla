--------------------------- MODULE IngestPipeline ---------------------------
(***************************************************************************)
(* From POST /v1/documents to searchable chunks: the upload handler        *)
(* (api/src/routes/documents.ts), the documents table, the stored bytes,   *)
(* the queue and its worker (JobWorker), the document.ingest handler       *)
(* (api/src/handlers/document-ingest.ts), ingest() and the chunks it       *)
(* writes (core/src/ingest.ts, core/src/stores/sqlite-vec.ts).             *)
(*                                                                         *)
(* A job of JobWorker is one upload: it is enqueued by the request's last  *)
(* step and handled by the worker in the steps below.  A step is one SQL   *)
(* statement, one file access or one call to the embedder.                 *)
(***************************************************************************)
EXTENDS JobWorker

CONSTANTS
  Docs,            \* the distinct contents; a document id is its content's hash
  DocOf,           \* the content an upload carries
  PartsOf,         \* chunks its content makes under the upload's MIME type
  Mishaps,         \* where a step may throw: "request" or a handler step
  AllowDelete      \* clients call DELETE /v1/documents/:id

ASSUME DocOfAssumption == DocOf \in [Jobs -> Docs]
ASSUME PartsOfAssumption == PartsOf \in [Jobs -> Nat]
ASSUME AllowDeleteAssumption == AllowDelete \in BOOLEAN

VARIABLES
  request,      \* progress of each upload request
  docStatus,    \* documents.status, "absent" before the INSERT
  bytes,        \* the documents whose bytes are in LocalFileStorage
  chunks,       \* rows of chunks: document and index -> the upload that wrote it
  hpc,          \* the next step of the handler each worker runs
  part          \* index of the next chunk it stores

pipeline == <<request, docStatus, bytes, chunks>>
handler == <<hpc, part>>
allVars == <<vars, pipeline, handler>>

Requests == {"none", "looked", "rowed", "stored",
             "accepted", "existed", "aborted"}
DocStatuses == {"absent", "pending", "indexing", "ready", "failed"}

\* A statement that throws continues in the handler's catch block once the
\* try block was entered, else in drain()'s, which records 'failed'.
Thrown ==
  [open |-> "throw", load |-> "throw", row |-> "throw",
   embed |-> "catch", store |-> "catch", publish |-> "catch",
   audit |-> "catch", catch |-> "throw", catchaudit |-> "throw",
   return |-> "throw"]

ASSUME MishapsAssumption == Mishaps \subseteq DOMAIN Thrown \cup {"request"}

HandlerPcs == DOMAIN Thrown \cup {"idle", "throw"}

\* The indices of the chunks that some upload makes.
Parts == UNION {1 .. PartsOf[j] : j \in Jobs}

IngestTypeOK ==
  /\ TypeOK
  /\ request \in [Jobs -> Requests]
  /\ docStatus \in [Docs -> DocStatuses]
  /\ bytes \in SUBSET Docs
  /\ chunks \in [Docs -> [Parts -> Jobs \cup {NoJob}]]
  /\ hpc \in [Workers -> HandlerPcs]
  /\ part \in [Workers -> Nat]

IngestInit ==
  /\ Init
  /\ request = [j \in Jobs |-> "none"]
  /\ docStatus = [d \in Docs |-> "absent"]
  /\ bytes = {}
  /\ chunks = [d \in Docs |-> [p \in Parts |-> NoJob]]
  /\ hpc = [w \in Workers |-> "idle"]
  /\ part = [w \in Workers |-> 1]

-----------------------------------------------------------------------------
(* The upload request. *)

\* getByHash: a row that exists, whatever its status, ends the request.
Look(j) ==
  /\ request[j] = "none"
  /\ request' = [request EXCEPT ![j] =
       IF docStatus[DocOf[j]] = "absent" THEN "looked" ELSE "existed"]
  /\ UNCHANGED <<vars, docStatus, bytes, chunks, handler>>

\* Mutant: on conflict, the row starts over.
Upsert_Resets(j) ==
  /\ request[j] = "looked"
  /\ request' = [request EXCEPT ![j] = "rowed"]
  /\ docStatus' = [docStatus EXCEPT ![DocOf[j]] = "pending"]
  /\ UNCHANGED <<vars, bytes, chunks, handler>>

\* upsert: on conflict, the status of the row is left alone.
Upsert(j) ==
  /\ request[j] = "looked"
  /\ request' = [request EXCEPT ![j] = "rowed"]
  /\ docStatus' = [docStatus EXCEPT ![DocOf[j]] =
       IF @ = "absent" THEN "pending" ELSE @]
  /\ UNCHANGED <<vars, bytes, chunks, handler>>

PutBytes(j) ==
  /\ request[j] = "rowed"
  /\ request' = [request EXCEPT ![j] = "stored"]
  /\ bytes' = bytes \cup {DocOf[j]}
  /\ UNCHANGED <<vars, docStatus, chunks, handler>>

\* Mutant: the job is enqueued before the bytes are stored.
Accept_Early(j) ==
  /\ request[j] = "rowed"
  /\ request' = [request EXCEPT ![j] = "accepted"]
  /\ Enqueue(j)
  /\ UNCHANGED <<docStatus, bytes, chunks, handler>>

Accept(j) ==
  /\ request[j] = "stored"
  /\ request' = [request EXCEPT ![j] = "accepted"]
  /\ Enqueue(j)
  /\ UNCHANGED <<docStatus, bytes, chunks, handler>>

\* Its process is killed or the next statement throws; the client may upload
\* the same bytes again, which is another request.
Abort(j) ==
  /\ "request" \in Mishaps
  /\ request[j] \in {"looked", "rowed", "stored"}
  /\ Fault
  /\ request' = [request EXCEPT ![j] = "aborted"]
  /\ UNCHANGED <<table, loop, resetDue, docStatus, bytes, chunks, handler>>

\* DELETE /v1/documents/:id drops the chunks and leaves the row as it is.
Delete(d) ==
  /\ AllowDelete
  /\ docStatus[d] # "absent"
  /\ chunks' = [chunks EXCEPT ![d] = [p \in Parts |-> NoJob]]
  /\ UNCHANGED <<vars, request, docStatus, bytes, handler>>

-----------------------------------------------------------------------------
(* The document.ingest handler, as run by worker w. *)

Begin(w) ==
  /\ MarkRunning(w)
  /\ hpc' = [hpc EXCEPT ![w] = "open"]
  /\ UNCHANGED <<pipeline, part>>

\* One step of the handler from pc `from` to pc `to`.
Advance(w, from, to) ==
  /\ hpc[w] = from
  /\ hpc' = [hpc EXCEPT ![w] = to]
  /\ UNCHANGED <<vars, request, bytes>>

Doc(w) == DocOf[cur[w]]
Own(w) == PartsOf[cur[w]]

SetStatus(w, s) == docStatus' = [docStatus EXCEPT ![Doc(w)] = s]

\* Passphrase and workspace handle.
OpenWorkspace(w) ==
  /\ Advance(w, "open", "load")
  /\ UNCHANGED <<docStatus, chunks, part>>

LoadBytes(w) ==
  /\ Advance(w, "load", IF Doc(w) \in bytes THEN "row" ELSE "throw")
  /\ UNCHANGED <<docStatus, chunks, part>>

\* Mutant: the word of state.ts instead of the word of the table.
ReadRow_Ingesting(w) ==
  /\ Advance(w, "row", "embed")
  /\ SetStatus(w, "ingesting")
  /\ UNCHANGED <<chunks, part>>

\* getById and setStatus(Indexing).
ReadRow(w) ==
  /\ Advance(w, "row", IF docStatus[Doc(w)] = "absent" THEN "throw" ELSE "embed")
  /\ IF docStatus[Doc(w)] = "absent"
     THEN UNCHANGED docStatus
     ELSE SetStatus(w, "indexing")
  /\ UNCHANGED <<chunks, part>>

\* Chunking and embedDocuments; a document without text has no chunks.
Embed(w) ==
  /\ Advance(w, "embed", IF Own(w) = 0 THEN "publish" ELSE "store")
  /\ part' = [part EXCEPT ![w] = 1]
  /\ UNCHANGED <<docStatus, chunks>>

\* Mutant: the batch ends one chunk early.
StorePart_Short(w) ==
  /\ Advance(w, "store", IF part[w] + 1 >= Own(w) THEN "publish" ELSE "store")
  /\ chunks' = [chunks EXCEPT ![Doc(w)][part[w]] = cur[w]]
  /\ part' = [part EXCEPT ![w] = @ + 1]
  /\ UNCHANGED docStatus

\* addBatch: one transaction per chunk, INSERT OR REPLACE by document and index.
StorePart(w) ==
  /\ Advance(w, "store", IF part[w] = Own(w) THEN "publish" ELSE "store")
  /\ chunks' = [chunks EXCEPT ![Doc(w)][part[w]] = cur[w]]
  /\ part' = [part EXCEPT ![w] = @ + 1]
  /\ UNCHANGED docStatus

Publish(w) ==
  /\ Advance(w, "publish", "audit")
  /\ SetStatus(w, "ready")
  /\ UNCHANGED <<chunks, part>>

Audit(w) ==
  /\ Advance(w, "audit", "return")
  /\ UNCHANGED <<docStatus, chunks, part>>

\* Mutant: the catch block leaves the row as it is.
CatchStatus_Skip(w) ==
  /\ Advance(w, "catch", "catchaudit")
  /\ UNCHANGED <<docStatus, chunks, part>>

CatchStatus(w) ==
  /\ Advance(w, "catch", "catchaudit")
  /\ SetStatus(w, "failed")
  /\ UNCHANGED <<chunks, part>>

CatchAudit(w) ==
  /\ Advance(w, "catchaudit", "throw")
  /\ UNCHANGED <<docStatus, chunks, part>>

HandlerStep(w) ==
  \/ OpenWorkspace(w)
  \/ LoadBytes(w)
  \/ ReadRow(w)
  \/ Embed(w)
  \/ StorePart(w)
  \/ Publish(w)
  \/ Audit(w)
  \/ CatchStatus(w)
  \/ CatchAudit(w)

HandlerThrows(w) ==
  /\ hpc[w] \in Mishaps
  /\ Fault
  /\ hpc' = [hpc EXCEPT ![w] = Thrown[@]]
  /\ UNCHANGED <<table, loop, resetDue, pipeline, part>>

\* drain() records what the handler did: it returned, or it threw.
Conclude(w) ==
  \/ hpc[w] = "return" /\ Finish(w, "done")
  \/ hpc[w] = "throw" /\ Finish(w, "failed")

\* Mutant: every outcome is recorded as done.
Record_AlwaysDone(w) ==
  /\ \/ hpc[w] \in {"return", "throw"} /\ Finish(w, "done")
     \/ hpc[w] = "throw" /\ RecordThrows(w)
  /\ hpc' = [hpc EXCEPT ![w] = "idle"]
  /\ UNCHANGED <<pipeline, part>>

Record(w) ==
  /\ Conclude(w) \/ (hpc[w] = "throw" /\ RecordThrows(w))
  /\ hpc' = [hpc EXCEPT ![w] = "idle"]
  /\ UNCHANGED <<pipeline, part>>

-----------------------------------------------------------------------------
\* The process around the handler: a crash forgets it, the rest ignores it.
Background(w) ==
  \/ Crash(w) /\ hpc' = [hpc EXCEPT ![w] = "idle"] /\ UNCHANGED <<pipeline, part>>
  \/ /\ \/ Boot(w) \/ ResetStuckJobs(w) \/ ResetLost(w) \/ Stop(w)
        \/ LoopExit(w) \/ Start(w) \/ Poll(w) \/ MarkThrows(w)
     /\ UNCHANGED <<pipeline, handler>>

RequestStep(j) == Look(j) \/ Upsert(j) \/ PutBytes(j) \/ Accept(j)

IngestNext ==
  \/ \E j \in Jobs : RequestStep(j) \/ Abort(j)
  \/ \E d \in Docs : Delete(d)
  \/ \E w \in Workers :
       Begin(w) \/ HandlerStep(w) \/ HandlerThrows(w) \/ Record(w) \/ Background(w)

IngestSpec == IngestInit /\ [][IngestNext]_allVars

(* The server finishes a request it has begun, the embedder answers, and   *)
(* the processes and loops behave as in JobWorker.  Clients owe nothing.   *)
IngestFairness ==
  /\ \A j \in Jobs : WF_allVars(request[j] # "none" /\ RequestStep(j))
  /\ \A w \in Workers :
       /\ WF_allVars(Boot(w) /\ UNCHANGED <<pipeline, handler>>)
       /\ WF_allVars(ResetStuckJobs(w) /\ UNCHANGED <<pipeline, handler>>)
       /\ WF_allVars(LoopExit(w) /\ UNCHANGED <<pipeline, handler>>)
       /\ WF_allVars(Start(w) /\ UNCHANGED <<pipeline, handler>>)
       /\ WF_allVars(Poll(w) /\ UNCHANGED <<pipeline, handler>>)
       /\ WF_allVars(Begin(w))
       /\ WF_allVars(HandlerStep(w))
       /\ WF_allVars(Record(w))

IngestFairSpec == IngestSpec /\ IngestFairness

-----------------------------------------------------------------------------
(* What the pipeline promises. *)

\* All the chunks that some accepted upload of the document makes are stored.
Complete(d) ==
  \E j \in Jobs :
    /\ DocOf[j] = d
    /\ request[j] = "accepted"
    /\ \A p \in 1 .. PartsOf[j] : chunks[d][p] # NoJob

\* A document is 'ready' only when all its chunks are stored, through
\* crashes, retries, failing statements and concurrent uploads of the same
\* bytes under another type, as long as nobody deletes it
\* (document-ingest.ts:96-112: the chunks first, the status after them).
ReadyIsComplete ==
  \A d \in Docs : docStatus[d] = "ready" => Complete(d)

\* The only upload of a document that has a row in the queue.
Alone(j) ==
  /\ status[j] # "absent"
  /\ \A k \in Jobs \ {j} : DocOf[k] = DocOf[j] => status[k] = "absent"

\* The queue and the documents table agree on success: one UPDATE writes
\* 'ready' and another, later one writes 'done' (job-worker.ts:118-123).
DoneMeansReady ==
  \A j \in Jobs :
    Alone(j) /\ status[j] = "done" => docStatus[DocOf[j]] = "ready"

\* A job is enqueued after its row and its bytes exist, so that the handler
\* finds both, at its first run and at any later one (documents.ts:131-146).
HandlerFindsUpload ==
  \A j \in Jobs :
    status[j] # "absent" => DocOf[j] \in bytes /\ docStatus[DocOf[j]] # "absent"

\* Queue, files and documents agree, before a job runs and after it.
QueueMatchesDocuments == DoneMeansReady /\ HandlerFindsUpload

\* The state that state.ts gives a status of the table: what the table calls
\* indexing is its 'ingesting'.
Lifecycle == INSTANCE DocumentLifecycle WITH
  state <- [d \in Docs |->
              IF docStatus[d] = "indexing" THEN "ingesting" ELSE docStatus[d]]

\* state.ts:4-8: the statuses of a document change as its table of legal
\* transitions says.
FollowsLifecycle == Lifecycle!Spec

\* The audit entry of a success is written inside the try block, after 'ready'
\* (document-ingest.ts:110-120): when it throws, the catch block takes the
\* document back to 'failed', though its chunks are all stored.
FailedAudit ==
  \E w \in Workers :
    /\ hpc[w] = "catch" /\ docStatus[Doc(w)] = "ready"
    /\ docStatus' = [docStatus EXCEPT ![Doc(w)] = "failed"]

\* No writer asks assertTransition, and the lifecycle is kept all the same but
\* for that one step: no retry, crash, boot-time reset or second upload of the
\* bytes makes another change that state.ts:24-29 forbids.
LifecycleButAudit == Lifecycle!Init /\ [][Lifecycle!Next \/ FailedAudit]_docStatus

\* Every upload that was answered 202 becomes, and in the end stays, 'ready'
\* or 'failed': documents.ts:12-15, the page polls until it does.
AcceptedUploadSettles ==
  \A j \in Jobs :
    request[j] = "accepted" ~> [](docStatus[DocOf[j]] \in {"ready", "failed"})

\* documents.ts:13-15: "the chat UI polls /v1/documents until rows leave the
\* pending state".
PendingIsLeft ==
  \A d \in Docs : docStatus[d] = "pending" ~> docStatus[d] # "pending"

\* document-ingest.ts:12: the handler "flips the document row to ready (or
\* failed)"; a job that failed should show on the document it was for.
FailedJobShows ==
  \A j \in Jobs :
    Alone(j) /\ status[j] = "failed" => docStatus[DocOf[j]] # "pending"

\* ingestion.md:4-5: "re-ingesting the same bytes is a no-op (existing chunks
\* win)": an upload answered 'ready, already existed' finds its chunks.
ExistingIsSearchable ==
  [][\A j \in Jobs :
       /\ request[j] = "none" /\ request'[j] = "existed"
       /\ docStatus[DocOf[j]] = "ready"
       => Complete(DocOf[j])]_allVars

\* The same sentence, of two uploads that both found no row: the chunks of
\* the first are the ones that stay.
ExistingChunksWin ==
  [][\A d \in Docs, p \in Parts :
       chunks[d][p] # NoJob => chunks'[d][p] = chunks[d][p]]_allVars
=============================================================================
