# Revex in TLA+

Revex is a self-hosted retrieval and question-answering server: documents are
uploaded over HTTP, stored in a SQLite file per workspace, chunked, embedded
and indexed by a background worker, and questions are answered by agents that
search the index and call a language model. This directory specifies the
server, its libraries, the command line and the pages that have a state of
their own. Paths below are relative to `src/packages/`, unless they begin with
`apps/` or `site/`, which are relative to `src/`.

## The system

One Node process is one replica. It serves HTTP, and if it is the leader it
supervises one `JobWorker` per workspace. Inside a process everything is
single-threaded, so interleavings happen at `await`s; replicas share the
workspace files, so between processes they happen at every SQL statement and
file operation. A page of the web application is one more such process: its
steps are handlers, continuations and commits of React.

| Component | State | Operations | Hard part |
|---|---|---|---|
| Upload and ingestion (`api/src/routes/documents.ts`, `api/src/handlers/document-ingest.ts`, `core/src/ingest.ts`) | `documents`, stored bytes, `chunks` | upload, the ingest job, delete | a row, the bytes and the job are written one by one; the handler can throw at each step |
| Queue and worker (`core/src/storage/jobs.ts`, `api/src/job-worker.ts`) | `ingestion_jobs`, the loop and its batch | enqueue, drain, reset of stuck rows, stop | batches are read long before they are used; UPDATEs test no status |
| Supervisor and process (`api/src/workspace-supervisor.ts`, `api/src/index.ts`) | map of workers, in-memory registry | boot, scan, register, SIGTERM | a scan suspends between the test of the map and the write to it |
| Workspace pool (`api/src/workspace-pool.ts`, `core/src/encryption.ts`) | handles, locks, passphrase vault | get, evict, settings read and write | shared opens, eviction at the limit, a vault that a restart empties |
| Migrations (`core/src/migrations.ts`, `core/src/workspace.ts`) | schema, list of applied migrations, the job table | open | statements commit one by one; crashes and second openers in between |
| Chunk tables (`core/src/stores/sqlite-vec.ts`) | `chunks`, `vec_chunks`, `fts_chunks` | add, replace, delete, search | the full-text index refers to rows by reusable rowids |
| File storage (`core/src/storage/local-file-storage.ts`) | files | put, get, delete | temporary file and rename, two writers, crashes |
| Chunker, derived data (`core/src/chunker/`, `ingest-agentic.ts`, `graph/`, `summary/`) | chunks; entities, edges, summaries, a tree | ingest, cluster, build | text passes two chunkers; steps that fail leave the ones before |
| Accounts and members (`api/src/routes/auth.ts`, `password.ts`, `workspaces.ts`, `me.ts`) | registry, `users`, `workspace_member`, audit rows | register, log in, change passwords and roles | writes to two databases without a transaction; a login scans every workspace |
| Access lists (`api/src/routes/document-acl.ts`, `core/src/storage/groups.ts`, `core/src/retrieval/rbac.ts`) | grants, roles, groups | grant, revoke, filter | rights are checked, then awaited, then used |
| Small tables and files (`core/src/storage/`) | audit log, feedback, sessions, facts, turns; versions, images, snapshots | one statement or file operation each | limits, awaits between check and write, files that are rewritten whole |
| The gate (`api/src/app.ts`, `api/src/middleware/`, `api/src/services/`) | buckets, probes, cleanup | every request, health, shutdown | the order of the middleware; two counters with an await between them |
| Startup (`core/src/settings/`, `plugins/`, `encryption.ts`, `telemetry/`) | settings, registries, key check | load, register, open | defaults, name clashes, two first openers |
| Answering (`orchestrator/src/agents/`, `core/src/retrieval/`, `core/src/context/`) | findings, hits, prompt, trace | both agent loops, the fan-out, hybrid retrieval | calls that fail or do not parse, retries in parallel, budgets |
| Models (`core/src/llm/`, `core/src/embedder/`) | totals; per request the provider and attempt; the bytes of a stream | generate, stream, embed | nested loops with two kinds of error; events cut between bytes |
| Helpers of the orchestrator (`orchestrator/src/pipeline/`, `hooks/`, `patterns/`, `core/src/traces/`) | cache, hooks, traces | get, put, emit, search | expiry; subscribers that come and go during an emit |
| Event streams (`api/src/routes/documents.ts`, `orchestrator/src/orchestrator.ts`) | queue, `done`, `resolveNext`; the shared agent registry | ingest-stream, query stream, run | wake-ups, rejections nobody awaits, a shared generator |
| Evaluation (`eval/src/`) | scores | run, generate, measure | one failing sample; borders of measures |
| Command line (`apps/cli/src/`) | `registry.json`, workspace files, archives | tenant, init, backup, config, posts | read-modify-write by several processes, kills |
| Web application (`apps/web/src/`, `site/src/`) | lists, forms, streams, theme | ask, stop, upload, share, set up | late answers, polling, two owners of one state |

They interact as follows. An upload inserts a document row, puts the bytes and
enqueues a job. The leader's supervisor has started a worker for the
workspace, which selects the job, gets the workspace open from the pool, loads
the bytes, embeds the chunks, stores them in the chunk tables and sets the
status the web page polls. Whoever opens the workspace first runs the
migrations. A request passes the gate, which knows its workspace from its
token; the handler gets the workspace from the pool and checks roles and
grants. Questions go through the orchestrator, whose agents retrieve and whose
generator calls the model; the answer is returned at once or streamed to the
page.

Every component, with its status and what is left out of it, is listed in
`PROJECT.json` ("components"); "hazards" lists what is hard to test and the
properties that are about it.

## Modules

| Module | Models | Extends / uses |
|---|---|---|
| `JobContract` | what a job queue promises (abstract) | |
| `JobWorker` | table, workers, boot reset, SIGTERM, crashes | refines `JobContract` |
| `DocumentLifecycle` | the legal status transitions of `core/src/lifecycle/state.ts` (abstract) | |
| `IngestPipeline` | upload, handler and delete on top of the queue | extends `JobWorker`, refines `DocumentLifecycle` but for one transition |
| `Supervisor` | replicas, scans, maps of workers | |
| `WorkspacePool` | handles, sharers, eviction, settings | |
| `Migrations` | the statements of the runner over one file | |
| `KeywordIndex` | the three chunk tables and both searches | |
| `LocalFileStorage` | one key, its temporary files and inodes | |
| `TextSplitter` | an upload's words through its two chunkers | |
| `Knowledge` | agentic ingestion, entity graph, clusters, summaries, the RAPTOR tree | |
| `Accounts` | registration, login, passwords, members | |
| `AccessLists` | grants, roles, groups, the filter | |
| `WorkspaceRecords` | audit log, webhooks, feedback, sessions, facts, turns, and what their routes answer | |
| `KeptFiles` | document versions, images, snapshots | |
| `JobQueues` | the in-memory queue, the claims of the SQLite queue, adapters | |
| `Startup` | settings, config file, plugins, key check, redaction | |
| `RateLimit` | the buckets and the two counters | |
| `RequestGate` | the chain of the middleware, probes, the shutdown coordinator | |
| `CommandLine` | the commands of `revex` | |
| `LlmManager` | classes of errors, retries, fallbacks, streams, totals | |
| `ModelClients` | the reader of a stream, the shared client, batches of embeddings | |
| `PlannerLoops` | deep research and ReAct with their tools | |
| `RagFanOut` | one turn of the RAG agent | |
| `HybridRetrieval` | `retrieve()`: both searches, fusion, the rerankers | |
| `ContextBuilder` | the prompt under its budgets | |
| `Orchestration` | cache, hook bus, traces, and the pure helpers, the kinds of uploads among them | |
| `Evaluation` | harness, generator of samples, measures | |
| `EventStreams` | both server-sent event bridges and the shared generator | |
| `WebChat` | the chat page and the stream it reads | |
| `WebPages` | documents, panels with what they offer when, sign-in, the wizard and its fields, the landing pages, the theme | |
| `MC*` | instances for TLC | |
| `IngestPipeline_proofs`, `WorkspacePool_proofs` | theorems of the module | extend it and `TLAPS` |
| `Boot_proofs`, `Storage_proofs`, `Server_proofs`, `Agents_proofs`, `Web_proofs` | theorems of `Supervisor` and `Migrations`; `KeywordIndex`, `LocalFileStorage` and `KeptFiles`; `AccessLists`, `Accounts`, `RateLimit`, `JobQueues`, `Startup`, `RequestGate`, `WorkspaceRecords`, `CommandLine` and of their composition `MCServer`; `LlmManager`, `PlannerLoops` and `ModelClients`; `EventStreams`, `WebChat` and `WebPages` | extend these and `TLAPS` |

`MCBoot` (supervisor and migrations), `MCStorage` (what a workspace stores),
`MCServer` (what stands around the documents), `MCAgents` (what answers a
question) and `MCWeb` (what a user sees) each instantiate several components
that share no state. Their variable `subject` names the component a behaviour
is about and never changes, so that their state space is the sum and not the
product of the components', and every reachable state of each component is
reached. A property of such a run is a property of one component, or a
conjunction of them (`DerivedStands` in `MCStorage`, `PromisesAreKept` and
`ReadingsAreTrue` in `MCServer`, `AnswersAreWhole` and `ComputesAsDefined` in
`MCAgents`; `StartsAsConfigured`, `GateHolds`, `RecordsAreKept`, `RecordsAreRead`,
`CommandsKeepFiles`, `StreamsAreWhole`, `AccountsHold`, `FilesAreKept`, `QueuesKeepJobs`,
`PromptFitsBudget`, `CallsKeepTheirOwn` and the like at the end of their
modules), whose named conjuncts are each explained where they are defined. Fairness in `MCBoot` and
`MCWeb` is that of the components, each condition restricted to the behaviours
about its component. What really interacts is one module or one extends the
other: queue, worker, handler and documents in `IngestPipeline`.

How they correspond to the code: a variable is a column, a file, a field of an
object or a local variable that survives an `await`; its comment says which.
An action is everything that runs between two suspension points, with the
guard the code tests there. Variables marked *history* exist for properties
only. Definitions whose comment starts with "Mutant:" are the same code with a
plausible bug; `PROJECT.json` pairs each with the property that catches it.

Some choices a reader should know:

* `JobWorker` takes one SQL statement and the code around it as a step. For
  workers of one process the real interleavings are a subset (only awaits), for
  workers of different processes they are exactly these.
* A document is its content: the id is a hash. Two uploads of the same bytes
  under different MIME types make different chunks; `PartsOf` says how many.
* `Answers` of `RequestGate` are the statuses the routes give themselves (found by
  reading every `c.json` of `api/src/routes`), so that a refusal may come from a
  handler as well as from the gate.
* `AccessLists` keeps the owner of a document's row apart from the owner of its
  chunks: the routes ask the first, the filter of the searches the second.
* Exceptions: `Thrown` gives for each step of the ingest handler where its
  exception is caught (the handler's `try`, its `catch`, or `drain()`).
* `Migrations` follows the rows of the job table, because migration 0009
  rebuilds it; other tables are the presence of a column or a table.
* `WorkspacePool` names a handle after the call that opened it, so that a
  stale handle can be told from its successor.
* `LocalFileStorage` separates paths from inodes: an open descriptor goes on
  reading the old file after a rename, and a file is read block by block.
* `Accounts` names a workspace, its founder and its first password after the
  registration that makes them, and a later password after its request.
* `EventStreams` lets the retriever find results or not and the model answer or
  fail at any step. The server is wired to stub agents with a delay per token;
  the orchestrator is written for any, and the crosstalk run needs no more
  than the stub.
* A text is what the properties tell apart: words in `TextSplitter`, characters
  in `ContextBuilder`, bytes of two-byte characters in `ModelClients`, pieces
  in `WebChat`. Scores are small numbers or fractions with a common
  denominator; `HybridRetrieval` compares sums of `1 / (k + rank)` exactly.
* An address of `RequestGate` has `AddressBits` bits. The masks of an IPv4
  range are computed with the same shifts, wrap-around included; an IPv6 address
  is two groups, one of which a `::` may stand for, and its mask is a number of
  any size cut in halves, as in `cidr.ts`.
* `WorkspaceRecords` keeps the rows of the log and of the ratings without their
  kinds and values; the operators for the routes take any assignment of them
  (`kindOf`, `ratingOf`), and the properties quantify over all.
* `RagFanOut` gives each specialist the roles it looks at and what it makes of
  a hit that lacks a text or a score; `PlannerLoops` gives each built-in tool
  the state it needs and the shape of what it returns.
* `Orchestration` and `Evaluation` take pure functions as operators: a step
  applies one to some input, and the property compares the result with a
  definition that does not follow the code.
* `RateLimit` counts requests and time in small numbers; expiry is the strict
  comparison of the code.

## What is checked

Passing runs:

| Run | Instance | Question |
|---|---|---|
| `Ingest_single` | 3 uploads (two of the same bytes with 2 and 1 chunks, one without text), 1 worker, batches of 2, 2 faults, every step may throw, the audit row after `ready` included | Do documents, chunks, bytes and queue agree at every moment (`ReadyIsComplete`, `QueueMatchesDocuments`), do statuses follow the lifecycle but for the one step `FailedAudit` (`LifecycleButAudit`), does the queue refine its contract, do jobs start in order? 1.6 million states |
| `Ingest_live` | uploads of 2 documents, of 2 chunks and of none, SIGTERM, 2 crashes, deletes, embedding that fails | Does every accepted upload end as ready or failed and every job get an outcome for good? Does a graceful stop leave nothing in `running`? |
| `Boot_all` | 2 replicas, 2 workspaces, 2 restarts, 1 failed open, one scan in flight; 2 processes that open a file with a job before and one after, 1 crash between any two statements | One worker per workspace and process, the map names exactly the live ones, a graceful exit interrupts none, every known workspace gets a worker; no accepted job is lost and an opened file has the whole schema until opens overlap, every open ends |
| `WorkspacePool_bounded` | 4 callers of 3 users (two requests of one user and two jobs), room for 2 handles, failing opens, 2 restarts | The bound, no leaked handle, no waiting for ever |
| `Storage_both` | documents of 2 chunks and of 1, rowids up to 5; 3 puts in 2 processes, a reader, deletes, 1 crash; uploads of up to 5 words under 4 windows; 2 ingests of 2 documents over 3 names, 3 triples, trees over up to 7 chunks; 3 appends of versions, 3 image calls, a walk, 1 restart | Stored chunks are found, hits contain the keyword unless chunks were both replaced and deleted, every read file is whole, chunks tile their text, what is derived stands for what is stored; versions stay a history, saved images whole, manifests complete. 330 thousand states |
| `Server_all` | 2 addresses, 1 workspace, limits of 1 in a window of 2 ticks; 2 registrations under one e-mail with pairs of login, password change and member change, 1 restart; 2 access requests over a document, a group and 2 members, with 3 uploads, ingests, deletes or changes of members; 2 calls of 3 people, 3 facts or turns; 3 jobs, 2 workers, 1 reset; environments with up to 3 odd variables, files of 3 lines, 2 openers; every request over 2-bit addresses; 3 commands in 2 shells | No more than twice a limit in a window and nothing past the gate but by its rules; accounts stay usable and old passwords dead; lists are read and changed only for who could manage them, by no step but such a request (`OnlyGovernorsGrant`, an action property); rows and the files of the command line stay whole and stay their owner's; queues keep their jobs; a process starts as configured, masks its secrets, reports and ends as it says, and subscriptions and ratings stay as answered (`PromisesAreKept`); a config file nests as it is indented, a range means its prefix, pages of the log and counts of the ratings agree with their rows, the tenants are a list without duplicates whatever commands overlap or are killed (`ReadingsAreTrue`). 1.5 million states |
| `Agents_all` | 2 generates and a stream, 3 providers, 2 attempts, 2 chunks; loops of 3 steps with 4 tools; 4 specialists with 2 tries; 5 ranked chunks, 1 edit; prompts of 2 hits and 2 turns; streams of 3 events cut anywhere, 3 calls on a client, 7 texts; 2 rooms and users in the cache, 3 hooks, 3 traces; files of 3 lines, 3 passages | Fallback only after all retries; traces that pair, findings that are the union; the best hits merged once; fusion that inverts nothing both searches agree on; prompts in their budget; streams that survive every cut and vectors that belong to their texts; helpers and measures equal to their definitions |
| `Web_all` | 2 streamed questions, one with a plain question, one with a streamed upload, 1 failure; a chat of 2 questions with 2 events each; 1 document, 2 answers under way, 2 changes; every text of the two forms | No event lost, repeated or swapped, every stream ends, a lone question streams its whole answer; a stop reaches the stream, earlier answers stay, what is shown as pending settles, the landing pages stay usable and a chosen theme stays |

Violation runs, each a disagreement between the code and what it says of
itself:

* `Storage_stale`. `INSERT OR REPLACE` gives a chunk a new rowid but leaves the
  old posting in the external-content FTS5 table. When the largest rowid has
  been deleted SQLite hands it out again, and the old posting then points to
  another chunk: a search returns a chunk without the keyword.
* `WorkspacePool_restarted`. After a restart the vault is empty, an ingest job
  opens the workspace with an empty passphrase, and the pool shares that
  handle with a request that brings the passphrase: settings written
  encrypted read as missing.
* `Streams_crosstalk`. `useStreamingGenerator` replaces the generator of a
  registry all requests share and nothing restores it: the answer of another
  question arrives in a stream that is still open.
* `Access_granted`. The filter of both searches binds the user and the
  principals in the wrong order (`sqlite-vec.ts:159`), so whoever is not an
  admin finds nothing, the owner of a document included.

### Bounds

Every bound is a CONSTANT (`Max*`, limits, sizes of windows) or a finite set.
Two faults reach a crash during the recovery from a crash; two documents with
one shared content reach every pair of uploads the code distinguishes (same
bytes, other bytes, no text); a limit of two handles with three users makes
every open of the third evict; five rowids allow a replace, a delete and a
reuse with three chunks; three providers have a first, a middle and a last; two
requests on one orchestrator are the smallest crosstalk, and more only repeat
it. Two registrations with one e-mail and two passphrases are the smallest
login that meets a workspace it cannot open, and each pair in `MCMixes` is one
race of two requests over the same rows. Three steps of a loop have a repeat,
a failing call and a last step; two tries have a first and a last; two hits
and two turns around the border of a budget have one that fits, one that is
cut and one that is left out. Seven texts under batches of four and slices of
three end in the middle of both. Two-bit addresses have, in both families, a
range of every address and one of half of them, two groups of one bit, and both
answers for each. Pages of up to two events of logs of two, and lists of one
rating, have one that fits and one that is cut. Three facts under a window of two make a
row of somebody else crowd out one's own, if the limit came first. Three
commands in two shells have two that race and one that starts after. Where a
theorem exists (below) it has none of these bounds.

Runs that say `CHECK_DEADLOCK FALSE` model requests that come, end and are
never repeated; the others never stop.

### Fairness

* `JobWorker`, `IngestPipeline`: weak fairness of boots (a process manager
  restarts replicas), of the due continuations of the event loop, and of the
  handler, whose awaits settle. None for clients, faults and deletes.
* `Supervisor`: weak fairness of boot, the interval, the ends of opens and the
  loop of `stop()`.
* `Migrations`: weak fairness of a started open; strong fairness of starting
  one, because another process may disable it again and again.
* `WorkspacePool`: opens end and callers use what they hold.
* `EventStreams`: tasks and writers go on while the process is up.
* `WebPages`: a page mounts, answers under way arrive, and its interval is
  answered with what the server has: errors are not the only answer for ever.
  `setInterval` fires as long as a row is unfinished.

## What is proved

TLAPS checks the following for every value of the constants that satisfies
the named ASSUMEs.

| Module | Theorem | Needs |
|---|---|---|
| `IngestPipeline_proofs` | `TypeCorrect`, `RunningIsHandledCorrect` (of `JobWorker` alone), `IngestTypeCorrect`, `PipelineRunningIsHandled`, `HandlerFindsUploadCorrect` | any number of workers |
| | `OutcomeIsFinalCorrect`, `StartsInOrderCorrect`, `ImplementsContractCorrect` (of `JobWorker` alone), `PipelineImplementsContract`, `PipelineStartsInOrder`, `QueueMatchesDocumentsCorrect` | `SingleWorker` |
| | `ReadyIsCompleteCorrect` | `~AllowDelete`, any number of workers |
| | `LifecycleButAuditCorrect` | `SingleWorker` |
| | `FollowsLifecycleCorrect` | `SingleWorker`, `"audit" \notin Mishaps` |
| `Boot_proofs` | `WorkersCorrect` (of `OneWorkerCorrect` and `MapCorrect`), `ExitCorrect` | `OneScan` |
| | `TypeCorrect`, `OpenIsWholeCorrect` (of `AcceptedIsStoredCorrect` and `OpenSeesAllCorrect`) | |
| `Storage_proofs` | `StoredIsFoundCorrect`, `HitsContainKeywordCorrect` | |
| | `ReadersSeeWholeCorrect`, `TargetIsWholeCorrect` | |
| | `FilesAreKeptCorrect` | |
| `WorkspacePool_proofs` | `PoolIsBoundedCorrect`, `OpenIsCachedCorrect` | |
| `Server_proofs` | `OnlyGovernorsGrantCorrect` | |
| | `AccountsHoldCorrect` | |
| | `LimitsHoldCorrect` (of `AtMostTwiceCorrect` and `DenialIsEarnedCorrect`) | |
| | `QueuesKeepJobsCorrect` | |
| | `OnePassphraseCorrect`, `BuiltInsStayCorrect`, `SettingsAreHeardCorrect`, `SecretsAreMaskedCorrect` | |
| | `AdmittedByRulesCorrect`, `RefusedForAReasonCorrect`, `ReportIsTrueCorrect`, `CleanupIsWholeCorrect` | |
| | `OnlyAdminsSubscribeCorrect`, `LogTellsSubscriptionsCorrect`, `RatingsAreFoundCorrect` | |
| | `InitIsFoundCorrect`, `ConfigIsOfSpaceCorrect`, `TenantsAreKeptCorrect` | |
| | `ServerIsItsComponents`, `PromisesAreKeptCorrect` (of it and the fourteen above) | |
| `Agents_proofs` | `AttemptsInOrderCorrect` (of `FallbackAfterRetriesCorrect` and `GivesUpLastCorrect`) | |
| | `TraceIsPairedCorrect` | |
| | `CallsKeepTheirOwnCorrect` (of `VectorsMatchTextsCorrect` and `ForeignHeaderCorrect`) | |
| `Web_proofs` | `StreamsAreWholeCorrect` (of `ClosedSawAllCorrect` and `AloneIsWholeCorrect`) | |
| | `StopReachesStreamCorrect`, `EarlierAnswersStayCorrect` | |
| | `PagesHoldCorrect` | |

`SingleWorker` (all workers are one) and `OneScan` (all scan slots are one) are
hypotheses of the theorems, not ASSUMEs: they are what the code relies on
and does not enforce. With two workers, or two scans in flight, TLC finds the
properties violated. `~AllowDelete` is the condition `ReadyIsComplete` names:
the row of a deleted document keeps its status. `"audit" \notin Mishaps`
says that the INSERT of the audit row, the only statement between `ready` and
the end of the handler, does not throw; it is what turns `LifecycleButAudit`
into `FollowsLifecycle`, and the condition is needed: TLC refutes `FollowsLifecycle`
under the constants of `Ingest_single`, where that INSERT may throw.
What the invariants say themselves of `overlapped`, `shared` and of chunks both
replaced and deleted is part of the property, not of the theorem.

The arguments:

* **Outcome and order** (`LoopInv`, `OrderInv`). A row that is `running`
  without a handler must not be in the rest of a batch, and the rows of a batch
  are sorted and no older than what waits outside. The reset can return such a
  row to the queue at any moment, so the invariant speaks of the batch, the
  current job and the table together.
* **Contract.** `Phase(j)` maps a row and the workers to the abstract phase of
  a job. Each action is shown to be a step of `JobContract` or a stutter;
  a crash and a lost UPDATE are both `Abandon`.
* **From the queue to the pipeline** (`QueueStep`). Every step of
  `IngestPipeline` is a step of `JobWorker`, leaves the queue alone or is a fault elsewhere, so that
  what is proved of `JobWorker`'s `Next` is carried over and not proved twice.
* **Pipeline** (`HandlerInv`, `UploadInv`). A handler runs exactly while its
  worker awaits it, for a row that is in the table; an upload that has come to
  a step has left what the steps before it write. Neither is inductive without
  the other: the row of a job is what connects the two processes.
* **Ready** (`ChunksInv`). While a handler stores, the chunks before its
  position are there, and when it publishes all are. Another upload of the
  same bytes overwrites chunks and never removes them (`ChunksStay`), which is
  where deletes must be excluded and workers need not be.
* **Queue and documents** (`StatusInv`). After the status was written nothing
  else writes it before the handler returns and the row becomes `done`; with
  one worker and one upload of the document there is nobody else. The lifecycle
  follows from the same invariant: a status is only written by a handler that
  has set `indexing`, or by the first upload.
* **Supervisor** (`Inv`). While a scan awaits workspace *i* no other scan can
  have added it, hence the map and the live workers agree at every await.
* **Migrations** (`Alone`, `Followed`, `Done`, `Rebuilding`). The invariant
  relates the opener's position in the script to the schema and to the table
  each accepted row is in; it is stated under `~overlapped`, and
  `OverlappedStays` carries it over the whole behaviour.
* **Keyword index** (`Filed`, `NoReuseUntil`). Every stored chunk has a posting
  under its rowid; until both replace and delete have happened, every posting
  of a live rowid carries that row's text.
* **Files** (`FileInv`). An inode a temporary path names is apart from the key
  and from every open read (`TmpIsApart`), also when the put that made it has
  died and its process has restarted; so a write never changes what somebody
  reads, and the rename moves a file of which every block was written
  (`PutsHoldTmp`). Both are needed to know that what the key names is whole.
* **Versions and images** (`VersionInv`, `ImageInv`). What is in memory, in the
  file and in the hands of a call that is about to write it are histories, so
  whichever text ends in the file is one. A call that began its part while no
  other read the file is followed by no read, because `loaded` stays set; this
  is why nothing replaces the records it has added to. In a history the highest
  version of a document is the number of its records (`LatestIsCount`), hence
  an append continues it (`HistoryGrows`). What the walk of a snapshot found at
  its start is listed, due, or in a directory it has yet to visit.
* **Queues** (`MemoryInv`, `ClaimInv`). The counts of handed out and waiting
  entries of a job change together (`CountTail`, `CountConcat`); a job without a
  record has no entry left, which is what makes its first enqueue the first.
  A claim is never ahead of the commits of the file, and one that is level with
  them names a row that is still pending and was taken by nobody.
* **Pool** (`LockInv`). At most one caller per user is opening; between
  eviction and insertion nothing is awaited, so the cardinality argument
  (`RoomIsMade`) is local to one step.
* **Access lists** (`AclInv`). The role may go between the check and the write, and
  chunks may change hands, so the invariant keeps for every request
  past the check that it `held` its right since it came, and for one before it that
  the present right is recorded in `held`. That only such requests change the
  grants is then a property of each step (`OnlyRequestsApply`).
* **Accounts** (`RegistrationInv`, `PasswordInv`, `LoginInv`). What a
  registration has written by the step it is at; that the passwords a change
  replaces were answered before it; that the workspace a login looks for is in
  the rest of its list, or is the one it found. The last is what an entry that
  does not open, or one of the same e-mail, must not disturb.
* **Limiter** (`LimitInv`). A window of time meets at most two buckets of a key.
  `BucketHolds` counts what passed in the current bucket and in the window
  before it began, `NoBucketHolds` what passed in the last window when there is
  none; that `AtMostTwice` holds for windows that begin at any time follows from
  these counts and monotonic times, by cardinalities of sets of indices.
* **Startup** (`PassphraseInv`, `SettingsInv`). An opener that has found a
  verifier has found the one that is there, since only a race of two first
  openers replaces one; every row is written under the key of the verifier or
  without a key. That no value is invented is a property of each kind of field.
* **Gate** (`GateInv`, `ProbeInv`, `CleanupInv`). `GateRules` says for each stage of a
  request what the checks before it have established: one that has a handler
  has passed them all, at the time its token was checked and not when the
  limiter looked. Handlers may answer with every status the routes have
  (`Answers`), their own refusals included; what the gate itself refuses has
  something the matter by the stage at which it does (`Matter`). What a probe has seen of the collaborators it has asked is
  what they are, as long as none has changed; the handlers that ran are a
  prefix of the list, and all of it when the process of one signal ends.
* **Small tables** (`CallsInv`, `AdminInv`, `LogInv`, `RatingInv`). A call that
  has been past its check keeps that it was an admin's, though the role may go;
  the log holds what was written and a removal in it was asked for by a call,
  which is why an answered subscription nobody named still stands.
* **Command line** (`AloneInv`, `InitInv`, `ConfigInv`, `RegistryInv`). While a file is
  undisturbed one command at most works on it, and it is torn exactly
  while that one writes (`FileAlone`); so the list a command is about to write
  is the one that stands, changed by its own tenant. Manifests and
  configurations need less: what is whole in a directory was written for it.
* **The server** (`ServerIsItsComponents`). Every step of `MCServer` is a step of each
  of its components or leaves it alone, so it has the properties of all.
* **LLM manager** (`Counts`). Failures per provider count what link and attempt
  imply; `GivesUpLast` is not inductive without it.
* **Streams** (`Order`, `Ends`, `Hooked`). What was pushed is what was
  delivered followed by the queue; `done` is only set by a task that has ended;
  a generator never feeds a stream that has not begun.
* **A lone stream** (`AloneInv`). While a query is alone the registry holds its
  own generator, its generation feeds itself, and what was pushed is one
  thought and as many chunks as were made; when it ends this stays for what is
  delivered, though the next request may change the registry at once.
* **Traces** (`TraceInv`). What a loop emits at once is a `Burst`: only its
  first event can be a result and only its last a call or the final one.
  `BurstIsAppended` joins one to a trace whose last event is a call exactly when
  the burst begins with the result, and the place the loop is at says whether it is.
* **Model clients** (`EmbedInv`, `HeaderInv`). The vectors made so far are those
  of the first texts, in order, up to the slice the embedder is at
  (`CountsOn`), whatever the two sizes are; what a call holds of a client of
  another header was made by a stream that is past its import.
* **Chat** (`ChatInv`). Only the last question can be on its way, the page
  streams exactly while it is, and as long as the page is there its controller
  is at hand or was used. A commit writes to the bubble the page points at,
  the last one, and an answer that ends to its own, so earlier ones stay.
* **Pages** (`WizardInv`, `LandingInv`). Every step before the one shown is valid,
  since only the shown one can be edited; a form is locked only under a stream
  which a run reads; only the question shown has a timer; what was chosen is
  what is stored.

Model-checked only:

* Liveness (fairness and ENABLED are beyond the prover).
* What a loop or a fold computes over data of any length. The library's
  induction theorems cannot be used, and though a least counterexample can take
  their place where a set of numbers is all that is needed (`LeastNat`, with
  which `Server_proofs!OrderExists` lists any finite set in order), the folds
  and selections of the community modules take operators as arguments, which
  are opaque to the provers. There TLC compares with a reference definition
  over all small inputs. These are `DerivedStands`, `FusionRespectsRanks`,
  `AnswersAreWhole`, `PromptFitsBudget`, `ComputesAsDefined`
  and `ReadingsAreTrue`. Of the last, `ForwardedIsTrusted` compares the bitwise
  recursion of `cidr.ts` with prefixes; `ConfigNests` follows a config file of
  any number of lines; `ReadsIgnoreOthers`, `PagesAgree`, `RatingsAreCounted` and
  `TenantsAreDistinct` are about selections from sequences.

No module of the project declares a RECURSIVE operator.

## Met while modelling

Statements TLC refutes that no run repeats; where a name is given, its
definition is in the module. Without a name, it was read from the code and is
part of an action or its comment.

Ingestion and storage:

* `IngestPipeline!PendingIsLeft`: a request that dies between the row and the
  job leaves the document pending for good, and later uploads of the bytes are
  answered "already existed" (`documents.ts:119-129`). A failed document cannot
  be retried for the same reason (`lifecycle/state.ts:8`).
* `IngestPipeline!FailedJobShows`: a handler that throws before its `try`
  (workspace, bytes, row) fails the job, and the document stays pending.
* `IngestPipeline!ExistingIsSearchable`: after a delete, an upload of the
  same bytes is answered "already existed" with no chunk stored: the row of the
  deleted document stays (`documents.ts:310`).
* `IngestPipeline!ExistingChunksWin`: chunks are replaced, not kept, when two
  uploads of the same bytes race (`ingestion.md` says existing chunks win).
* `Migrations!JobsSurviveOverlap`: a second opener drops the table the first has
  just renamed, with its jobs. A crash between `ALTER TABLE` of 0011 and its
  record makes the statement throw "duplicate column" at the next open; a
  legacy table without `kind` fails the copy of 0009 (`Legacy = TRUE`). Errors
  that mention sqlite-vec are swallowed and the migration counts as applied.
* `Supervisor!RegisteredWorkspaceIsDrained`: after a restart only the first
  workspace of the registry is known. `FollowersNeverDrain`: a follower
  replica runs a worker, started by the scan that was in flight when its
  supervisor was stopped (`index.ts:260`). Two overlapping scans start two
  workers (two `Slots`).
* `WorkspacePool!HeldIsOpen`: an eviction closes a handle that a request holds
  across an await; the action `UseClosed` is what follows.
* Two puts of one key in one process share `<key>.tmp.<pid>`; `shared` marks
  the behaviours in which they overlap. `get()` rejects when the file goes
  between `existsSync` and the read; `list()` shows temporary files too.
* Text and markdown are chunked twice, so overlaps are doubled
  (`text.ts:85`, `ingest.ts:132`); markdown is flattened before it is cut at its
  headings; `targetTokens` counts words.
* Edges grow with every ingest of a document and survive its delete, though
  `graph/store.ts:6` speaks of co-occurrence; an extractive summary has an empty
  embedding, so it is never stored (`summary/index.ts:93`); a failing step of
  `agenticIngest` only leaves its result out; ids of RAPTOR nodes collide
  between documents.
* `POST /v1/documents/ingest-stream` writes chunks without a document row, bytes
  or a job, though `workers-jobs.md` says it persists the bytes; a document
  without chunks ends its stream without an outcome (`ingest-verbose.ts:176`).
* The reset decrements `attempts`, which no code increments, and nothing reads
  `max_attempts`. `MemoryQueue.resetStuckJobs` re-queues jobs that are being
  worked on; `complete` and `fail` of the SQLite queue ignore the worker.

Accounts, rights and records:

* `Accounts!PassphraseFindsOwn`: with one e-mail and one passphrase twice, a
  login enters the first workspace it can open (`auth.ts:215`).
  `WorkspaceKeepsManager`, `AuditedAtHome`, `FounderIsKnown` are not kept: the
  last owner can go, password and member routes use the stores bound at boot. A
  login and a wrong passphrase leak a SQLite handle each; the KMS vault throws
  after the registry row is written.
* A request that was an admin's when its role was checked writes its grant though
  the role has gone meanwhile (`document-acl.ts:105,119`); `OnlyGovernorsGrant`
  only says that it had the right since it came.
* A delete drops chunks and leaves the row of the document with its owner, and the
  grants (`documents.ts:310`): the owner goes on changing them, and they are in
  force again when the bytes are ingested, by whoever that is; the owner of the chunks,
  which the filter reads, may then be another than the owner of the row, who
  governs the list (`ingest-stream` asks for no row). Grants to roles and groups
  never reach the filter; `applyDefaultAcl` and `resolveAccessScope` of the docs
  have no caller or do not exist.
* `conversations.history` returns the newest turn first though its doc says
  chronological; any member may delete feedback (doc: admin or owner); a
  session is found by its token alone; `GET /v1/webhooks` is always empty;
  `vacuum` asks for no role; the audit filter is applied after the limit;
  `chunkCount` of a source counts documents.
* The audit row of a finished ingest is written inside the `try` whose `catch`
  marks the document failed, after it was set to ready
  (`document-ingest.ts:112,120`): `ready -> failed`, which `state.ts:4-8` does
  not list, of a document whose chunks are all stored. `LifecycleButAudit` names
  that step and says that it is the only one the table of transitions lacks.
* The version history is saved as an object and loaded as an array, so every
  call after a restart throws (`document-versions.ts:49,60`); superseding one
  document's version supersedes every document's, since all ids are `v`; a torn
  image can never be saved over; a file that goes during a snapshot ends the
  walk in silence (`snapshots.ts:57,68`).
* Of two processes that create a workspace with different passphrases the later
  overwrites the verifier (`encryption.ts:118`).

Gate and startup:

* `RateLimit!SlidingWindow`: the window is fixed, so twice the limit passes
  around its border. The Node server sets no `env.remote`, so every client is
  `unknown`.
* Hono answers errors itself, so the table of codes in `errorMiddleware` is
  never used; `10.0.0.0/` means every address; an IPv6 peer with an IPv4 range
  is answered 500; "degraded" cannot be reported; a second signal of another
  kind exits while handlers still run.
* Numbers that do not parse become defaults in silence; every `REVEX_` variable
  is warned about as unknown (`settings/index.ts:216`); `Registry.clear()` keeps
  the built-in plugins out for good; `RedactingTelemetry` masks neither arrays
  nor attributes set later; a list cannot be written in the config file.

Answers:

* `LlmManager!TerminalSurfaces`: a terminal error of a fallback provider moves
  on instead of surfacing. `UsageCoversAnswers`: streams are not counted as
  answers. With `CutMidway = TRUE` a retried stream repeats chunks
  (`StreamIsOneAnswer` fails).
* `PlannerLoops!SynthesisCitesUnion` (`deep-research.ts:10`): hits without an id
  are lost. `RepliesAreWritten`: the reply of the synthesis has undefined fields
  (`deep-research.ts:276`). ReAct throws on an unknown tool and passes no state,
  so every tool of a workspace fails.
* `RagFanOut!OldTurnsAreHeard`: the summary of a long history is dropped by
  `buildMessages`. `MergedHitsNameDocument` is not kept. An exception of
  `afterRetrieve` discards the hits and tells the hook twice, though
  `agent-hooks.ts:14` says it is caught.
* `HybridRetrieval!KeywordOnlyReturned`: what only the keyword search finds is
  dropped; `FoundIsStored` and `RerankedOnce` are not kept.
* The prompt drops what does not fit in the order of the list, not by score or
  age (`builder.ts:10,12`), and is never marked as truncated.
* `OpenAILlm.stream` makes a client without the configured header, which
  `generate` then reuses; a cut inside a character garbles it.
* `linearFusion` uses the sparse rank and overwrites the dense score, though its
  comment says α·dense + β·sparse; later layers of a strategy replace earlier
  ones, though `strategy.ts:10` says they fill in; a hook that unsubscribes
  another makes `emit()` skip one; a lookup in flight at `invalidate()` stores
  old hits; a list item that begins with a year loses it.
* `EventStreams!AnsweredIsStreamed`: events of `deep_research` stay in the result
  that `stream()` drops, so such a stream shows one thought. A failed stream
  rejects a promise nobody awaits, which ends the process (`Die`).
* One failing sample rejects a whole evaluation; the gate passes a metric that is
  NaN, though `gate.ts:5` says a missing one fails; "lost in the middle" shows
  the gold chunk twice.

Clients:

* The tenants of the command line are in `registry.json`, those of the server in
  `registry.db`; of two overlapping creates or deletes one is lost (`TenantsAreKept` excludes
  them by `disturbed`, `TenantsAreDistinct` does not), and a torn file counts as
  empty. `backup create` packs nothing and says it did; `queue` and `migrate`
  only print; posts carry no Origin, so they are answered 403.
* `WebPages!SignedInStays`: pages look for an `HttpOnly` cookie in
  `document.cookie` and go back to the sign-in page. `KeySurvives`: saving the
  settings erases the key of the provider. `PanelsSettle`: a late answer to an
  old GET replaces a newer one. After a successful upload `res.text()` rejects
  (`documents/page.tsx:94-96`).
* `WebChat!NoForeignText`: an answer without text shows the previous one's.
* `WebPages!OneLiveRun`: the live query posts every question twice, unlocks at
  once, and a run that was aborted clears the controller of the next, so that
  two streams write into one text. The footer's button for its own theme does
  nothing after the header has changed it.

## Plan

Every component of the first plan is done. What would add most next:

1. Proofs: what remains are the definitions over data above, for which
   a prover with induction is needed.
2. The whole path of a question as one module (gate, pool, orchestrator,
   bridge), with a client that goes away.
3. The SSE upload and the queue over one document table.

## Not modelled

* Static pages, markup and interface elements (`apps/web/src/components/ui`, the
  sections of `site`): no state but open or closed.
* The pgvector store, whose operations throw; the facade, which passes calls
  on; the bytes that `core/src/lifecycle/scanner.ts` hands to parsers.
* Routes that only read (lists of documents, tenants and conversations,
  metrics), but for those over grants, the log and the ratings; and `VACUUM`.
* Encryption, hashing, signatures and tokens, which are assumed to work;
  distances, BM25 and embeddings (real arithmetic); parsers of PDF and HTML;
  the wording of prompts, logs and judges.
* Liveness as theorems, and induction over data (see "What is proved").
