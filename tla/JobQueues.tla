----------------------------- MODULE JobQueues -----------------------------
(* The queues behind the JobQueue interfaces: MemoryQueue and the registry   *)
(* of adapters (core/src/jobs.ts), and the claims of SqliteJobQueue          *)
(* (storage/jobs.ts), whose workers are processes with a connection each.    *)
(* The JobWorker of the server claims differently: see module JobWorker.     *)
EXTENDS Integers, Sequences, SequencesExt, FiniteSets

CONSTANTS
  QueueJobs,       \* jobs
  QueueWorkers,    \* callers of one queue
  Adapters,        \* names of queue adapters
  MaxQueueResets   \* bound on resetStuckJobs()

ASSUME QueueAssumption == QueueJobs \subseteq Nat /\ IsFiniteSet(QueueJobs) /\ MaxQueueResets \in Nat

VARIABLES
  pending,     \* MemoryQueue.pending: the jobs in it
  all,         \* MemoryQueue.all: the status of the records in it
  held,        \* the job each worker has of it
  handed,      \* how often each was handed out
  resets,      \* how often each was reset
  claimRow,    \* ingestion_jobs: [status, attempts] of the rows
  wal,         \* commits to that file so far
  claims,      \* claim() of each worker: the row it read, the commits it saw
  taken,       \* the rows next() gave each worker
  driver,      \* whether Database has transaction()
  adapters     \* the registered names and the queue each stands for

memoryQueueVars == <<pending, all, held, handed, resets>>
tableQueueVars == <<claimRow, wal, claims, taken, driver>>
queueVars == <<memoryQueueVars, tableQueueVars, adapters>>

JobStatus == {"none", "pending", "running", "completed", "failed"}

\* The outcomes of markDone() and markFailed(), of complete() and fail().
Outcome == {"completed", "failed"}

QueuesTypeOK ==
  /\ pending \in Seq(QueueJobs) /\ all \in [QueueJobs -> JobStatus]
  /\ held \in [QueueWorkers -> SUBSET QueueJobs]
  /\ handed \in [QueueJobs -> Nat] /\ resets \in [QueueJobs -> Nat]
  /\ claimRow \in [QueueJobs -> [status : JobStatus, attempts : Nat]]
  /\ wal \in Nat /\ driver \in BOOLEAN
  /\ claims \in [QueueWorkers -> SUBSET (QueueJobs \X Nat)]
  /\ taken \in [QueueWorkers -> SUBSET QueueJobs]
  /\ adapters \in [Adapters -> QueueWorkers \cup {"none"}]

QueuesInit ==
  /\ pending = <<>> /\ all = [j \in QueueJobs |-> "none"] /\ held = [w \in QueueWorkers |-> {}]
  /\ handed = [j \in QueueJobs |-> 0] /\ resets = [j \in QueueJobs |-> 0]
  /\ claimRow = [j \in QueueJobs |-> [status |-> "none", attempts |-> 0]]
  /\ wal = 0 /\ claims = [w \in QueueWorkers |-> {}] /\ taken = [w \in QueueWorkers |-> {}]
  /\ driver \in BOOLEAN /\ adapters = [n \in Adapters |-> "none"]

-----------------------------------------------------------------------------
(* MemoryQueue.  Its calls do not overlap: each runs to its end.            *)

\* Ids are counted up, and stay used after close().
EnqueueMemory(j) ==
  /\ all[j] = "none" /\ handed[j] = 0 /\ \A i \in QueueJobs : i < j => handed[i] > 0 \/ all[i] # "none"
  /\ pending' = Append(pending, j) /\ all' = [all EXCEPT ![j] = "pending"]
  /\ UNCHANGED <<held, handed, resets, tableQueueVars, adapters>>

\* The record that was pushed is not looked up again: a job that was marked, or
\* was pushed twice, is handed out all the same.
Dequeue(w) ==
  /\ pending # <<>>
  /\ LET j == Head(pending)
     IN  /\ pending' = Tail(pending) /\ all' = [all EXCEPT ![j] = "running"]
         /\ held' = [held EXCEPT ![w] = @ \cup {j}] /\ handed' = [handed EXCEPT ![j] = @ + 1]
  /\ UNCHANGED <<resets, tableQueueVars, adapters>>

\* markRunning(), markDone() and markFailed() ask nobody who calls.
Mark(w, j, status) ==
  /\ j \in held[w]
  /\ all' = [all EXCEPT ![j] = IF @ = "none" THEN @ ELSE status]
  /\ held' = [held EXCEPT ![w] = IF status = "running" THEN @ ELSE @ \ {j}]
  /\ UNCHANGED <<pending, handed, resets, tableQueueVars, adapters>>

Stuck == {j \in QueueJobs : all[j] = "running"}

\* Mutant: the status is put back, the job is not.
Requeued_StatusOnly(jobs) == pending

\* The records in the order in which they were made.
InOrder(jobs) ==
  CHOOSE q \in Bijection(1 .. Cardinality(jobs), jobs) : \A i, k \in DOMAIN q : i < k => q[i] < q[k]

Requeued(jobs) == pending \o InOrder(jobs)

\* A job somebody still works on counts as stuck.
ResetStuckJobs ==
  /\ \A j \in QueueJobs : resets[j] < MaxQueueResets
  /\ all' = [j \in QueueJobs |-> IF j \in Stuck THEN "pending" ELSE all[j]]
  /\ pending' = Requeued(Stuck)
  /\ resets' = [j \in QueueJobs |-> IF j \in Stuck THEN resets[j] + 1 ELSE resets[j]]
  /\ UNCHANGED <<held, handed, tableQueueVars, adapters>>

\* close() forgets the records; who holds one may still mark it.
CloseMemory ==
  /\ pending' = <<>> /\ all' = [j \in QueueJobs |-> "none"]
  /\ UNCHANGED <<held, handed, resets, tableQueueVars, adapters>>

-----------------------------------------------------------------------------
(* SqliteJobQueue.                                                         *)

InsertRow(j) ==
  /\ claimRow[j].status = "none" /\ \A i \in QueueJobs : i < j => claimRow[i].status # "none"
  /\ claimRow' = [claimRow EXCEPT ![j].status = "pending"] /\ wal' = wal + 1
  /\ UNCHANGED <<claims, taken, driver, memoryQueueVars, adapters>>

\* SELECT ... WHERE status = 'pending' ORDER BY created_at LIMIT 1.
SelectPending(w) ==
  /\ claims[w] = {}
  /\ \E j \in QueueJobs :
       /\ claimRow[j].status = "pending"
       /\ \A i \in QueueJobs : claimRow[i].status = "pending" => j <= i
       /\ claims' = [claims EXCEPT ![w] = {<<j, wal>>}]
  /\ UNCHANGED <<claimRow, wal, taken, driver, memoryQueueVars, adapters>>

\* Mutant: the transaction does not keep what it read.
MayUpdate_Blind(seen) == TRUE

\* SQLite refuses a transaction the write after it read, when another connection
\* has committed since; two statements of their own are not a transaction.
MayUpdate(seen) == driver => seen = wal

\* UPDATE ... WHERE id = ?, whatever the row's status is by now; or the refusal,
\* which next() passes on.
UpdateClaimed(w) ==
  \E c \in claims[w] :
    /\ claims' = [claims EXCEPT ![w] = {}]
    /\ IF MayUpdate(c[2])
       THEN /\ claimRow' = [claimRow EXCEPT ![c[1]] = [status |-> "running", attempts |-> @.attempts + 1]]
            /\ wal' = wal + 1 /\ taken' = [taken EXCEPT ![w] = @ \cup {c[1]}]
       ELSE UNCHANGED <<claimRow, wal, taken>>
    /\ UNCHANGED <<driver, memoryQueueVars, adapters>>

\* complete() and fail() take the worker's name and do not use it.
Conclude(w, j, outcome) ==
  /\ j \in taken[w]
  /\ claimRow' = [claimRow EXCEPT ![j].status = outcome] /\ wal' = wal + 1
  /\ taken' = [taken EXCEPT ![w] = @ \ {j}]
  /\ UNCHANGED <<claims, driver, memoryQueueVars, adapters>>

-----------------------------------------------------------------------------
(* QueueBaseRegistry.                                                      *)

RegisterAdapter(name, queue) ==
  /\ adapters[name] = "none"
  /\ adapters' = [adapters EXCEPT ![name] = queue]
  /\ UNCHANGED <<memoryQueueVars, tableQueueVars>>

MemoryQueueNext ==
  \/ \E j \in QueueJobs : EnqueueMemory(j)
  \/ \E w \in QueueWorkers : Dequeue(w)
  \/ \E w \in QueueWorkers : \E j \in QueueJobs : \E s \in Outcome \cup {"running"} : Mark(w, j, s)
  \/ ResetStuckJobs \/ CloseMemory

TableQueueNext ==
  \/ \E j \in QueueJobs : InsertRow(j)
  \/ \E w \in QueueWorkers : SelectPending(w) \/ UpdateClaimed(w)
  \/ \E w \in QueueWorkers : \E j \in QueueJobs : \E s \in Outcome : Conclude(w, j, s)

QueuesNext ==
  \/ MemoryQueueNext \/ TableQueueNext
  \/ \E n \in Adapters : \E w \in QueueWorkers : RegisterAdapter(n, w)

QueuesSpec == QueuesInit /\ [][QueuesNext]_queueVars

-----------------------------------------------------------------------------
(* Properties.                                                             *)

\* A job list() shows as pending can be dequeued: it stands in the list of
\* waiting jobs, whatever was reset, marked late or handed out twice before.
PendingIsQueued == \A j \in QueueJobs : all[j] = "pending" => j \in ToSet(pending)

\* A job is handed out once, and once more for every reset that found it
\* running; the entries still waiting count among those.
HandedOncePerReset ==
  \A j \in QueueJobs :
    handed[j] + Cardinality({i \in DOMAIN pending : pending[i] = j}) <= 1 + resets[j]

\* "cross-process safe": with a driver that has transactions, two workers that
\* read the same pending row do not both get it, so every row is attempted once.
ClaimedOnce ==
  driver => \A j \in QueueJobs :
    /\ claimRow[j].attempts <= 1
    /\ Cardinality({w \in QueueWorkers : j \in taken[w]}) <= 1

QueuesKeepJobs == PendingIsQueued /\ HandedOncePerReset /\ ClaimedOnce
=============================================================================
