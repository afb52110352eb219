----------------------------- MODULE JobWorker -----------------------------
(***************************************************************************)
(* The ingestion_jobs table of one workspace and the JobWorkers that drain *)
(* it (api/src/job-worker.ts), with the process that owns each worker:     *)
(* boot, the boot-time reset of stuck rows, SIGTERM and crashes            *)
(* (api/src/index.ts).                                                     *)
(*                                                                         *)
(* One action is one SQL statement together with the synchronous code      *)
(* around it.  Workers of different processes interleave at exactly these  *)
(* points; workers that share a process interleave only at the awaits, a   *)
(* subset of the behaviours allowed here.                                  *)
(***************************************************************************)
EXTENDS Naturals, Integers, FiniteSets

CONSTANTS
  Jobs,            \* the rows that may ever be enqueued
  Workers,         \* one JobWorker per process of the deployment
  NoJob,           \* not a job: a worker that handles none
  BatchSize,       \* LIMIT of the SELECT (the code's default is 4)
  ResetOnBoot,     \* REVEX_RESET_STUCK_JOBS = 1
  SqlMayThrow,     \* statements may throw (SQLITE_BUSY, disk full)
  MaxStops,        \* bound on SIGTERMs
  MaxFaults        \* bound on crashes and throwing statements

ASSUME BatchSizeAssumption == BatchSize \in Nat \ {0}
ASSUME NoJobAssumption == NoJob \notin Jobs
ASSUME FlagAssumption == ResetOnBoot \in BOOLEAN /\ SqlMayThrow \in BOOLEAN
ASSUME BoundAssumption == MaxStops \in Nat /\ MaxFaults \in Nat

VARIABLES
  status,       \* ingestion_jobs.status, "absent" before the INSERT
  attempts,     \* ingestion_jobs.attempts
  created,      \* ingestion_jobs.created_at
  now,          \* Date.now(), advanced only where its order matters
  pc,           \* where each worker's loop is
  running,      \* JobWorker.running
  cur,          \* the job whose handler a worker awaits
  rest,         \* the rows of the current batch not reached yet
  resetDue,     \* the boot-time reset of this process has not run yet
  stops,        \* SIGTERMs so far
  faults        \* crashes and throwing statements so far

table == <<status, attempts, created, now>>
loop == <<pc, running, cur, rest>>
counters == <<stops, faults>>
vars == <<table, loop, resetDue, counters>>

Settled == {"done", "failed"}
Statuses == {"absent", "pending", "running"} \cup Settled
Pcs == {"down", "boot", "poll", "mark", "handle"}

\* Mutant: the SELECT also returns rows left behind by another process.
Pending_OrRunning == {j \in Jobs : status[j] \in {"pending", "running"}}

Pending == {j \in Jobs : status[j] = "pending"}
Stuck == {j \in Jobs : status[j] = "running"}

TypeOK ==
  /\ status \in [Jobs -> Statuses]
  /\ attempts \in [Jobs -> Int]
  /\ created \in [Jobs -> Nat]
  /\ now \in Nat
  /\ pc \in [Workers -> Pcs]
  /\ running \in [Workers -> BOOLEAN]
  /\ cur \in [Workers -> Jobs \cup {NoJob}]
  /\ rest \in [Workers -> SUBSET Jobs]
  /\ resetDue \in [Workers -> BOOLEAN]
  /\ stops \in 0 .. MaxStops
  /\ faults \in 0 .. MaxFaults

Init ==
  /\ status = [j \in Jobs |-> "absent"]
  /\ attempts = [j \in Jobs |-> 0]
  /\ created = [j \in Jobs |-> 0]
  /\ now = 0
  /\ pc = [w \in Workers |-> "down"]
  /\ running = [w \in Workers |-> FALSE]
  /\ cur = [w \in Workers |-> NoJob]
  /\ rest = [w \in Workers |-> {}]
  /\ resetDue = [w \in Workers |-> FALSE]
  /\ stops = 0
  /\ faults = 0

Fault ==
  /\ faults < MaxFaults
  /\ faults' = faults + 1
  /\ UNCHANGED stops

-----------------------------------------------------------------------------
(* The producer: SqliteJobQueue.enqueue.  Two rows inserted within one     *)
(* millisecond have the same created_at.                                   *)
Enqueue(j) ==
  /\ status[j] = "absent"
  /\ now' \in {now, now + 1}
  /\ status' = [status EXCEPT ![j] = "pending"]
  /\ created' = [created EXCEPT ![j] = now']
  /\ UNCHANGED <<attempts, loop, resetDue, counters>>

-----------------------------------------------------------------------------
(* The process around a worker. *)

\* Mutant: the boot forgets REVEX_RESET_STUCK_JOBS.
Boot_NoReset(w) ==
  /\ pc[w] = "down"
  /\ pc' = [pc EXCEPT ![w] = "boot"]
  /\ UNCHANGED <<table, running, cur, rest, resetDue, counters>>

Boot(w) ==
  /\ pc[w] = "down"
  /\ pc' = [pc EXCEPT ![w] = "boot"]
  /\ resetDue' = [resetDue EXCEPT ![w] = ResetOnBoot]
  /\ UNCHANGED <<table, running, cur, rest, counters>>

\* The reset closure of start(): it races with the worker of its own process.
ResetStuckJobs(w) ==
  /\ resetDue[w]
  /\ resetDue' = [resetDue EXCEPT ![w] = FALSE]
  /\ status' = [j \in Jobs |-> IF j \in Stuck THEN "pending" ELSE status[j]]
  /\ attempts' =
       [j \in Jobs |-> IF j \in Stuck THEN attempts[j] - 1 ELSE attempts[j]]
  /\ UNCHANGED <<created, now, loop, counters>>

\* Its statement throws: "ignore - best effort".
ResetLost(w) ==
  /\ SqlMayThrow
  /\ resetDue[w]
  /\ Fault
  /\ resetDue' = [resetDue EXCEPT ![w] = FALSE]
  /\ UNCHANGED <<table, loop>>

\* SIGTERM: supervisor.stop() flips the flag and awaits the loop.
Stop(w) ==
  /\ running[w]
  /\ stops < MaxStops
  /\ stops' = stops + 1
  /\ running' = [running EXCEPT ![w] = FALSE]
  /\ UNCHANGED <<table, pc, cur, rest, resetDue, faults>>

\* Mutant: stop() does not await the loop, the process exits in mid-batch.
LoopExit_NoDrain(w) ==
  /\ pc[w] # "down"
  /\ ~running[w]
  /\ pc' = [pc EXCEPT ![w] = "down"]
  /\ cur' = [cur EXCEPT ![w] = NoJob]
  /\ rest' = [rest EXCEPT ![w] = {}]
  /\ resetDue' = [resetDue EXCEPT ![w] = FALSE]
  /\ UNCHANGED <<table, running, counters>>

\* The loop condition is false: stop() resolves and the process exits.
LoopExit(w) ==
  /\ pc[w] = "poll"
  /\ ~running[w]
  /\ pc' = [pc EXCEPT ![w] = "down"]
  /\ resetDue' = [resetDue EXCEPT ![w] = FALSE]
  /\ UNCHANGED <<table, running, cur, rest, counters>>

\* The process is killed: the batch is forgotten, the rows are not.
Crash(w) ==
  /\ pc[w] # "down"
  /\ Fault
  /\ pc' = [pc EXCEPT ![w] = "down"]
  /\ running' = [running EXCEPT ![w] = FALSE]
  /\ cur' = [cur EXCEPT ![w] = NoJob]
  /\ rest' = [rest EXCEPT ![w] = {}]
  /\ resetDue' = [resetDue EXCEPT ![w] = FALSE]
  /\ UNCHANGED table

-----------------------------------------------------------------------------
(* The loop of a worker. *)

\* Mutant: the SELECT has no ORDER BY.
Batches_Unordered ==
  {B \in SUBSET Pending : Cardinality(B) = BatchSize \/ B = Pending}

\* SELECT ... WHERE status = 'pending' ORDER BY created_at ASC LIMIT n.
Batches ==
  {B \in SUBSET Pending :
     /\ Cardinality(B) <= BatchSize
     /\ \/ Cardinality(B) = BatchSize
        \/ B = Pending
     /\ \A b \in B, p \in Pending \ B : created[b] <= created[p]}

\* drain() returns false on an empty SELECT and the loop sleeps.
Select(w) ==
  \/ /\ Pending = {}
     /\ pc' = [pc EXCEPT ![w] = "poll"]
     /\ UNCHANGED rest
  \/ /\ Pending # {}
     /\ pc' = [pc EXCEPT ![w] = "mark"]
     /\ \E B \in Batches : rest' = [rest EXCEPT ![w] = B]

\* start() runs the loop, hence the first SELECT, synchronously.
Start(w) ==
  /\ pc[w] = "boot"
  /\ running' = [running EXCEPT ![w] = TRUE]
  /\ Select(w)
  /\ UNCHANGED <<table, cur, resetDue, counters>>

Poll(w) ==
  /\ pc[w] = "poll"
  /\ running[w]
  /\ Select(w)
  /\ UNCHANGED <<table, running, cur, resetDue, counters>>

\* The UPDATE names the row only: it does not ask whether it is still pending.
MarkRunning(w) ==
  /\ pc[w] = "mark"
  /\ \E j \in rest[w] :
       /\ \A k \in rest[w] : created[j] <= created[k]
       /\ status' = [status EXCEPT ![j] = "running"]
       /\ cur' = [cur EXCEPT ![w] = j]
       /\ rest' = [rest EXCEPT ![w] = @ \ {j}]
  /\ pc' = [pc EXCEPT ![w] = "handle"]
  /\ UNCHANGED <<attempts, created, now, running, resetDue, counters>>

\* It throws out of drain(): the loop drops the batch and polls again.
MarkThrows(w) ==
  /\ SqlMayThrow
  /\ pc[w] = "mark"
  /\ Fault
  /\ pc' = [pc EXCEPT ![w] = "poll"]
  /\ rest' = [rest EXCEPT ![w] = {}]
  /\ UNCHANGED <<table, running, cur, resetDue>>

\* The handler settles and its outcome is recorded; the batch goes on.
Finish(w, outcome) ==
  /\ pc[w] = "handle"
  /\ status' = [status EXCEPT ![cur[w]] = outcome]
  /\ cur' = [cur EXCEPT ![w] = NoJob]
  /\ pc' = [pc EXCEPT ![w] = IF rest[w] = {} THEN "poll" ELSE "mark"]
  /\ UNCHANGED <<attempts, created, now, running, rest, resetDue, counters>>

\* The UPDATE to 'failed' throws: the outcome is lost and so is the batch.
RecordThrows(w) ==
  /\ SqlMayThrow
  /\ pc[w] = "handle"
  /\ Fault
  /\ cur' = [cur EXCEPT ![w] = NoJob]
  /\ rest' = [rest EXCEPT ![w] = {}]
  /\ pc' = [pc EXCEPT ![w] = "poll"]
  /\ UNCHANGED <<table, running, resetDue>>

-----------------------------------------------------------------------------
ProcessStep(w) ==
  \/ Boot(w)
  \/ ResetStuckJobs(w)
  \/ ResetLost(w)
  \/ Stop(w)
  \/ LoopExit(w)
  \/ Crash(w)

LoopStep(w) ==
  \/ Start(w)
  \/ Poll(w)
  \/ MarkRunning(w)
  \/ MarkThrows(w)
  \/ \E outcome \in Settled : Finish(w, outcome)
  \/ RecordThrows(w)

Next ==
  \/ \E j \in Jobs : Enqueue(j)
  \/ \E w \in Workers : ProcessStep(w) \/ LoopStep(w)

Spec == Init /\ [][Next]_vars

(* A process manager restarts what is down, the event loop keeps running   *)
(* due continuations, and the handler settles: its awaits are local file   *)
(* and database calls.  Nothing makes clients enqueue.                     *)
Fairness ==
  \A w \in Workers :
    /\ WF_vars(Boot(w))
    /\ WF_vars(ResetStuckJobs(w))
    /\ WF_vars(LoopExit(w))
    /\ WF_vars(Start(w))
    /\ WF_vars(Poll(w))
    /\ WF_vars(MarkRunning(w))
    /\ WF_vars(\E outcome \in Settled : Finish(w, outcome))

FairSpec == Spec /\ Fairness

-----------------------------------------------------------------------------
(* What the table and the workers promise. *)

Handling(w, j) == pc[w] = "handle" /\ cur[w] = j

\* What one job looks like from outside: the refinement mapping.
Phase(j) ==
  IF \E w \in Workers : Handling(w, j) THEN "active"
  ELSE IF status[j] \in Settled THEN "settled"
  ELSE IF status[j] = "running" THEN "stalled"
  ELSE IF status[j] = "pending" THEN "queued"
  ELSE "absent"

Contract == INSTANCE JobContract WITH phase <- [j \in Jobs |-> Phase(j)]

\* With one worker, every step of the table and the worker is a step of the
\* contract: one handler at a time, none again after an outcome was recorded,
\* even though the reset races with the worker of its own process, the batch
\* was read long before it is used and the UPDATEs test no status.
ImplementsContract == Contract!Spec

\* A recorded outcome is never overwritten: neither the reset, which may run
\* in the middle of a batch, nor the unconditional UPDATE of a stale batch row
\* takes a job out of 'done' or 'failed' (job-worker.ts:104-135, one worker).
OutcomeIsFinal ==
  [][\A j \in Jobs : status[j] \in Settled => status'[j] = status[j]]_vars

\* Rows start in the order they were enqueued (ORDER BY created_at): a row is
\* marked running only when no older row is waiting, unless a reset returned
\* that older row to the queue behind the worker's back.
StartsInOrder ==
  [][\A j, k \in Jobs :
       /\ status[j] = "pending" /\ status'[j] = "running"
       /\ status[k] = "pending" /\ created[k] < created[j]
       => attempts[k] < 0]_vars

\* Shutting down leaves nothing behind (index.ts:323-325): as long as no
\* process was killed and no statement was lost, a row says 'running' only
\* while a worker that is still up awaits its handler, whatever SIGTERMs,
\* reboots and resets happened, and with any number of workers.
RunningIsHandled ==
  faults = 0 => \A j \in Stuck : \E w \in Workers : Handling(w, j)

\* Every row that is enqueued, orphaned rows included, eventually has an
\* outcome and keeps it (REVEX_RESET_STUCK_JOBS=1, workers-jobs.md:32-33).
EveryJobSettles ==
  \A j \in Jobs : status[j] # "absent" ~> [](status[j] \in Settled)
=============================================================================
