----------------------- MODULE IngestPipeline_proofs ------------------------
(***************************************************************************)
(* Proofs about JobWorker, for every set of rows, batch size and bound,    *)
(* and about IngestPipeline, which the worker drives, for every set of     *)
(* uploads and contents and any number of chunks.  What needs a single     *)
(* worker, or that nobody deletes, says so in its statement.               *)
(***************************************************************************)
EXTENDS IngestPipeline, TLAPS

\* At most one process of the deployment runs a worker: the leader.
SingleWorker == \A v, w \in Workers : v = w

-----------------------------------------------------------------------------
(* Type correctness. *)

LEMMA InitType == Init => TypeOK
  BY BoundAssumption DEF Init, TypeOK, Statuses, Pcs

LEMMA FaultType == TypeOK /\ Fault => (faults' \in 0 .. MaxFaults /\ stops' \in 0 .. MaxStops)
  BY BoundAssumption DEF TypeOK, Fault

LEMMA SelectType ==
  ASSUME TypeOK, NEW w \in Workers, Select(w)
  PROVE  pc' \in [Workers -> Pcs] /\ rest' \in [Workers -> SUBSET Jobs]
<1>1. CASE Pending = {}
  BY <1>1 DEF Select, TypeOK, Pcs
<1>2. CASE Pending # {}
  <2>1. PICK B \in SUBSET Pending : rest' = [rest EXCEPT ![w] = B]
    BY <1>2 DEF Select, Batches
  <2>2. B \in SUBSET Jobs
    BY DEF Pending
  <2> QED BY <1>2, <2>1, <2>2 DEF Select, TypeOK, Pcs
<1> QED BY <1>1, <1>2

LEMMA NextType == TypeOK /\ [Next]_vars => TypeOK'
<1> SUFFICES ASSUME TypeOK, [Next]_vars PROVE TypeOK'
  OBVIOUS
<1>1. ASSUME NEW j \in Jobs, Enqueue(j) PROVE TypeOK'
  BY <1>1 DEF TypeOK, Enqueue, loop, counters, Statuses
<1>2. ASSUME NEW w \in Workers, ProcessStep(w) PROVE TypeOK'
  <2>1. CASE Boot(w)
    BY <2>1, FlagAssumption DEF TypeOK, Boot, table, counters, Pcs
  <2>2. CASE ResetStuckJobs(w)
    BY <2>2 DEF TypeOK, ResetStuckJobs, loop, counters, Statuses
  <2>3. CASE ResetLost(w)
    BY <2>3, FaultType DEF TypeOK, ResetLost, loop, table
  <2>4. CASE Stop(w)
    BY <2>4, BoundAssumption DEF TypeOK, Stop, table
  <2>5. CASE LoopExit(w)
    BY <2>5 DEF TypeOK, LoopExit, table, counters, Pcs
  <2>6. CASE Crash(w)
    BY <2>6, FaultType DEF TypeOK, Crash, table, Pcs
  <2> QED BY <1>2, <2>1, <2>2, <2>3, <2>4, <2>5, <2>6 DEF ProcessStep
<1>3. ASSUME NEW w \in Workers, LoopStep(w) PROVE TypeOK'
  <2>1. CASE Start(w)
    BY <2>1, SelectType DEF TypeOK, Start, table, counters
  <2>2. CASE Poll(w)
    BY <2>2, SelectType DEF TypeOK, Poll, table, counters
  <2>3. CASE MarkRunning(w)
    BY <2>3 DEF TypeOK, MarkRunning, counters, Statuses, Pcs
  <2>4. CASE MarkThrows(w)
    BY <2>4, FaultType DEF TypeOK, MarkThrows, table, Pcs
  <2>5. ASSUME NEW outcome \in Settled, Finish(w, outcome) PROVE TypeOK'
    BY <2>5 DEF TypeOK, Finish, counters, Statuses, Settled, Pcs
  <2>6. CASE RecordThrows(w)
    BY <2>6, FaultType DEF TypeOK, RecordThrows, table, Pcs
  <2> QED BY <1>3, <2>1, <2>2, <2>3, <2>4, <2>5, <2>6 DEF LoopStep
<1>4. CASE UNCHANGED vars
  BY <1>4 DEF TypeOK, vars, table, loop, counters
<1> QED BY <1>1, <1>2, <1>3, <1>4 DEF Next

\* Every variable of the table and of the workers keeps its type, for any
\* number of rows and workers and any batch size.
THEOREM TypeCorrect == Spec => []TypeOK
  BY InitType, NextType, PTL DEF Spec

-----------------------------------------------------------------------------
(* A running row is being handled, as long as nothing was cut off. *)

LEMMA FaultCounts == TypeOK /\ Fault => faults' # 0
  BY DEF TypeOK, Fault

LEMMA SelectKeepsHandling ==
  ASSUME TypeOK, NEW w \in Workers, pc[w] # "handle", Select(w), UNCHANGED cur,
         NEW v \in Workers, NEW j \in Jobs, Handling(v, j)
  PROVE  Handling(v, j)'
  BY DEF Select, Handling, TypeOK

LEMMA NextRunningIsHandled ==
  TypeOK /\ RunningIsHandled /\ [Next]_vars => RunningIsHandled'
<1> SUFFICES ASSUME TypeOK, RunningIsHandled, [Next]_vars, faults' = 0,
                    NEW j \in Jobs, status'[j] = "running"
             PROVE  \E w \in Workers : Handling(w, j)'
  BY DEF RunningIsHandled, Stuck
<1> USE DEF TypeOK, Handling
<1>1. ASSUME NEW k \in Jobs, Enqueue(k) PROVE \E w \in Workers : Handling(w, j)'
  BY <1>1 DEF Enqueue, loop, counters, RunningIsHandled, Stuck
<1>2. ASSUME NEW w \in Workers, ProcessStep(w)
      PROVE  \E v \in Workers : Handling(v, j)'
  <2>1. CASE Boot(w)
    BY <2>1 DEF Boot, table, counters, RunningIsHandled, Stuck
  <2>2. CASE ResetStuckJobs(w)
    BY <2>2 DEF ResetStuckJobs, loop, counters, RunningIsHandled, Stuck
  <2>3. CASE ResetLost(w)
    BY <2>3, FaultCounts DEF ResetLost
  <2>4. CASE Stop(w)
    BY <2>4 DEF Stop, table, RunningIsHandled, Stuck
  <2>5. CASE LoopExit(w)
    BY <2>5 DEF LoopExit, table, counters, RunningIsHandled, Stuck
  <2>6. CASE Crash(w)
    BY <2>6, FaultCounts DEF Crash
  <2> QED BY <1>2, <2>1, <2>2, <2>3, <2>4, <2>5, <2>6 DEF ProcessStep
<1>3. ASSUME NEW w \in Workers, LoopStep(w)
      PROVE  \E v \in Workers : Handling(v, j)'
  <2>1. CASE Start(w) \/ Poll(w)
    <3>1. Select(w) /\ UNCHANGED <<table, cur, counters>> /\ pc[w] # "handle"
      BY <2>1 DEF Start, Poll
    <3>2. PICK v \in Workers : Handling(v, j)
      BY <3>1 DEF table, counters, RunningIsHandled, Stuck
    <3> QED BY <3>1, <3>2, SelectKeepsHandling
  <2>2. CASE MarkRunning(w)
    <3>1. PICK k \in rest[w] : /\ status' = [status EXCEPT ![k] = "running"]
                               /\ cur' = [cur EXCEPT ![w] = k]
      BY <2>2 DEF MarkRunning
    <3>2. CASE j = k
      BY <2>2, <3>1, <3>2 DEF MarkRunning
    <3>3. CASE j # k
      BY <2>2, <3>1, <3>3 DEF MarkRunning, RunningIsHandled, Stuck, counters
    <3> QED BY <3>2, <3>3
  <2>3. CASE MarkThrows(w)
    BY <2>3, FaultCounts DEF MarkThrows
  <2>4. ASSUME NEW outcome \in Settled, Finish(w, outcome)
        PROVE  \E v \in Workers : Handling(v, j)'
    BY <2>4 DEF Finish, Settled, RunningIsHandled, Stuck, counters
  <2>5. CASE RecordThrows(w)
    BY <2>5, FaultCounts DEF RecordThrows
  <2> QED BY <1>3, <2>1, <2>2, <2>3, <2>4, <2>5 DEF LoopStep
<1>4. CASE UNCHANGED vars
  BY <1>4 DEF vars, table, loop, counters, RunningIsHandled, Stuck
<1> QED BY <1>1, <1>2, <1>3, <1>4 DEF Next

\* With any number of workers: a shutdown that waits for its loop leaves no
\* row 'running', resets and reboots included (index.ts:323-325).
THEOREM RunningIsHandledCorrect == Spec => []RunningIsHandled
<1>1. Init => RunningIsHandled
  BY DEF Init, RunningIsHandled, Stuck
<1> QED BY <1>1, NextRunningIsHandled, TypeCorrect, PTL DEF Spec

-----------------------------------------------------------------------------
(* One worker: the batch it read stays valid until it is used. *)

\* The rows of the batch are still pending and the row being handled has no
\* outcome, although neither UPDATE of the worker asks for that.
LoopInv ==
  \A w \in Workers :
    /\ \A j \in rest[w] : status[j] = "pending"
    /\ pc[w] = "handle" => /\ cur[w] \in Jobs \ rest[w]
                           /\ status[cur[w]] \in {"pending", "running"}

\* Rows that wait behind the batch are younger than it or were reset, and the
\* clock is not behind any row.
OrderInv ==
  /\ \A j \in Jobs : created[j] <= now /\ attempts[j] <= 0
  /\ \A w \in Workers : \A j \in rest[w] : \A k \in Pending \ rest[w] :
       created[k] < created[j] => attempts[k] < 0

LEMMA SelectLoopInv ==
  ASSUME TypeOK, LoopInv, OrderInv, NEW w \in Workers, pc[w] # "handle",
         Select(w), UNCHANGED <<table, cur>>
  PROVE  LoopInv' /\ OrderInv'
<1>1. CASE Pending = {}
  BY <1>1 DEF Select, TypeOK, LoopInv, OrderInv, Pending, table
<1>2. CASE Pending # {}
  <2>1. PICK B \in Batches : rest' = [rest EXCEPT ![w] = B]
    BY <1>2 DEF Select
  <2>2. /\ B \subseteq Pending
        /\ \A b \in B, p \in Pending \ B : created[b] <= created[p]
    BY DEF Batches
  <2>3. LoopInv'
    BY <1>2, <2>1, <2>2 DEF Select, TypeOK, LoopInv, Pending, table
  <2>4. Pending \subseteq Jobs
    BY DEF Pending
  <2>5. OrderInv'
    <3>1. SUFFICES ASSUME NEW v \in Workers, NEW j \in rest'[v], NEW k \in Pending \ rest'[v],
                          created[k] < created[j]
                   PROVE  attempts[k] < 0
      BY <2>1 DEF OrderInv, table, Pending
    <3>2. CASE v = w
      BY <2>1, <2>2, <2>4, <3>1, <3>2 DEF TypeOK
    <3>3. CASE v # w
      BY <2>1, <3>1, <3>3 DEF TypeOK, OrderInv
    <3> QED BY <3>2, <3>3
  <2> QED BY <2>3, <2>5
<1> QED BY <1>1, <1>2

LEMMA NextLoopInv ==
  ASSUME SingleWorker, TypeOK, LoopInv, OrderInv, [Next]_vars
  PROVE  LoopInv' /\ OrderInv'
<1> USE DEF TypeOK
<1>1. ASSUME NEW j \in Jobs, Enqueue(j) PROVE LoopInv' /\ OrderInv'
  BY <1>1 DEF Enqueue, loop, LoopInv, OrderInv, Pending
<1>2. ASSUME NEW w \in Workers, ProcessStep(w) PROVE LoopInv' /\ OrderInv'
  <2>1. CASE Boot(w)
    BY <2>1 DEF Boot, table, LoopInv, OrderInv, Pending
  <2>2. CASE ResetStuckJobs(w)
    BY <2>2 DEF ResetStuckJobs, Stuck, loop, LoopInv, OrderInv, Pending
  <2>3. CASE ResetLost(w)
    BY <2>3 DEF ResetLost, table, loop, LoopInv, OrderInv, Pending
  <2>4. CASE Stop(w)
    BY <2>4 DEF Stop, table, LoopInv, OrderInv, Pending
  <2>5. CASE LoopExit(w)
    BY <2>5 DEF LoopExit, table, LoopInv, OrderInv, Pending
  <2>6. CASE Crash(w)
    BY <2>6 DEF Crash, table, LoopInv, OrderInv, Pending
  <2> QED BY <1>2, <2>1, <2>2, <2>3, <2>4, <2>5, <2>6 DEF ProcessStep
<1>3. ASSUME NEW w \in Workers, LoopStep(w) PROVE LoopInv' /\ OrderInv'
  <2>1. CASE Start(w) \/ Poll(w)
    BY <2>1, SelectLoopInv DEF Start, Poll
  <2>2. CASE MarkRunning(w)
    <3>1. PICK j \in rest[w] : /\ \A k \in rest[w] : created[j] <= created[k]
                               /\ status' = [status EXCEPT ![j] = "running"]
                               /\ cur' = [cur EXCEPT ![w] = j]
                               /\ rest' = [rest EXCEPT ![w] = @ \ {j}]
      BY <2>2 DEF MarkRunning
    <3>2. LoopInv'
      BY <2>2, <3>1 DEF MarkRunning, LoopInv, SingleWorker
    <3>3. OrderInv'
      BY <2>2, <3>1 DEF MarkRunning, OrderInv, Pending, SingleWorker
    <3> QED BY <3>2, <3>3
  <2>3. CASE MarkThrows(w)
    BY <2>3 DEF MarkThrows, table, LoopInv, OrderInv, Pending
  <2>4. ASSUME NEW outcome \in Settled, Finish(w, outcome) PROVE LoopInv' /\ OrderInv'
    BY <2>4 DEF Finish, Settled, LoopInv, OrderInv, Pending, SingleWorker
  <2>5. CASE RecordThrows(w)
    BY <2>5 DEF RecordThrows, table, LoopInv, OrderInv, Pending
  <2> QED BY <1>3, <2>1, <2>2, <2>3, <2>4, <2>5 DEF LoopStep
<1>4. CASE UNCHANGED vars
  BY <1>4 DEF vars, table, loop, LoopInv, OrderInv, Pending
<1> QED BY <1>1, <1>2, <1>3, <1>4 DEF Next

LEMMA LoopInvCorrect ==
  ASSUME SingleWorker
  PROVE  Spec => [](LoopInv /\ OrderInv)
<1>1. Init => LoopInv /\ OrderInv
  BY DEF Init, LoopInv, OrderInv, Pending
<1>2. TypeOK /\ (LoopInv /\ OrderInv) /\ [Next]_vars => (LoopInv /\ OrderInv)'
  BY NextLoopInv
<1> QED BY <1>1, <1>2, TypeCorrect, PTL DEF Spec

-----------------------------------------------------------------------------
(* One worker: outcomes are final and rows start in order. *)

LEMMA OutcomeStep ==
  ASSUME TypeOK, LoopInv, [Next]_vars, NEW j \in Jobs, status[j] \in Settled
  PROVE  status'[j] = status[j]
<1> USE DEF TypeOK, Settled
<1>1. ASSUME NEW k \in Jobs, Enqueue(k) PROVE status'[j] = status[j]
  BY <1>1 DEF Enqueue
<1>2. ASSUME NEW w \in Workers, ProcessStep(w) PROVE status'[j] = status[j]
  BY <1>2 DEF ProcessStep, Boot, ResetStuckJobs, ResetLost, Stop, LoopExit,
              Crash, Stuck, table
<1>3. ASSUME NEW w \in Workers, LoopStep(w) PROVE status'[j] = status[j]
  BY <1>3 DEF LoopStep, Start, Poll, MarkRunning, MarkThrows, Finish,
              RecordThrows, LoopInv, table
<1> QED BY <1>1, <1>2, <1>3 DEF Next, vars, table

\* With one worker nothing overwrites a recorded outcome, whatever the reset
\* of the same process and the faults do.
THEOREM OutcomeIsFinalCorrect ==
  ASSUME SingleWorker
  PROVE  Spec => OutcomeIsFinal
<1>1. TypeOK /\ (LoopInv /\ OrderInv) /\ [Next]_vars
      => [\A j \in Jobs : status[j] \in Settled => status'[j] = status[j]]_vars
  BY OutcomeStep
<1> QED BY <1>1, LoopInvCorrect, TypeCorrect, PTL DEF Spec, OutcomeIsFinal

LEMMA StartStep ==
  ASSUME TypeOK, OrderInv, [Next]_vars, NEW j \in Jobs, NEW k \in Jobs,
         status[j] = "pending", status'[j] = "running",
         status[k] = "pending", created[k] < created[j]
  PROVE  attempts[k] < 0
<1> USE DEF TypeOK, Settled
<1>1. \A w \in Workers : LoopStep(w) => MarkRunning(w)
  BY DEF LoopStep, Start, Poll, MarkThrows, Finish, RecordThrows, table
<1>2. \A w \in Workers : ~ProcessStep(w)
  BY DEF ProcessStep, Boot, ResetStuckJobs, ResetLost, Stop, LoopExit, Crash,
         Stuck, table
<1>3. PICK w \in Workers : MarkRunning(w)
  BY <1>1, <1>2 DEF Next, Enqueue, vars, table
<1>4. j \in rest[w] /\ \A i \in rest[w] : created[j] <= created[i]
  BY <1>3 DEF MarkRunning
<1> QED BY <1>4 DEF OrderInv, Pending

\* With one worker rows start in the order they were enqueued, except rows
\* that a reset put back into the queue.
THEOREM StartsInOrderCorrect ==
  ASSUME SingleWorker
  PROVE  Spec => StartsInOrder
<1>1. TypeOK /\ (LoopInv /\ OrderInv) /\ [Next]_vars
      => [\A j, k \in Jobs :
            /\ status[j] = "pending" /\ status'[j] = "running"
            /\ status[k] = "pending" /\ created[k] < created[j]
            => attempts[k] < 0]_vars
  BY StartStep
<1> QED BY <1>1, LoopInvCorrect, TypeCorrect, PTL DEF Spec, StartsInOrder

-----------------------------------------------------------------------------
(* One worker: the table and its worker implement the contract. *)

PhaseFn == [j \in Jobs |-> Phase(j)]

\* What Phase depends on.
LEMMA PhaseUnchanged ==
  ASSUME NEW j \in Jobs, status'[j] = status[j],
         \A w \in Workers : Handling(w, j)' <=> Handling(w, j)
  PROVE  Phase(j)' = Phase(j)
  BY DEF Phase

\* A step that neither touches the statuses nor starts or ends a handler is
\* invisible to the contract.
LEMMA Stutter ==
  ASSUME UNCHANGED status,
         \A w \in Workers, j \in Jobs : Handling(w, j)' <=> Handling(w, j)
  PROVE  UNCHANGED PhaseFn
  BY PhaseUnchanged DEF PhaseFn

\* A handler that ends without a recorded outcome abandons its job.
LEMMA CutOff ==
  ASSUME SingleWorker, TypeOK, LoopInv, NEW w \in Workers,
         pc'[w] # "handle", UNCHANGED status
  PROVE  [Contract!Next]_PhaseFn
<1>1. CASE pc[w] # "handle"
  BY <1>1, Stutter DEF Handling, SingleWorker
<1>2. CASE pc[w] = "handle"
  <2>1. PICK j \in Jobs : j = cur[w]
    BY <1>2 DEF LoopInv
  <2>2. \A k \in Jobs \ {j} : Phase(k)' = Phase(k)
    BY <2>1, PhaseUnchanged DEF Handling, SingleWorker
  <2>3. Phase(j) = "active"
    BY <1>2, <2>1 DEF Phase, Handling
  <2>4. Phase(j)' \in {"stalled", "queued"}
    BY <1>2, <2>1 DEF Phase, Handling, SingleWorker, LoopInv, Settled
  <2>5. Contract!Abandon(j)
    BY <2>2, <2>3, <2>4 DEF Contract!Abandon, PhaseFn
  <2> QED BY <2>5 DEF Contract!Next
<1> QED BY <1>1, <1>2

LEMMA StepImplements ==
  ASSUME SingleWorker, TypeOK, LoopInv, [Next]_vars
  PROVE  [Contract!Next]_PhaseFn
<1> USE DEF TypeOK
<1>1. ASSUME NEW j \in Jobs, Enqueue(j) PROVE [Contract!Next]_PhaseFn
  <2>1. \A w \in Workers, k \in Jobs : Handling(w, k)' <=> Handling(w, k)
    BY <1>1 DEF Enqueue, Handling, loop
  <2>2. \A k \in Jobs \ {j} : Phase(k)' = Phase(k)
    BY <1>1, <2>1, PhaseUnchanged DEF Enqueue
  <2>3. \A w \in Workers : ~Handling(w, j)
    BY <1>1 DEF Enqueue, Handling, LoopInv
  <2>4. Phase(j) = "absent" /\ Phase(j)' = "queued"
    BY <1>1, <2>1, <2>3 DEF Phase, Enqueue, Settled
  <2>5. Contract!Submit(j)
    BY <2>2, <2>4 DEF Contract!Submit, PhaseFn
  <2> QED BY <2>5 DEF Contract!Next
<1>2. ASSUME NEW w \in Workers, ProcessStep(w) PROVE [Contract!Next]_PhaseFn
  <2>1. CASE Boot(w)
    BY <2>1, Stutter DEF Boot, table, Handling
  <2>2. CASE ResetStuckJobs(w)
    <3>1. \A v \in Workers, k \in Jobs : Handling(v, k)' <=> Handling(v, k)
      BY <2>2 DEF ResetStuckJobs, Handling, loop
    <3>2. \A j \in Jobs : Phase(j)' = IF Phase(j) = "stalled" THEN "queued" ELSE Phase(j)
      BY <2>2, <3>1 DEF ResetStuckJobs, Stuck, Phase, Settled
    <3>3. CASE \E j \in Jobs : Phase(j) = "stalled"
      <4>1. Contract!Requeue
        BY <3>2, <3>3 DEF Contract!Requeue, PhaseFn
      <4> QED BY <4>1 DEF Contract!Next
    <3>4. CASE ~\E j \in Jobs : Phase(j) = "stalled"
      BY <3>2, <3>4 DEF PhaseFn
    <3> QED BY <3>3, <3>4
  <2>3. CASE ResetLost(w)
    BY <2>3, Stutter DEF ResetLost, table, loop, Handling
  <2>4. CASE Stop(w)
    BY <2>4, Stutter DEF Stop, table, Handling
  <2>5. CASE LoopExit(w)
    BY <2>5, CutOff DEF LoopExit, table
  <2>6. CASE Crash(w)
    BY <2>6, CutOff DEF Crash, table
  <2> QED BY <1>2, <2>1, <2>2, <2>3, <2>4, <2>5, <2>6 DEF ProcessStep
<1>3. ASSUME NEW w \in Workers, LoopStep(w) PROVE [Contract!Next]_PhaseFn
  <2>1. CASE Start(w) \/ Poll(w)
    <3>1. pc'[w] # "handle" /\ UNCHANGED status
      BY <2>1 DEF Start, Poll, Select, table
    <3> QED BY <3>1, CutOff
  <2>2. CASE MarkRunning(w)
    <3>1. PICK j \in rest[w] : /\ status' = [status EXCEPT ![j] = "running"]
                               /\ cur' = [cur EXCEPT ![w] = j]
      BY <2>2 DEF MarkRunning
    <3>2. \A k \in Jobs : ~Handling(w, k)
      BY <2>2 DEF MarkRunning, Handling
    <3>3. \A k \in Jobs : Handling(w, k)' <=> k = j
      BY <2>2, <3>1 DEF MarkRunning, Handling
    <3>4. \A k \in Jobs : Phase(k) # "active"
      BY <3>2 DEF Phase, SingleWorker, Settled
    <3>5. \A k \in Jobs \ {j} : Phase(k)' = Phase(k)
      BY <3>1, <3>2, <3>3, PhaseUnchanged DEF SingleWorker
    <3>6. Phase(j) = "queued" /\ Phase(j)' = "active"
      BY <3>2, <3>3 DEF Phase, LoopInv, SingleWorker, Settled
    <3>7. Contract!Claim(j)
      BY <3>4, <3>5, <3>6 DEF Contract!Claim, PhaseFn
    <3> QED BY <3>7 DEF Contract!Next
  <2>3. CASE MarkThrows(w)
    BY <2>3, CutOff DEF MarkThrows, table
  <2>4. ASSUME NEW outcome \in Settled, Finish(w, outcome) PROVE [Contract!Next]_PhaseFn
    <3>1. PICK j \in Jobs : j = cur[w] /\ Handling(w, j)
      BY <2>4 DEF Finish, LoopInv, Handling
    <3>2. \A k \in Jobs : ~Handling(w, k)'
      BY <2>4, NoJobAssumption DEF Finish, Handling
    <3>3. \A k \in Jobs \ {j} : Phase(k)' = Phase(k)
      BY <2>4, <3>1, <3>2, PhaseUnchanged DEF Finish, Handling, SingleWorker
    <3>4. Phase(j) = "active" /\ Phase(j)' = "settled"
      BY <2>4, <3>1, <3>2 DEF Finish, Phase, SingleWorker
    <3>5. Contract!Settle(j)
      BY <3>3, <3>4 DEF Contract!Settle, PhaseFn
    <3> QED BY <3>5 DEF Contract!Next
  <2>5. CASE RecordThrows(w)
    BY <2>5, CutOff DEF RecordThrows, table
  <2> QED BY <1>3, <2>1, <2>2, <2>3, <2>4, <2>5 DEF LoopStep
<1>4. CASE UNCHANGED vars
  BY <1>4, Stutter DEF vars, table, loop, Handling
<1> QED BY <1>1, <1>2, <1>3, <1>4 DEF Next

\* The single-worker queue implements the contract: one handler at a time, and
\* a job is handled again only after its handler was cut off.
THEOREM ImplementsContractCorrect ==
  ASSUME SingleWorker
  PROVE  Spec => ImplementsContract
<1>1. Init => Contract!Init
  BY DEF Init, Contract!Init, Phase, Handling, Settled
<1>2. TypeOK /\ (LoopInv /\ OrderInv) /\ [Next]_vars => [Contract!Next]_PhaseFn
  BY StepImplements
<1> QED BY <1>1, <1>2, LoopInvCorrect, TypeCorrect, PTL
        DEF Spec, ImplementsContract, Contract!Spec, PhaseFn

-----------------------------------------------------------------------------
(* IngestPipeline.                                                         *)

-----------------------------------------------------------------------------
(* The queue under the pipeline.  A step of the pipeline is a step of the  *)
(* queue, leaves it alone, or is a fault outside it.                       *)

FaultElsewhere == Fault /\ UNCHANGED <<table, loop, resetDue>>

LEMMA HandlerKeepsQueue ==
  ASSUME NEW w \in Workers, HandlerStep(w)
  PROVE  UNCHANGED <<vars, request, bytes>>
  BY DEF HandlerStep, Advance, OpenWorkspace, LoadBytes, ReadRow, Embed, StorePart,
         Publish, Audit, CatchStatus, CatchAudit

LEMMA RecordIsLoopStep ==
  ASSUME NEW w \in Workers, Record(w)
  PROVE  LoopStep(w)
  BY DEF Record, Conclude, LoopStep, Settled

LEMMA BackgroundIsQueueStep ==
  ASSUME NEW w \in Workers, Background(w)
  PROVE  ProcessStep(w) \/ LoopStep(w)
  BY DEF Background, ProcessStep, LoopStep

LEMMA QueueStep == [IngestNext]_allVars => [Next]_vars \/ FaultElsewhere
<1> SUFFICES ASSUME [IngestNext]_allVars PROVE [Next]_vars \/ FaultElsewhere
  OBVIOUS
<1>1. ASSUME NEW j \in Jobs, RequestStep(j) \/ Abort(j) PROVE [Next]_vars \/ FaultElsewhere
  BY <1>1 DEF RequestStep, Look, Upsert, PutBytes, Accept, Abort, Next, FaultElsewhere
<1>2. ASSUME NEW d \in Docs, Delete(d) PROVE UNCHANGED vars
  BY <1>2 DEF Delete
<1>3. ASSUME NEW w \in Workers,
             Begin(w) \/ HandlerStep(w) \/ HandlerThrows(w) \/ Record(w) \/ Background(w)
      PROVE  [Next]_vars \/ FaultElsewhere
  <2>1. CASE Begin(w)
    BY <2>1 DEF Begin, Next, LoopStep
  <2>2. CASE HandlerStep(w)
    BY <2>2, HandlerKeepsQueue
  <2>3. CASE HandlerThrows(w)
    BY <2>3 DEF HandlerThrows, FaultElsewhere
  <2>4. CASE Record(w)
    BY <2>4, RecordIsLoopStep DEF Next
  <2>5. CASE Background(w)
    BY <2>5, BackgroundIsQueueStep DEF Next
  <2> QED BY <1>3, <2>1, <2>2, <2>3, <2>4, <2>5
<1>4. CASE UNCHANGED allVars
  BY <1>4 DEF allVars
<1> QED BY <1>1, <1>2, <1>3, <1>4 DEF IngestNext

-----------------------------------------------------------------------------
(* Type correctness. *)

LEMMA Throws ==
  /\ DOMAIN Thrown = {"open", "load", "row", "embed", "store", "publish", "audit",
                      "catch", "catchaudit", "return"}
  /\ \A at \in DOMAIN Thrown : Thrown[at] \in {"throw", "catch"}
  BY DEF Thrown

LEMMA Steps ==
  HandlerPcs = {"idle", "open", "load", "row", "embed", "store", "publish", "audit",
                "catch", "catchaudit", "return", "throw"}
  BY Throws DEF HandlerPcs

LEMMA IngestInitType == IngestInit => IngestTypeOK
  BY InitType, Steps DEF IngestInit, IngestTypeOK, Requests, DocStatuses

LEMMA QueueType == IngestTypeOK /\ [IngestNext]_allVars => TypeOK'
<1> SUFFICES ASSUME TypeOK, [Next]_vars \/ FaultElsewhere PROVE TypeOK'
  BY QueueStep DEF IngestTypeOK
<1>1. CASE FaultElsewhere
  BY <1>1, FaultType DEF FaultElsewhere, TypeOK, table, loop
<1> QED BY <1>1, NextType

LEMMA ChunksType ==
  ASSUME IngestTypeOK, NEW d, NEW p, NEW j \in Jobs \cup {NoJob},
         chunks' = [chunks EXCEPT ![d][p] = j]
  PROVE  chunks' \in [Docs -> [Parts -> Jobs \cup {NoJob}]]
  BY DEF IngestTypeOK

LEMMA IngestNextType == IngestTypeOK /\ [IngestNext]_allVars => IngestTypeOK'
<1> SUFFICES ASSUME IngestTypeOK, [IngestNext]_allVars PROVE IngestTypeOK'
  OBVIOUS
<1>0. TypeOK'
  BY QueueType
<1> USE DocOfAssumption, PartsOfAssumption DEF IngestTypeOK, Requests, DocStatuses
<1>1. ASSUME NEW j \in Jobs, RequestStep(j) \/ Abort(j) PROVE IngestTypeOK'
  BY <1>0, <1>1 DEF RequestStep, Look, Upsert, PutBytes, Accept, Abort, handler
<1>2. ASSUME NEW d \in Docs, Delete(d) PROVE IngestTypeOK'
  BY <1>0, <1>2 DEF Delete, handler
<1>3. ASSUME NEW w \in Workers, Begin(w) PROVE IngestTypeOK'
  BY <1>0, <1>3, Steps DEF Begin, pipeline
<1>4. ASSUME NEW w \in Workers, HandlerStep(w) PROVE IngestTypeOK'
  <2> USE <1>0, Steps DEF Advance, SetStatus
  <2>1. CASE OpenWorkspace(w)
    BY <2>1 DEF OpenWorkspace
  <2>2. CASE LoadBytes(w)
    BY <2>2 DEF LoadBytes
  <2>3. CASE ReadRow(w)
    BY <2>3 DEF ReadRow
  <2>4. CASE Embed(w)
    BY <2>4 DEF Embed
  <2>5. CASE StorePart(w)
    <3>1. cur[w] \in Jobs \cup {NoJob}
      BY DEF TypeOK
    <3>2. chunks' \in [Docs -> [Parts -> Jobs \cup {NoJob}]]
      BY <2>5, <3>1, ChunksType DEF StorePart
    <3>3. part[w] + 1 \in Nat
      OBVIOUS
    <3> QED BY <2>5, <3>2, <3>3 DEF StorePart
  <2>6. CASE Publish(w)
    BY <2>6 DEF Publish
  <2>7. CASE Audit(w)
    BY <2>7 DEF Audit
  <2>8. CASE CatchStatus(w)
    BY <2>8 DEF CatchStatus
  <2>9. CASE CatchAudit(w)
    BY <2>9 DEF CatchAudit
  <2> QED BY <1>4, <2>1, <2>2, <2>3, <2>4, <2>5, <2>6, <2>7, <2>8, <2>9 DEF HandlerStep
<1>5. ASSUME NEW w \in Workers, HandlerThrows(w) PROVE IngestTypeOK'
  <2>1. hpc[w] \in DOMAIN Thrown
    BY <1>5, Throws, Steps, MishapsAssumption DEF HandlerThrows
  <2>2. Thrown[hpc[w]] \in HandlerPcs
    BY <2>1, Throws, Steps
  <2> QED BY <1>0, <1>5, <2>2 DEF HandlerThrows, pipeline
<1>6. ASSUME NEW w \in Workers, Record(w) PROVE IngestTypeOK'
  BY <1>0, <1>6, Steps DEF Record, pipeline
<1>7. ASSUME NEW w \in Workers, Background(w) PROVE IngestTypeOK'
  BY <1>0, <1>7, Steps DEF Background, pipeline, handler
<1>8. CASE UNCHANGED allVars
  BY <1>0, <1>8 DEF allVars, pipeline, handler
<1> QED BY <1>1, <1>2, <1>3, <1>4, <1>5, <1>6, <1>7, <1>8 DEF IngestNext

\* The variables of the requests, the documents and the handlers keep their
\* types, and those of the queue under them, whatever throws or is killed.
THEOREM IngestTypeCorrect == IngestSpec => []IngestTypeOK
  BY IngestInitType, IngestNextType, PTL DEF IngestSpec

-----------------------------------------------------------------------------
(* A handler runs for an upload that was accepted. *)

\* A handler runs exactly while its worker's loop awaits it, for a row of the
\* queue, and what a worker has read of the queue are rows of it.
HandlerInv ==
  \A w \in Workers :
    /\ hpc[w] # "idle" <=> pc[w] = "handle"
    /\ pc[w] = "handle" => cur[w] \in Jobs /\ status[cur[w]] # "absent"
    /\ \A j \in rest[w] : status[j] # "absent"

\* What each step of an upload has left behind.
UploadInv ==
  \A j \in Jobs :
    /\ request[j] \in {"rowed", "stored", "accepted"} => docStatus[DocOf[j]] # "absent"
    /\ request[j] \in {"stored", "accepted"} => DocOf[j] \in bytes
    /\ status[j] # "absent" => request[j] = "accepted"

\* No statement deletes a row of the queue, and only the last step of an
\* upload inserts one.
LEMMA RowsStay ==
  ASSUME IngestTypeOK, HandlerInv, [IngestNext]_allVars, NEW j \in Jobs
  PROVE  /\ status[j] # "absent" => status'[j] # "absent"
         /\ status'[j] # "absent" => status[j] # "absent" \/ Accept(j)
<1> USE DEF IngestTypeOK, TypeOK
<1>1. ASSUME NEW k \in Jobs, RequestStep(k) \/ Abort(k)
      PROVE  /\ status[j] # "absent" => status'[j] # "absent"
             /\ status'[j] # "absent" => status[j] # "absent" \/ Accept(j)
  <2>1. CASE Accept(k)
    BY <2>1 DEF Accept, Enqueue
  <2>2. CASE ~Accept(k)
    BY <1>1, <2>2 DEF RequestStep, Look, Upsert, PutBytes, Abort, vars, table
  <2> QED BY <2>1, <2>2
<1>2. ASSUME NEW d \in Docs, Delete(d) PROVE UNCHANGED status
  BY <1>2 DEF Delete, vars, table
<1>3. ASSUME NEW w \in Workers,
             Begin(w) \/ HandlerStep(w) \/ HandlerThrows(w) \/ Record(w) \/ Background(w)
      PROVE  status'[j] # "absent" <=> status[j] # "absent"
  <2>1. CASE Begin(w)
    BY <2>1 DEF Begin, MarkRunning, HandlerInv
  <2>2. CASE HandlerStep(w)
    BY <2>2, HandlerKeepsQueue DEF vars, table
  <2>3. CASE HandlerThrows(w)
    BY <2>3 DEF HandlerThrows, table
  <2>4. CASE Record(w)
    BY <2>4 DEF Record, Conclude, Finish, RecordThrows, HandlerInv, table
  <2>5. CASE Background(w)
    BY <2>5 DEF Background, Crash, Boot, ResetStuckJobs, ResetLost, Stop, LoopExit,
                Start, Poll, MarkThrows, Stuck, table
  <2> QED BY <1>3, <2>1, <2>2, <2>3, <2>4, <2>5
<1>4. CASE UNCHANGED allVars
  BY <1>4 DEF allVars, vars, table
<1> QED BY <1>1, <1>2, <1>3, <1>4 DEF IngestNext

\* A SELECT reads pending rows.
LEMMA SelectReadsRows ==
  ASSUME IngestTypeOK, HandlerInv, NEW w \in Workers, Select(w)
  PROVE  /\ \A v \in Workers : \A j \in rest'[v] : status[j] # "absent"
         /\ \A v \in Workers : v # w => pc'[v] = pc[v]
         /\ pc'[w] # "handle"
<1> USE DEF IngestTypeOK, TypeOK
<1>1. CASE Pending = {}
  BY <1>1 DEF Select, HandlerInv
<1>2. CASE Pending # {}
  <2>1. PICK B \in SUBSET Pending : rest' = [rest EXCEPT ![w] = B]
    BY <1>2 DEF Select, Batches
  <2> QED BY <1>2, <2>1 DEF Select, HandlerInv, Pending
<1> QED BY <1>1, <1>2

LEMMA NextHandlerInv ==
  ASSUME IngestTypeOK, HandlerInv, [IngestNext]_allVars
  PROVE  HandlerInv'
<1> USE DEF IngestTypeOK, TypeOK
<1>0. \A j \in Jobs : status[j] # "absent" => status'[j] # "absent"
  BY RowsStay
<1>a. ASSUME UNCHANGED <<loop, hpc>> PROVE HandlerInv'
  BY <1>0, <1>a DEF HandlerInv, loop
<1>1. ASSUME NEW j \in Jobs, RequestStep(j) \/ Abort(j) PROVE HandlerInv'
  BY <1>a, <1>1 DEF RequestStep, Look, Upsert, PutBytes, Accept, Abort, Enqueue, vars, handler
<1>2. ASSUME NEW d \in Docs, Delete(d) PROVE HandlerInv'
  BY <1>a, <1>2 DEF Delete, vars, handler
<1>3. ASSUME NEW w \in Workers, Begin(w) PROVE HandlerInv'
  BY <1>0, <1>3, Steps DEF Begin, MarkRunning, HandlerInv
<1>4. ASSUME NEW w \in Workers, HandlerStep(w) PROVE HandlerInv'
  <2>1. UNCHANGED loop
    BY <1>4, HandlerKeepsQueue DEF vars
  <2>2. \E to \in HandlerPcs \ {"idle"} : hpc[w] # "idle" /\ hpc' = [hpc EXCEPT ![w] = to]
    BY <1>4, Steps DEF HandlerStep, Advance, OpenWorkspace, LoadBytes, ReadRow, Embed,
                       StorePart, Publish, Audit, CatchStatus, CatchAudit
  <2> QED BY <1>0, <2>1, <2>2 DEF HandlerInv, loop
<1>5. ASSUME NEW w \in Workers, HandlerThrows(w) PROVE HandlerInv'
  <2>1. hpc[w] \in DOMAIN Thrown
    BY <1>5, Throws, Steps, MishapsAssumption DEF HandlerThrows
  <2>2. hpc[w] # "idle" /\ Thrown[hpc[w]] # "idle"
    BY <2>1, Throws
  <2> QED BY <1>0, <1>5, <2>2 DEF HandlerThrows, HandlerInv, loop
<1>6. ASSUME NEW w \in Workers, Record(w) PROVE HandlerInv'
  BY <1>0, <1>6 DEF Record, Conclude, Finish, RecordThrows, HandlerInv, table
<1>7. ASSUME NEW w \in Workers, Background(w) PROVE HandlerInv'
  <2>1. CASE Crash(w) /\ hpc' = [hpc EXCEPT ![w] = "idle"]
    BY <1>0, <2>1 DEF Crash, HandlerInv
  <2>2. CASE (Start(w) \/ Poll(w)) /\ UNCHANGED hpc
    <3>1. Select(w) /\ pc[w] # "handle" /\ UNCHANGED <<cur, status>>
      BY <2>2 DEF Start, Poll, table
    <3> QED BY <2>2, <3>1, SelectReadsRows DEF HandlerInv
  <2>3. CASE (Boot(w) \/ ResetStuckJobs(w) \/ ResetLost(w) \/ Stop(w) \/ LoopExit(w)
              \/ MarkThrows(w)) /\ UNCHANGED hpc
    BY <1>0, <2>3 DEF Boot, ResetStuckJobs, ResetLost, Stop, LoopExit, MarkThrows, loop,
                      HandlerInv
  <2> QED BY <1>7, <2>1, <2>2, <2>3 DEF Background, handler
<1>8. CASE UNCHANGED allVars
  BY <1>a, <1>8 DEF allVars, vars, handler
<1> QED BY <1>1, <1>2, <1>3, <1>4, <1>5, <1>6, <1>7, <1>8 DEF IngestNext

\* The row of a document, once written, stays, and its bytes stay.
LEMMA RowsOfDocumentsStay ==
  ASSUME IngestTypeOK, [IngestNext]_allVars
  PROVE  /\ \A d \in Docs : docStatus[d] # "absent" => docStatus'[d] # "absent"
         /\ bytes \subseteq bytes'
<1> USE DEF IngestTypeOK
<1>1. ASSUME NEW w \in Workers, HandlerStep(w)
      PROVE  /\ \A d \in Docs : docStatus[d] # "absent" => docStatus'[d] # "absent"
             /\ bytes \subseteq bytes'
  BY <1>1 DEF HandlerStep, Advance, OpenWorkspace, LoadBytes, ReadRow, Embed, StorePart,
              Publish, Audit, CatchStatus, CatchAudit, SetStatus
<1> QED BY <1>1 DEF IngestNext, RequestStep, Look, Upsert, PutBytes, Accept, Abort, Delete,
                    Begin, HandlerThrows, Record, Background, allVars, pipeline

LEMMA NextUploadInv ==
  ASSUME IngestTypeOK, HandlerInv, UploadInv, [IngestNext]_allVars
  PROVE  UploadInv'
<1> USE DocOfAssumption DEF IngestTypeOK
<1>0. /\ \A d \in Docs : docStatus[d] # "absent" => docStatus'[d] # "absent"
      /\ bytes \subseteq bytes'
      /\ \A j \in Jobs : status'[j] # "absent" => status[j] # "absent" \/ Accept(j)
  BY RowsOfDocumentsStay, RowsStay
<1>a. ASSUME UNCHANGED request, \A j \in Jobs : ~Accept(j) PROVE UploadInv'
  BY <1>0, <1>a DEF UploadInv
<1>1. ASSUME NEW j \in Jobs, RequestStep(j) \/ Abort(j) PROVE UploadInv'
  <2>1. CASE Look(j)
    BY <1>0, <2>1 DEF Look, UploadInv, vars, table
  <2>2. CASE Upsert(j)
    BY <1>0, <2>2 DEF Upsert, UploadInv, vars, table
  <2>3. CASE PutBytes(j)
    BY <1>0, <2>3 DEF PutBytes, UploadInv, vars, table
  <2>4. CASE Accept(j)
    BY <1>0, <2>4 DEF Accept, Enqueue, UploadInv, TypeOK
  <2>5. CASE Abort(j)
    BY <1>0, <2>5 DEF Abort, UploadInv, table
  <2> QED BY <1>1, <2>1, <2>2, <2>3, <2>4, <2>5 DEF RequestStep
<1>2. CASE UNCHANGED request
  <2>1. \A j \in Jobs : ~Accept(j)
    BY <1>2 DEF Accept
  <2> QED BY <1>a, <1>2, <2>1
<1>3. ASSUME NEW w \in Workers,
             Begin(w) \/ HandlerStep(w) \/ HandlerThrows(w) \/ Record(w) \/ Background(w)
      PROVE  UNCHANGED request
  BY <1>3, HandlerKeepsQueue DEF Begin, HandlerThrows, Record, Background, pipeline
<1> QED BY <1>1, <1>2, <1>3 DEF IngestNext, Delete, allVars, pipeline

LEMMA IngestInvCorrect == IngestSpec => [](HandlerInv /\ UploadInv)
<1>1. IngestInit => HandlerInv /\ UploadInv
  BY DEF IngestInit, Init, HandlerInv, UploadInv
<1>2. IngestTypeOK /\ (HandlerInv /\ UploadInv) /\ [IngestNext]_allVars
      => (HandlerInv /\ UploadInv)'
  BY NextHandlerInv, NextUploadInv
<1> QED BY <1>1, <1>2, IngestTypeCorrect, PTL DEF IngestSpec

\* Whoever crashes, aborts or uploads the same bytes again: a row of the queue
\* finds the bytes and the row of its document.
THEOREM HandlerFindsUploadCorrect == IngestSpec => []HandlerFindsUpload
<1>1. UploadInv => HandlerFindsUpload
  BY DEF UploadInv, HandlerFindsUpload
<1> QED BY <1>1, IngestInvCorrect, PTL

-----------------------------------------------------------------------------
(* 'ready' comes after the last chunk. *)

\* The chunks a handler has stored so far, and before it says 'ready' all of
\* them.
ChunksInv ==
  \A w \in Workers :
    /\ hpc[w] = "store" => /\ part[w] \in 1 .. Own(w)
                           /\ \A p \in 1 .. part[w] - 1 : chunks[Doc(w)][p] # NoJob
    /\ hpc[w] = "publish" => \A p \in 1 .. Own(w) : chunks[Doc(w)][p] # NoJob

\* Without deletes a chunk that is stored stays, though another upload of the
\* same bytes may overwrite it.
LEMMA ChunksStay ==
  ASSUME ~AllowDelete, IngestTypeOK, HandlerInv, [IngestNext]_allVars,
         NEW d \in Docs, NEW p \in Parts, chunks[d][p] # NoJob
  PROVE  chunks'[d][p] # NoJob
<1> USE DEF IngestTypeOK
<1>1. ASSUME NEW w \in Workers, StorePart(w) PROVE chunks'[d][p] # NoJob
  <2>1. cur[w] # NoJob
    BY <1>1, NoJobAssumption DEF StorePart, Advance, HandlerInv
  <2> QED BY <1>1, <2>1 DEF StorePart
<1>2. ASSUME NEW w \in Workers, HandlerStep(w), ~StorePart(w) PROVE UNCHANGED chunks
  BY <1>2 DEF HandlerStep, OpenWorkspace, LoadBytes, ReadRow, Embed, Publish, Audit,
              CatchStatus, CatchAudit
<1> QED BY <1>1, <1>2 DEF IngestNext, RequestStep, Look, Upsert, PutBytes, Accept, Abort, Delete,
                          Begin, HandlerThrows, Record, Background, allVars, pipeline

\* What a handler is doing is its own business: no step of anything else
\* touches its pc, its job or its position.
Mine(w) == UNCHANGED <<hpc[w], part[w], cur[w]>>

\* Storing the next chunk of a document.
LEMMA OneMoreStored ==
  ASSUME NEW n \in Nat, 1 .. n \subseteq Parts, NEW k \in 1 .. n, NEW j \in Jobs, j # NoJob,
         NEW old \in [Parts -> Jobs \cup {NoJob}], NEW new, new = [old EXCEPT ![k] = j],
         \A p \in 1 .. k - 1 : old[p] # NoJob
  PROVE  /\ \A p \in 1 .. k + 1 - 1 : new[p] # NoJob
         /\ k # n => k + 1 \in 1 .. n
         /\ k = n => \A p \in 1 .. n : new[p] # NoJob
<1>1. \A p \in 1 .. k : p \in Parts /\ (p = k \/ p \in 1 .. k - 1)
  OBVIOUS
<1>2. \A p \in 1 .. k : new[p] # NoJob
  BY <1>1
<1> QED BY <1>2

LEMMA NextChunksInv ==
  ASSUME ~AllowDelete, IngestTypeOK, HandlerInv, ChunksInv, [IngestNext]_allVars
  PROVE  ChunksInv'
<1> SUFFICES ASSUME NEW w \in Workers
             PROVE  /\ hpc'[w] = "store" =>
                         /\ part'[w] \in 1 .. Own(w)'
                         /\ \A p \in 1 .. part'[w] - 1 : chunks'[Doc(w)'][p] # NoJob
                    /\ hpc'[w] = "publish" =>
                         \A p \in 1 .. Own(w)' : chunks'[Doc(w)'][p] # NoJob
  BY DEF ChunksInv
<1> USE DocOfAssumption, PartsOfAssumption DEF IngestTypeOK, TypeOK
<1>0. ASSUME hpc[w] # "idle"
      PROVE  /\ cur[w] \in Jobs /\ Doc(w) \in Docs /\ Own(w) \in Nat
             /\ 1 .. Own(w) \subseteq Parts
  BY <1>0 DEF HandlerInv, Doc, Own, Parts
<1>a. ASSUME Mine(w) PROVE
        /\ hpc'[w] = "store" => /\ part'[w] \in 1 .. Own(w)'
                                /\ \A p \in 1 .. part'[w] - 1 : chunks'[Doc(w)'][p] # NoJob
        /\ hpc'[w] = "publish" => \A p \in 1 .. Own(w)' : chunks'[Doc(w)'][p] # NoJob
  <2>1. Doc(w)' = Doc(w) /\ Own(w)' = Own(w) /\ part'[w] = part[w] /\ hpc'[w] = hpc[w]
    BY <1>a DEF Mine, Doc, Own
  <2>2. ASSUME hpc[w] # "idle", NEW p \in 1 .. Own(w), chunks[Doc(w)][p] # NoJob
        PROVE  chunks'[Doc(w)][p] # NoJob
    BY <1>0, <2>2, ChunksStay
  <2> QED BY <1>0, <2>1, <2>2 DEF ChunksInv
<1>1. ASSUME NEW v \in Workers, HandlerStep(v) PROVE
        /\ hpc'[w] = "store" => /\ part'[w] \in 1 .. Own(w)'
                                /\ \A p \in 1 .. part'[w] - 1 : chunks'[Doc(w)'][p] # NoJob
        /\ hpc'[w] = "publish" => \A p \in 1 .. Own(w)' : chunks'[Doc(w)'][p] # NoJob
  <2>1. cur' = cur
    BY <1>1, HandlerKeepsQueue DEF vars, loop
  <2>2. CASE v # w
    <3>1. Mine(w)
      BY <1>1, <2>1, <2>2 DEF Mine, HandlerStep, Advance, OpenWorkspace, LoadBytes, ReadRow,
           Embed, StorePart, Publish, Audit, CatchStatus, CatchAudit
    <3> QED BY <1>a, <3>1
  <2>3. CASE v = w /\ Embed(w)
    BY <1>0, <2>1, <2>3 DEF Embed, Advance, Own, Doc
  <2>4. CASE v = w /\ StorePart(w)
    <3>1. /\ hpc[w] = "store" /\ part' = [part EXCEPT ![w] = @ + 1]
          /\ chunks' = [chunks EXCEPT ![Doc(w)][part[w]] = cur[w]]
          /\ hpc' = [hpc EXCEPT ![w] = IF part[w] = Own(w) THEN "publish" ELSE "store"]
          /\ Doc(w)' = Doc(w) /\ Own(w)' = Own(w)
      BY <2>1, <2>4 DEF StorePart, Advance, Doc, Own
    <3>2. /\ part[w] \in 1 .. Own(w)
          /\ \A p \in 1 .. part[w] - 1 : chunks[Doc(w)][p] # NoJob
      BY <3>1 DEF ChunksInv
    <3>3. cur[w] \in Jobs /\ cur[w] # NoJob /\ Doc(w) \in Docs /\ Own(w) \in Nat
          /\ 1 .. Own(w) \subseteq Parts
      BY <1>0, <3>1, NoJobAssumption
    <3>4. chunks[Doc(w)] \in [Parts -> Jobs \cup {NoJob}]
      BY <3>3
    <3>5. chunks'[Doc(w)] = [chunks[Doc(w)] EXCEPT ![part[w]] = cur[w]]
      BY <3>1, <3>3
    <3>6. part'[w] = part[w] + 1 /\ hpc'[w] = IF part[w] = Own(w) THEN "publish" ELSE "store"
      BY <3>1
    <3> HIDE DEF IngestTypeOK, TypeOK
    <3>7. /\ \A p \in 1 .. part[w] + 1 - 1 : chunks'[Doc(w)][p] # NoJob
          /\ part[w] # Own(w) => part[w] + 1 \in 1 .. Own(w)
          /\ part[w] = Own(w) => \A p \in 1 .. Own(w) : chunks'[Doc(w)][p] # NoJob
      BY <3>2, <3>3, <3>4, <3>5, OneMoreStored
    <3>8. CASE part[w] = Own(w)
      BY <3>1, <3>6, <3>7, <3>8
    <3>9. CASE part[w] # Own(w)
      <4>1. /\ part'[w] \in 1 .. Own(w)
            /\ \A p \in 1 .. part'[w] - 1 : chunks'[Doc(w)][p] # NoJob
        BY <3>2, <3>3, <3>6, <3>7, <3>9
      <4>2. hpc'[w] = "store"
        BY <3>6, <3>9
      <4> QED BY <3>1, <4>1, <4>2
    <3> QED BY <3>8, <3>9
  <2>5. CASE v = w /\ ~Embed(w) /\ ~StorePart(w)
    <3>1. hpc'[w] \notin {"store", "publish"}
      BY <1>1, <2>5 DEF HandlerStep, Advance, OpenWorkspace, LoadBytes, ReadRow,
           Publish, Audit, CatchStatus, CatchAudit
    <3> QED BY <3>1
  <2> QED BY <1>1, <2>2, <2>3, <2>4, <2>5
<1>2. ASSUME NEW v \in Workers, Begin(v) \/ HandlerThrows(v) \/ Record(v) \/ Background(v)
      PROVE  Mine(w) \/ hpc'[w] \notin {"store", "publish"}
  <2>1. CASE Begin(v)
    BY <2>1 DEF Begin, MarkRunning, Mine
  <2>2. CASE HandlerThrows(v)
    <3>1. hpc[v] \in DOMAIN Thrown
      BY <2>2, Throws, Steps, MishapsAssumption DEF HandlerThrows
    <3> QED BY <2>2, <3>1, Throws DEF HandlerThrows, Mine, loop
  <2>3. CASE Record(v)
    BY <2>3 DEF Record, Conclude, Finish, RecordThrows, Mine
  <2>4. CASE Background(v)
    BY <2>4 DEF Background, Crash, Boot, ResetStuckJobs, ResetLost, Stop, LoopExit, Start,
         Poll, MarkThrows, Mine, handler, loop
  <2> QED BY <1>2, <2>1, <2>2, <2>3, <2>4
<1>3. ASSUME ~\E v \in Workers : Begin(v) \/ HandlerStep(v) \/ HandlerThrows(v)
                                 \/ Record(v) \/ Background(v)
      PROVE  Mine(w)
  BY <1>3 DEF IngestNext, RequestStep, Look, Upsert, PutBytes, Accept, Abort, Delete, Enqueue,
              Mine, allVars, vars, handler, loop
<1> QED BY <1>a, <1>1, <1>2, <1>3

\* Only a handler that has stored all its chunks says 'ready'.
LEMMA ReadyIsPublished ==
  ASSUME IngestTypeOK, HandlerInv, [IngestNext]_allVars, NEW d \in Docs,
         docStatus'[d] = "ready", docStatus[d] # "ready"
  PROVE  \E w \in Workers : hpc[w] = "publish" /\ Doc(w) = d /\ UNCHANGED <<chunks, request>>
<1> USE DocOfAssumption DEF IngestTypeOK
<1>1. \A j \in Jobs : ~(RequestStep(j) \/ Abort(j))
  BY DEF RequestStep, Look, Upsert, PutBytes, Accept, Abort
<1>2. PICK w \in Workers : HandlerStep(w)
  BY <1>1 DEF IngestNext, Delete, Begin, HandlerThrows, Record, Background, allVars, pipeline
<1>3. Publish(w)
  BY <1>2 DEF HandlerStep, OpenWorkspace, LoadBytes, ReadRow, Embed, StorePart, Audit,
              CatchStatus, CatchAudit, SetStatus
<1> QED BY <1>3 DEF Publish, Advance, SetStatus

LEMMA NextReadyIsComplete ==
  ASSUME ~AllowDelete, IngestTypeOK, HandlerInv, UploadInv, ChunksInv, ReadyIsComplete,
         [IngestNext]_allVars
  PROVE  ReadyIsComplete'
<1> SUFFICES ASSUME NEW d \in Docs, docStatus'[d] = "ready" PROVE Complete(d)'
  BY DEF ReadyIsComplete
<1> USE DocOfAssumption, PartsOfAssumption
<1>1. CASE docStatus[d] = "ready"
  <2>1. PICK j \in Jobs : /\ DocOf[j] = d /\ request[j] = "accepted"
                          /\ \A p \in 1 .. PartsOf[j] : chunks[d][p] # NoJob
    BY <1>1 DEF ReadyIsComplete, Complete
  <2>2. \A p \in 1 .. PartsOf[j] : p \in Parts
    BY DEF Parts
  <2>3. request'[j] = "accepted"
    <3>1. ASSUME NEW w \in Workers, Begin(w) \/ HandlerStep(w) \/ HandlerThrows(w)
                                    \/ Record(w) \/ Background(w)
          PROVE  UNCHANGED request
      BY <3>1, HandlerKeepsQueue DEF Begin, HandlerThrows, Record, Background, pipeline
    <3> QED BY <2>1, <3>1 DEF IngestNext, RequestStep, Look, Upsert, PutBytes, Accept, Abort,
                              Delete, allVars, pipeline, IngestTypeOK
  <2> QED BY <2>1, <2>2, <2>3, ChunksStay DEF Complete
<1>2. CASE docStatus[d] # "ready"
  <2>1. PICK w \in Workers : hpc[w] = "publish" /\ Doc(w) = d /\ UNCHANGED <<chunks, request>>
    BY <1>2, ReadyIsPublished
  <2>2. cur[w] \in Jobs /\ request[cur[w]] = "accepted"
    BY <2>1 DEF HandlerInv, UploadInv
  <2>3. \A p \in 1 .. PartsOf[cur[w]] : chunks[d][p] # NoJob
    BY <2>1 DEF ChunksInv, Own
  <2> QED BY <2>1, <2>2, <2>3 DEF Complete, Doc
<1> QED BY <1>1, <1>2

\* As long as nobody deletes, with any number of workers, of uploads of the
\* same bytes and of crashes: a document is 'ready' only with all its chunks.
THEOREM ReadyIsCompleteCorrect ==
  ASSUME ~AllowDelete
  PROVE  IngestSpec => []ReadyIsComplete
<1>1. IngestInit => ChunksInv /\ ReadyIsComplete
  BY DEF IngestInit, ChunksInv, ReadyIsComplete
<1>2. IngestTypeOK /\ (HandlerInv /\ UploadInv) /\ (ChunksInv /\ ReadyIsComplete)
      /\ [IngestNext]_allVars => (ChunksInv /\ ReadyIsComplete)'
  BY NextChunksInv, NextReadyIsComplete
<1> QED BY <1>1, <1>2, IngestTypeCorrect, IngestInvCorrect, PTL DEF IngestSpec

-----------------------------------------------------------------------------
(* Any number of workers: a running row has its handler. *)

\* A fault outside the queue ends the hypothesis of RunningIsHandled, every
\* other step of the pipeline is one of the queue.
THEOREM PipelineRunningIsHandled == IngestSpec => []RunningIsHandled
<1>1. IngestInit => RunningIsHandled
  BY DEF IngestInit, Init, RunningIsHandled, Stuck
<1>2. ASSUME IngestTypeOK, RunningIsHandled, [IngestNext]_allVars PROVE RunningIsHandled'
  <2>1. CASE FaultElsewhere
    BY <1>2, <2>1, FaultCounts DEF FaultElsewhere, RunningIsHandled, IngestTypeOK
  <2> QED BY <1>2, <2>1, QueueStep, NextRunningIsHandled DEF IngestTypeOK
<1>3. IngestTypeOK /\ RunningIsHandled /\ [IngestNext]_allVars => RunningIsHandled'
  BY <1>2
<1> QED BY <1>1, <1>3, IngestTypeCorrect, PTL DEF IngestSpec

-----------------------------------------------------------------------------
(* One worker: what the queue promises holds with the pipeline on top. *)

LEMMA IngestLoopInvCorrect ==
  ASSUME SingleWorker
  PROVE  IngestSpec => [](LoopInv /\ OrderInv)
<1>1. IngestInit => LoopInv /\ OrderInv
  BY DEF IngestInit, Init, LoopInv, OrderInv, Pending
<1>2. ASSUME IngestTypeOK, LoopInv, OrderInv, [IngestNext]_allVars
      PROVE  LoopInv' /\ OrderInv'
  <2>1. CASE FaultElsewhere
    BY <1>2, <2>1 DEF FaultElsewhere, table, loop, LoopInv, OrderInv, Pending
  <2> QED BY <1>2, <2>1, QueueStep, NextLoopInv DEF IngestTypeOK
<1>3. IngestTypeOK /\ (LoopInv /\ OrderInv) /\ [IngestNext]_allVars => (LoopInv /\ OrderInv)'
  BY <1>2
<1> QED BY <1>1, <1>3, IngestTypeCorrect, PTL DEF IngestSpec

\* The contract of the queue holds under the pipeline: one handler at a time,
\* and a job is handled again only after its handler was cut off.
THEOREM PipelineImplementsContract ==
  ASSUME SingleWorker
  PROVE  IngestSpec => ImplementsContract
<1>1. IngestInit => Contract!Init
  BY DEF IngestInit, Init, Contract!Init, Phase, Handling, Settled
<1>2. ASSUME IngestTypeOK, LoopInv, [IngestNext]_allVars
      PROVE  [Contract!Next]_PhaseFn
  <2>1. CASE FaultElsewhere
    BY <2>1, Stutter DEF FaultElsewhere, table, loop, Handling
  <2> QED BY <1>2, <2>1, QueueStep, StepImplements DEF IngestTypeOK
<1>3. IngestTypeOK /\ (LoopInv /\ OrderInv) /\ [IngestNext]_allVars => [Contract!Next]_PhaseFn
  BY <1>2
<1> QED BY <1>1, <1>3, IngestLoopInvCorrect, IngestTypeCorrect, PTL
        DEF IngestSpec, ImplementsContract, Contract!Spec, PhaseFn

\* Jobs of the pipeline start oldest first.
THEOREM PipelineStartsInOrder ==
  ASSUME SingleWorker
  PROVE  IngestSpec => StartsInOrder
<1>1. ASSUME IngestTypeOK, OrderInv, [IngestNext]_allVars, NEW j \in Jobs, NEW k \in Jobs,
             status[j] = "pending", status'[j] = "running",
             status[k] = "pending", created[k] < created[j]
      PROVE  attempts[k] < 0
  <2>1. CASE FaultElsewhere
    BY <1>1, <2>1 DEF FaultElsewhere, table
  <2> QED BY <1>1, <2>1, QueueStep, StartStep DEF IngestTypeOK
<1>2. IngestTypeOK /\ (LoopInv /\ OrderInv) /\ [IngestNext]_allVars
      => [\A j, k \in Jobs :
            /\ status[j] = "pending" /\ status'[j] = "running"
            /\ status[k] = "pending" /\ created[k] < created[j]
            => attempts[k] < 0]_vars
  BY <1>1
<1> QED BY <1>2, IngestLoopInvCorrect, IngestTypeCorrect, PTL DEF IngestSpec, StartsInOrder

-----------------------------------------------------------------------------
(* One worker: the status of a document follows its handler. *)

\* What the row of a document says while its handler is past reading it.  The
\* catch block is reached before 'ready' was written, unless the audit of the
\* success threw.
StatusInv ==
  \A w \in Workers :
    /\ hpc[w] \in {"embed", "store", "publish"} => docStatus[Doc(w)] = "indexing"
    /\ hpc[w] = "catch" =>
         \/ docStatus[Doc(w)] = "indexing"
         \/ "audit" \in Mishaps /\ docStatus[Doc(w)] = "ready"
    /\ hpc[w] \in {"audit", "return"} => docStatus[Doc(w)] = "ready"

\* An upload writes the row of a document only when it inserts it.
LEMMA UploadStatus ==
  ASSUME IngestTypeOK, NEW j \in Jobs, RequestStep(j) \/ Abort(j)
  PROVE  /\ UNCHANGED <<hpc, cur>>
         /\ \A d \in Docs : docStatus[d] # "absent" => docStatus'[d] = docStatus[d]
         /\ \A d \in Docs : docStatus[d] = "absent" => docStatus'[d] \in {"absent", "pending"}
         /\ UNCHANGED docStatus \/ Upsert(j)
<1> USE DocOfAssumption DEF IngestTypeOK
<1>1. CASE Upsert(j)
  BY <1>1 DEF Upsert, vars, loop, handler
<1>2. CASE ~Upsert(j)
  BY <1>2 DEF RequestStep, Look, PutBytes, Accept, Abort, Enqueue, vars, loop, handler
<1> QED BY <1>1, <1>2

LEMMA NextStatusInv ==
  ASSUME SingleWorker, IngestTypeOK, HandlerInv, StatusInv, [IngestNext]_allVars
  PROVE  StatusInv'
<1> USE DocOfAssumption DEF IngestTypeOK
<1>a. ASSUME UNCHANGED <<hpc, cur, docStatus>> PROVE StatusInv'
  BY <1>a DEF StatusInv, Doc
<1>1. ASSUME NEW j \in Jobs, RequestStep(j) \/ Abort(j) PROVE StatusInv'
  <2>1. \A w \in Workers : hpc[w] # "idle" => Doc(w) \in Docs
    BY DEF HandlerInv, Doc
  <2> QED BY <1>1, <2>1, UploadStatus DEF StatusInv, Doc
<1>2. ASSUME NEW d \in Docs, Delete(d) PROVE StatusInv'
  BY <1>a, <1>2 DEF Delete, vars, loop, handler
<1>3. ASSUME NEW w \in Workers, HandlerStep(w) PROVE StatusInv'
  <2>1. cur' = cur
    BY <1>3, HandlerKeepsQueue DEF vars, loop
  <2>2. hpc[w] # "idle" /\ Doc(w) \in Docs
    BY <1>3 DEF HandlerInv, Doc, HandlerStep, Advance, OpenWorkspace, LoadBytes, ReadRow,
         Embed, StorePart, Publish, Audit, CatchStatus, CatchAudit
  <2>3. /\ hpc'[w] \in {"embed", "store", "publish"} => docStatus'[Doc(w)] = "indexing"
        /\ hpc'[w] # "catch"
        /\ hpc'[w] \in {"audit", "return"} => docStatus'[Doc(w)] = "ready"
    BY <1>3, <2>2 DEF StatusInv, HandlerStep, Advance, OpenWorkspace, LoadBytes, ReadRow,
         Embed, StorePart, Publish, Audit, CatchStatus, CatchAudit, SetStatus
  <2> QED BY <2>1, <2>3 DEF StatusInv, Doc, SingleWorker
<1>4. ASSUME NEW w \in Workers, HandlerThrows(w) PROVE StatusInv'
  <2>1. hpc[w] \in Mishaps /\ hpc[w] \in DOMAIN Thrown
    BY <1>4, Throws, Steps, MishapsAssumption DEF HandlerThrows
  <2>2. /\ hpc' = [hpc EXCEPT ![w] = Thrown[hpc[w]]] /\ UNCHANGED <<cur, docStatus>>
    BY <1>4 DEF HandlerThrows, loop, pipeline
  <2>3. Thrown[hpc[w]] = "catch" => hpc[w] \in {"embed", "store", "publish", "audit"}
    BY <2>1 DEF Thrown
  <2> QED BY <2>1, <2>2, <2>3, Throws DEF StatusInv, Doc, SingleWorker
<1>5. ASSUME NEW w \in Workers, Begin(w) \/ Record(w) PROVE StatusInv'
  <2>1. hpc'[w] \in {"idle", "open"}
    BY <1>5 DEF Begin, Record
  <2> QED BY <2>1 DEF StatusInv, SingleWorker
<1>6. ASSUME NEW w \in Workers, Background(w) PROVE StatusInv'
  <2>1. CASE hpc'[w] = "idle"
    BY <2>1 DEF StatusInv, SingleWorker
  <2>2. CASE hpc'[w] # "idle"
    BY <1>6, <1>a, <2>2 DEF Background, Crash, Boot, ResetStuckJobs, ResetLost, Stop, LoopExit,
       Start, Poll, MarkThrows, handler, pipeline, loop
  <2> QED BY <2>1, <2>2
<1>7. CASE UNCHANGED allVars
  BY <1>a, <1>7 DEF allVars, vars, loop, handler, pipeline
<1> QED BY <1>1, <1>2, <1>3, <1>4, <1>5, <1>6, <1>7 DEF IngestNext

LEMMA StatusInvCorrect ==
  ASSUME SingleWorker
  PROVE  IngestSpec => []StatusInv
<1>1. IngestInit => StatusInv
  BY DEF IngestInit, StatusInv
<1>2. IngestTypeOK /\ (HandlerInv /\ UploadInv) /\ StatusInv /\ [IngestNext]_allVars
      => StatusInv'
  BY NextStatusInv
<1> QED BY <1>1, <1>2, IngestTypeCorrect, IngestInvCorrect, PTL DEF IngestSpec

\* Only the handler of a job writes the status of a document that has a row.
LEMMA StatusChange ==
  ASSUME IngestTypeOK, [IngestNext]_allVars, NEW d \in Docs,
         docStatus'[d] # docStatus[d], docStatus[d] # "absent"
  PROVE  \E w \in Workers : /\ Doc(w) = d
                            /\ \/ hpc[w] = "row" /\ docStatus'[d] = "indexing"
                               \/ hpc[w] = "publish" /\ docStatus'[d] = "ready"
                               \/ hpc[w] = "catch" /\ docStatus'[d] = "failed"
                            /\ \A e \in Docs \ {d} : docStatus'[e] = docStatus[e]
                            /\ UNCHANGED status
<1> USE DocOfAssumption DEF IngestTypeOK
<1>1. \A j \in Jobs : ~(RequestStep(j) \/ Abort(j))
  BY UploadStatus
<1>2. PICK w \in Workers : HandlerStep(w)
  BY <1>1 DEF IngestNext, Delete, Begin, HandlerThrows, Record, Background, allVars, pipeline
<1>3. ReadRow(w) \/ Publish(w) \/ CatchStatus(w)
  BY <1>2 DEF HandlerStep, OpenWorkspace, LoadBytes, Embed, StorePart, Audit, CatchAudit
<1>4. UNCHANGED status
  BY <1>2, HandlerKeepsQueue DEF vars, table
<1>5. CASE ReadRow(w)
  BY <1>4, <1>5 DEF ReadRow, Advance, SetStatus
<1>6. CASE Publish(w)
  BY <1>4, <1>6 DEF Publish, Advance, SetStatus
<1>7. CASE CatchStatus(w)
  BY <1>4, <1>7 DEF CatchStatus, Advance, SetStatus
<1> QED BY <1>3, <1>5, <1>6, <1>7

LEMMA NextDoneMeansReady ==
  ASSUME SingleWorker, IngestTypeOK, HandlerInv, UploadInv, LoopInv, StatusInv,
         DoneMeansReady, [IngestNext]_allVars
  PROVE  DoneMeansReady'
<1> SUFFICES ASSUME NEW j \in Jobs, Alone(j)', status'[j] = "done"
             PROVE  docStatus'[DocOf[j]] = "ready"
  BY DEF DoneMeansReady
<1> USE DocOfAssumption DEF IngestTypeOK, TypeOK
<1>1. \A k \in Jobs \ {j} : DocOf[k] = DocOf[j] => status[k] = "absent"
  BY RowsStay DEF Alone
<1>2. CASE status[j] = "done"
  <2>1. docStatus[DocOf[j]] = "ready"
    BY <1>1, <1>2 DEF DoneMeansReady, Alone
  <2>2. ASSUME NEW w \in Workers, Doc(w) = DocOf[j], hpc[w] # "idle" PROVE FALSE
    BY <1>1, <1>2, <2>2 DEF HandlerInv, LoopInv, Doc
  <2> QED BY <2>1, <2>2, StatusChange
<1>3. CASE status[j] # "done"
  <2>1. ASSUME NEW k \in Jobs, RequestStep(k) \/ Abort(k) PROVE FALSE
    BY <1>3, <2>1 DEF RequestStep, Look, Upsert, PutBytes, Accept, Abort, Enqueue, vars, table
  <2>2. ASSUME NEW w \in Workers, Begin(w) \/ HandlerThrows(w) \/ Background(w) PROVE FALSE
    BY <1>3, <2>2 DEF Begin, MarkRunning, HandlerThrows, Background, Crash, Boot,
       ResetStuckJobs, ResetLost, Stop, LoopExit, Start, Poll, MarkThrows, Stuck, table
  <2>3. ~\E w \in Workers : HandlerStep(w)
    BY <1>3, HandlerKeepsQueue DEF vars, table
  <2>4. PICK w \in Workers : Record(w)
    BY <1>3, <2>1, <2>2, <2>3 DEF IngestNext, Delete, allVars, vars, table
  <2>5. hpc[w] = "return" /\ cur[w] = j /\ UNCHANGED docStatus
    BY <1>3, <2>4 DEF Record, Conclude, Finish, RecordThrows, HandlerInv, pipeline, table
  <2> QED BY <2>5 DEF StatusInv, Doc
<1> QED BY <1>2, <1>3

\* With one worker: a job that is done has left its document 'ready', if no
\* other upload of the bytes has a row, and a row always finds its upload.
THEOREM QueueMatchesDocumentsCorrect ==
  ASSUME SingleWorker
  PROVE  IngestSpec => []QueueMatchesDocuments
<1>1. IngestInit => DoneMeansReady
  BY DEF IngestInit, Init, DoneMeansReady
<1>2. IngestTypeOK /\ (HandlerInv /\ UploadInv) /\ (LoopInv /\ OrderInv) /\ StatusInv
      /\ DoneMeansReady /\ [IngestNext]_allVars => DoneMeansReady'
  BY NextDoneMeansReady
<1>3. IngestSpec => []DoneMeansReady
  BY <1>1, <1>2, IngestTypeCorrect, IngestInvCorrect, IngestLoopInvCorrect, StatusInvCorrect,
     PTL DEF IngestSpec
<1> QED BY <1>3, HandlerFindsUploadCorrect, PTL DEF QueueMatchesDocuments

-----------------------------------------------------------------------------
(* One worker: the statuses follow the lifecycle. *)

\* The refinement mapping.
StateFn == [d \in Docs |-> IF docStatus[d] = "indexing" THEN "ingesting" ELSE docStatus[d]]

\* What the lifecycle allows of the changes the code makes.
LEMMA AllowedSteps ==
  /\ Lifecycle!States = {"pending", "ingesting", "ready", "failed"}
  /\ "ingesting" \in Lifecycle!ALLOWED["pending"]
  /\ "ingesting" \in Lifecycle!ALLOWED["ready"]
  /\ "ingesting" \in Lifecycle!ALLOWED["failed"]
  /\ "ready" \in Lifecycle!ALLOWED["ingesting"]
  /\ "failed" \in Lifecycle!ALLOWED["ingesting"]
  BY DEF Lifecycle!ALLOWED, Lifecycle!States

LEMMA LifecycleStep ==
  ASSUME SingleWorker, IngestTypeOK, StatusInv, [IngestNext]_allVars
  PROVE  [Lifecycle!Next \/ FailedAudit]_docStatus
<1> USE DocOfAssumption DEF IngestTypeOK, DocStatuses
<1>1. CASE UNCHANGED docStatus
  BY <1>1
<1>2. CASE \E d \in Docs : docStatus'[d] # docStatus[d] /\ docStatus[d] # "absent"
  <2>1. PICK d \in Docs : docStatus'[d] # docStatus[d] /\ docStatus[d] # "absent"
    BY <1>2
  <2>2. PICK w \in Workers : /\ Doc(w) = d
                             /\ \/ hpc[w] = "row" /\ docStatus'[d] = "indexing"
                                \/ hpc[w] = "publish" /\ docStatus'[d] = "ready"
                                \/ hpc[w] = "catch" /\ docStatus'[d] = "failed"
                             /\ \A e \in Docs \ {d} : docStatus'[e] = docStatus[e]
    BY <2>1, StatusChange
  <2>3. docStatus' \in [Docs -> DocStatuses]
    BY IngestNextType
  <2>4. CASE hpc[w] = "catch" /\ docStatus[d] = "ready"
    <3>1. docStatus' = [docStatus EXCEPT ![Doc(w)] = "failed"]
      BY <2>2, <2>3, <2>4
    <3> QED BY <2>2, <2>4, <3>1 DEF FailedAudit
  <2>5. CASE ~(hpc[w] = "catch" /\ docStatus[d] = "ready")
    <3>1. /\ StateFn[d] # "absent"
          /\ StateFn'[d] \in Lifecycle!States
          /\ StateFn'[d] \in Lifecycle!ALLOWED[StateFn[d]]
      BY <2>1, <2>2, <2>5, AllowedSteps DEF StateFn, StatusInv
    <3>2. StateFn' = [StateFn EXCEPT ![d] = StateFn'[d]]
      BY <2>2, <2>3 DEF StateFn
    <3>3. PICK to \in Lifecycle!States : to = StateFn'[d]
      BY <3>1
    <3>4. Lifecycle!Transition(d, to)
      BY <3>1, <3>2, <3>3 DEF Lifecycle!Transition, StateFn
    <3> QED BY <3>4 DEF Lifecycle!Next
  <2> QED BY <2>4, <2>5
<1>3. CASE docStatus' # docStatus
           /\ \A d \in Docs : docStatus'[d] # docStatus[d] => docStatus[d] = "absent"
  <2>1. ASSUME NEW w \in Workers, HandlerStep(w) PROVE docStatus' = docStatus
    <3>1. docStatus' \in [Docs -> DocStatuses]
      BY IngestNextType
    <3>2. ASSUME NEW d \in Docs, docStatus[d] = "absent" PROVE docStatus'[d] = docStatus[d]
      BY <2>1, <3>2 DEF StatusInv, HandlerStep, Advance, OpenWorkspace, LoadBytes, ReadRow,
         Embed, StorePart, Publish, Audit, CatchStatus, CatchAudit, SetStatus
    <3> QED BY <1>3, <3>1, <3>2
  <2>2. PICK j \in Jobs : RequestStep(j) \/ Abort(j)
    BY <1>3, <2>1 DEF IngestNext, Delete, Begin, HandlerThrows, Record, Background, allVars,
       pipeline
  <2>3. Upsert(j)
    BY <1>3, <2>2, UploadStatus
  <2>4. docStatus[DocOf[j]] = "absent" /\ docStatus' = [docStatus EXCEPT ![DocOf[j]] = "pending"]
    BY <1>3, <2>3 DEF Upsert
  <2>5. /\ StateFn[DocOf[j]] = "absent" /\ StateFn' = [StateFn EXCEPT ![DocOf[j]] = "pending"]
    BY <2>4 DEF StateFn
  <2>6. Lifecycle!Create(DocOf[j])
    BY <2>5 DEF Lifecycle!Create, StateFn
  <2> QED BY <2>6 DEF Lifecycle!Next
<1> QED BY <1>1, <1>2, <1>3

\* With one worker, the statuses of the documents follow the rules that no
\* writer asks for, but for the step from 'ready' to 'failed' of an audit that
\* throws, whatever throws, crashes, is retried or uploaded twice.
THEOREM LifecycleButAuditCorrect ==
  ASSUME SingleWorker
  PROVE  IngestSpec => LifecycleButAudit
<1>1. IngestInit => Lifecycle!Init
  BY DEF IngestInit, Lifecycle!Init
<1>2. IngestTypeOK /\ StatusInv /\ [IngestNext]_allVars
      => [Lifecycle!Next \/ FailedAudit]_docStatus
  BY LifecycleStep
<1> QED BY <1>1, <1>2, IngestTypeCorrect, StatusInvCorrect, PTL
        DEF IngestSpec, LifecycleButAudit

\* Where the audit of a success does not throw, they follow the rules altogether.
THEOREM FollowsLifecycleCorrect ==
  ASSUME SingleWorker, "audit" \notin Mishaps
  PROVE  IngestSpec => FollowsLifecycle
<1>1. IngestInit => Lifecycle!Init
  BY DEF IngestInit, Lifecycle!Init
<1>2. IngestTypeOK /\ StatusInv /\ [IngestNext]_allVars => [Lifecycle!Next]_StateFn
  <2> SUFFICES ASSUME IngestTypeOK, StatusInv, [IngestNext]_allVars
               PROVE  [Lifecycle!Next]_StateFn
    OBVIOUS
  <2>1. ~FailedAudit
    BY DEF FailedAudit, StatusInv
  <2>2. UNCHANGED docStatus => UNCHANGED StateFn
    BY DEF StateFn
  <2> QED BY <2>1, <2>2, LifecycleStep
<1> QED BY <1>1, <1>2, IngestTypeCorrect, StatusInvCorrect, PTL
        DEF IngestSpec, FollowsLifecycle, Lifecycle!Spec, StateFn
=============================================================================
