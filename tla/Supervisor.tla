----------------------------- MODULE Supervisor -----------------------------
(***************************************************************************)
(* The replicas of a deployment and the WorkspaceWorkerSupervisor each of  *)
(* them runs (api/src/workspace-supervisor.ts, start() of api/src/index.ts,*)
(* api/src/workspace-bootstrap.ts): which JobWorkers are alive where.      *)
(*                                                                         *)
(* scan() suspends at resolveDb(); everything between two suspensions is   *)
(* one step.  What a live worker does is module JobWorker.                 *)
(***************************************************************************)
EXTENDS Integers, Sequences, FiniteSets

CONSTANTS
  Replicas,      \* the API processes
  Leaders,       \* those with REVEX_WORKER_ROLE = leader
  Workspaces,    \* the workspaces that may be registered
  Slots,         \* the scans that can be in flight at once in one replica
  MaxRestarts,   \* bound on SIGTERMs and crashes
  MaxFailures    \* bound on workspaces that fail to open

ASSUME LeaderAssumption == Leaders \subseteq Replicas
ASSUME RestartAssumption == MaxRestarts \in Nat /\ MaxFailures \in Nat

VARIABLES
  registered,  \* registry.json: the workspaces of the deployment, in order
  phase,       \* "down", "serving" or "draining" (SIGTERM received)
  known,       \* workspaceRegistry.value of each process, in insertion order
  polling,     \* pollHandle # null
  scan,        \* the index in known that a scan awaits, 0 when it has ended
  mapped,      \* the keys of supervisor.workers
  live,        \* how many JobWorkers of a workspace are running
  toStop,      \* the keys the loop of stop() has not passed
  restarts, failures

process == <<phase, known, polling>>
workers == <<scan, mapped, live, toStop>>
supervisorVars == <<registered, process, workers, restarts, failures>>

SupervisorTypeOK ==
  /\ registered \in Seq(Workspaces)
  /\ phase \in [Replicas -> {"down", "serving", "draining"}]
  /\ known \in [Replicas -> Seq(Workspaces)]
  /\ polling \in [Replicas -> BOOLEAN]
  /\ scan \in [Replicas -> [Slots -> Nat]]
  /\ \A r \in Replicas, s \in Slots : scan[r][s] <= Len(known[r])
  /\ mapped \in [Replicas -> SUBSET Workspaces]
  /\ live \in [Replicas -> [Workspaces -> Nat]]
  /\ toStop \in [Replicas -> SUBSET Workspaces]
  /\ \A r \in Replicas : toStop[r] \subseteq mapped[r]
  /\ restarts \in 0 .. MaxRestarts
  /\ failures \in 0 .. MaxFailures

NoScan == [s \in Slots |-> 0]
NoWorker == [ws \in Workspaces |-> 0]

SupervisorInit ==
  /\ registered = <<>>
  /\ phase = [r \in Replicas |-> "down"]
  /\ known = [r \in Replicas |-> <<>>]
  /\ polling = [r \in Replicas |-> FALSE]
  /\ scan = [r \in Replicas |-> NoScan]
  /\ mapped = [r \in Replicas |-> {}]
  /\ live = [r \in Replicas |-> NoWorker]
  /\ toStop = [r \in Replicas |-> {}]
  /\ restarts = 0
  /\ failures = 0

Elements(seq) == {seq[i] : i \in DOMAIN seq}

\* A scan that has dealt with index i suspends at the next workspace without a
\* worker, or ends (0) when only workspaces with a worker are left.
Suspends(r, s, seq, i, skip) ==
  \E k \in 0 .. Len(seq) :
    /\ k # 0 => k > i /\ seq[k] \notin skip
    /\ \A m \in i + 1 .. (IF k = 0 THEN Len(seq) ELSE k - 1) : seq[m] \in skip
    /\ scan' = [scan EXCEPT ![r][s] = k]

Forget(r) ==
  /\ phase' = [phase EXCEPT ![r] = "down"]
  /\ known' = [known EXCEPT ![r] = <<>>]
  /\ polling' = [polling EXCEPT ![r] = FALSE]
  /\ scan' = [scan EXCEPT ![r] = NoScan]
  /\ mapped' = [mapped EXCEPT ![r] = {}]
  /\ live' = [live EXCEPT ![r] = NoWorker]
  /\ toStop' = [toStop EXCEPT ![r] = {}]

-----------------------------------------------------------------------------
(* start(): only the first workspace of the registry is made known to the  *)
(* new process.  The supervisor is started in every role, its first scan   *)
(* runs up to its first await, and a follower then stops it: nothing is in *)
(* the map yet, so stop() only clears the interval.                        *)
Boot(r) ==
  /\ phase[r] = "down"
  /\ phase' = [phase EXCEPT ![r] = "serving"]
  /\ LET first == SubSeq(registered, 1, IF registered = <<>> THEN 0 ELSE 1)
     IN  /\ known' = [known EXCEPT ![r] = first]
         /\ \E s \in Slots : Suspends(r, s, first, 0, {})
  /\ polling' = [polling EXCEPT ![r] = r \in Leaders]
  /\ UNCHANGED <<registered, mapped, live, toStop, restarts, failures>>

\* POST /v1/auth/register: the file registry is shared by the replicas, the Set
\* the supervisor reads belongs to the process that served the request.
Register(r, ws) ==
  /\ phase[r] # "down"
  /\ ws \notin Elements(registered)
  /\ registered' = Append(registered, ws)
  /\ known' = [known EXCEPT ![r] = Append(@, ws)]
  /\ UNCHANGED <<phase, polling, workers, restarts, failures>>

\* SIGTERM: stop() clears the interval; the scans in flight go on.
Sigterm(r) ==
  /\ phase[r] = "serving"
  /\ restarts < MaxRestarts
  /\ restarts' = restarts + 1
  /\ phase' = [phase EXCEPT ![r] = "draining"]
  /\ polling' = [polling EXCEPT ![r] = FALSE]
  /\ toStop' = [toStop EXCEPT ![r] = mapped[r]]
  /\ UNCHANGED <<registered, known, scan, mapped, live, failures>>

\* One worker.stop() of the loop resolves: its drain pass is over.
StopWorker(r, ws) ==
  /\ phase[r] = "draining"
  /\ ws \in toStop[r]
  /\ live' = [live EXCEPT ![r][ws] = @ - 1]
  /\ toStop' = [toStop EXCEPT ![r] = @ \ {ws}]
  /\ UNCHANGED <<registered, process, scan, mapped, restarts, failures>>

\* Mutant: the process exits as soon as the signal arrives.
Exit_Early(r) ==
  /\ phase[r] = "draining"
  /\ Forget(r)
  /\ UNCHANGED <<registered, restarts, failures>>

\* The loop of stop() has passed every key: closeAll() and process.exit(0).
Exit(r) ==
  /\ phase[r] = "draining"
  /\ toStop[r] = {}
  /\ Forget(r)
  /\ UNCHANGED <<registered, restarts, failures>>

Crash(r) ==
  /\ phase[r] # "down"
  /\ restarts < MaxRestarts
  /\ restarts' = restarts + 1
  /\ Forget(r)
  /\ UNCHANGED <<registered, failures>>

-----------------------------------------------------------------------------
(* The supervisor. *)

\* Mutant: the scan of a tick does not look at the workers it already has.
Tick_NoHas(r, s) ==
  /\ polling[r]
  /\ scan[r][s] = 0
  /\ Suspends(r, s, known[r], 0, {})
  /\ UNCHANGED <<registered, process, mapped, live, toStop, restarts, failures>>

\* Mutant: the scan of a tick only looks at the first workspace.
Tick_FirstOnly(r, s) ==
  /\ polling[r]
  /\ scan[r][s] = 0
  /\ Suspends(r, s, known[r], 0, mapped[r] \cup Elements(SubSeq(known[r], 2, Len(known[r]))))
  /\ UNCHANGED <<registered, process, mapped, live, toStop, restarts, failures>>

\* The interval fires.  It does not ask whether an earlier scan has ended.
Tick(r, s) ==
  /\ polling[r]
  /\ scan[r][s] = 0
  /\ Suspends(r, s, known[r], 0, mapped[r])
  /\ UNCHANGED <<registered, process, mapped, live, toStop, restarts, failures>>

\* Mutant: the worker is started but not put into the map.
Resolve_NoSet(r, s) ==
  LET ws == known[r][scan[r][s]]
  IN  /\ scan[r][s] # 0
      /\ live' = [live EXCEPT ![r][ws] = @ + 1]
      /\ Suspends(r, s, known[r], scan[r][s], mapped[r])
      /\ UNCHANGED <<registered, process, mapped, toStop, restarts, failures>>

\* resolveDb() returned the database: a worker is started and put into the map,
\* whatever happened to the map meanwhile, and the scan goes on.  The loop of
\* stop() iterates the live map: it also meets a key that is added to it.
Resolve(r, s) ==
  LET ws == known[r][scan[r][s]]
  IN  /\ scan[r][s] # 0
      /\ live' = [live EXCEPT ![r][ws] = @ + 1]
      /\ mapped' = [mapped EXCEPT ![r] = @ \cup {ws}]
      /\ toStop' = [toStop EXCEPT ![r] =
           IF phase[r] = "draining" /\ ws \notin mapped[r] THEN @ \cup {ws} ELSE @]
      /\ Suspends(r, s, known[r], scan[r][s], mapped[r] \cup {ws})
      /\ UNCHANGED <<registered, process, restarts, failures>>

\* It returned null: no passphrase in the vault yet, or the file did not open.
ResolveFails(r, s) ==
  /\ scan[r][s] # 0
  /\ failures < MaxFailures
  /\ failures' = failures + 1
  /\ Suspends(r, s, known[r], scan[r][s], mapped[r])
  /\ UNCHANGED <<registered, process, mapped, live, toStop, restarts>>

-----------------------------------------------------------------------------
ReplicaStep(r) ==
  \/ Boot(r)
  \/ Sigterm(r)
  \/ Exit(r)
  \/ Crash(r)
  \/ \E ws \in Workspaces : Register(r, ws) \/ StopWorker(r, ws)
  \/ \E s \in Slots : Tick(r, s) \/ Resolve(r, s) \/ ResolveFails(r, s)

SupervisorNext == \E r \in Replicas : ReplicaStep(r)

SupervisorSpec == SupervisorInit /\ [][SupervisorNext]_supervisorVars

(* Processes are restarted (Restart=always), the interval keeps firing and *)
(* the awaits of a scan settle.                                            *)
SupervisorFairness ==
  \A r \in Replicas :
    /\ WF_supervisorVars(Boot(r))
    /\ WF_supervisorVars(Exit(r))
    /\ \A ws \in Workspaces : WF_supervisorVars(StopWorker(r, ws))
    /\ \A s \in Slots : WF_supervisorVars(Tick(r, s)) /\ WF_supervisorVars(Resolve(r, s))

SupervisorFairSpec == SupervisorSpec /\ SupervisorFairness

-----------------------------------------------------------------------------
\* "The API server runs one Worker per registered workspace" (job-worker.ts:4):
\* no process ever has two loops draining the same table, which is what module
\* JobWorker needs to keep outcomes final.  It holds when a scan ends before
\* the next tick (one slot), across boots, failures and shutdowns.
OneWorkerPerWorkspace ==
  \A r \in Replicas, ws \in Workspaces : live[r][ws] <= 1

\* stop() only reaches the workers of the map: in a replica that still polls,
\* the map holds exactly the live ones.
MapHoldsLiveWorkers ==
  \A r \in Replicas : polling[r] =>
    \A ws \in Workspaces : live[r][ws] = IF ws \in mapped[r] THEN 1 ELSE 0

\* At most one worker for a workspace, and stop() can reach it.
WorkersAreMapped == OneWorkerPerWorkspace /\ MapHoldsLiveWorkers

\* "A replica with REVEX_WORKER_ROLE=follower skips the supervisor entirely"
\* (data-flow.md:135): a follower never runs a worker.
FollowersNeverDrain ==
  \A r \in Replicas \ Leaders : live[r] = NoWorker

\* "Drain the supervisor so in-flight ingestion jobs reach done instead of
\* being stuck in running" (data-flow.md:130): no worker is alive when a
\* process exits on SIGTERM.
ExitKillsNoWorker ==
  [][\A r \in Replicas : Exit(r) => live[r] = NoWorker]_supervisorVars

\* The supervisor picks up every workspace its process knows, also one that is
\* registered behind a scan in flight or fails to open at first.
KnownWorkspaceGetsWorker ==
  \A r \in Replicas, ws \in Workspaces :
    (polling[r] /\ ws \in Elements(known[r])) ~> (live[r][ws] > 0 \/ ~polling[r])

\* "Scans the workspace registry every pollMs and starts one JobWorker per
\* registered workspace" (workers-jobs.md:37): every workspace of the registry
\* is drained by some replica sooner or later.
RegisteredWorkspaceIsDrained ==
  \A ws \in Workspaces :
    ws \in Elements(registered) ~> \E r \in Replicas : live[r][ws] > 0
=============================================================================
