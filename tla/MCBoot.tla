------------------------------- MODULE MCBoot -------------------------------
(* An instance of what happens when processes start, for TLC: the supervisor *)
(* of the workers, and the migrations of a file that processes open.  They   *)
(* share no state, so a behaviour follows one of them.                       *)
EXTENDS Supervisor, Migrations

VARIABLE subject   \* the component this behaviour is about

Init == SupervisorInit /\ MigrationInit /\ subject \in {"supervisor", "migrations"}

Next ==
  \/ subject = "supervisor" /\ SupervisorNext /\ UNCHANGED <<migrationVars, subject>>
  \/ subject = "migrations" /\ MigrationNext /\ UNCHANGED <<supervisorVars, subject>>

\* SupervisorFairness and MigrationFairness, each of the behaviours it is about.
Fairness ==
  /\ \A r \in Replicas :
       LET fair(A) == subject = "supervisor" /\ A IN
       /\ WF_supervisorVars(fair(Boot(r)))
       /\ WF_supervisorVars(fair(Exit(r)))
       /\ \A ws \in Workspaces : WF_supervisorVars(fair(StopWorker(r, ws)))
       /\ \A s \in Slots : /\ WF_supervisorVars(fair(Tick(r, s)))
                           /\ WF_supervisorVars(fair(Resolve(r, s)))
  /\ \A p \in Processes :
       LET fair(A) == subject = "migrations" /\ A IN
       /\ SF_migrationVars(fair(Open(p)))
       /\ WF_migrationVars(fair(ReadApplied(p) \/ Statement(p) \/ Opened(p)))

FairSpec == Init /\ [][Next]_<<supervisorVars, migrationVars, subject>> /\ Fairness

TypeOK == SupervisorTypeOK /\ MigrationTypeOK

\* EveryProcessOpens, of the behaviours that are about processes that open:
\* without crash and overlap, each of them gets its workspace open.
EveryOpenEnds == subject = "migrations" => EveryProcessOpens
=============================================================================
