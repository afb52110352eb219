------------------------------ MODULE MCServer ------------------------------
(* An instance of the server around its documents, for TLC: what it reads at *)
(* startup, the gate every request passes, the rate limiter, accounts and    *)
(* members, the access lists, what a workspace keeps in its small tables and *)
(* in the job queues, and the files its command line keeps.  They share no   *)
(* state, so a behaviour follows one.                                        *)
EXTENDS
  RateLimit, Accounts, AccessLists, WorkspaceRecords, JobQueues, Startup,
  RequestGate, CommandLine, TLC

CONSTANTS r1, r2, l1, c1, c2, m1, u1, u2

\* Two registrations with one e-mail and two passphrases, and the requests that
\* may come together.
MCEmailOf == [r \in {r1, r2} |-> 1]
MCKeyOf == [r \in {r1, r2} |-> IF r = r1 THEN 1 ELSE 2]
MCMixes == {{l1, c1}, {c1, c2}, {l1, m1}, {c1, m1}}

\* Two people of one workspace, and one of another.
MCRoomOf == [p \in People |-> IF p = "eve" THEN "w2" ELSE "w1"]

\* Whom the server trusts to forward: everyone, or half of the peers.
MCTrustedRanges ==
  {[family |-> "v4", base |-> 2, bits |-> 0], [family |-> "v6", base |-> 2, bits |-> 1]}
MCCollaborators == <<"store", "llm">>

\* Two names of spaces with one directory, and one with its own.
MCSlugOf == [n \in SpaceNames |-> IF n = "Legal" THEN "legal" ELSE "a_b"]

VARIABLE subject   \* the component this behaviour is about

Init ==
  /\ subject \in {"limit", "accounts", "acl", "calls", "facts", "turns", "memory", "table", "adapters", "env", "yaml", "registry", "key", "telemetry",
                  "gate", "health", "shutdown", "tenants", "spaces"}
  /\ LimitInit /\ AccountsInit /\ AclInit /\ RecordsInit
  /\ subject # "accounts" => mix = {l1, c1}
  /\ memberRole[u1] = "owner" /\ (subject # "acl" => \A u \in Members : memberRole[u] = "owner")
  /\ bootRoom # "w2" /\ (subject # "calls" => bootRoom = "none")
  /\ \A p \in People : roleOf[p] = "admin" => p = "ann"
  /\ QueuesInit /\ (subject # "table" => driver)
  /\ StartupInit /\ (subject # "key" => vaultMode = "memory")
  /\ GateInit /\ (subject # "gate" => trusted = [family |-> "v4", base |-> 2, bits |-> 0])
  /\ CommandInit /\ (subject # "tenants" => homeMade)

TablesNext ==
  /\ \/ subject = "limit" /\ LimitNext /\ UNCHANGED <<accountVars, aclVars, recordVars>>
     \/ subject = "accounts" /\ AccountsNext /\ UNCHANGED <<limitVars, aclVars, recordVars>>
     \/ subject = "acl" /\ AclNext /\ UNCHANGED <<limitVars, accountVars, recordVars>>
     \/ /\ UNCHANGED <<limitVars, accountVars, aclVars>>
        /\ \/ subject = "calls" /\ RouteNext
           \/ subject = "facts" /\ FactNext
           \/ subject = "turns" /\ TurnNext
  /\ UNCHANGED <<queueVars, startupVars, gateVars>>

ClaimsNext ==
  /\ \/ subject = "memory" /\ MemoryQueueNext
     \/ subject = "table" /\ TableQueueNext
     \/ subject = "adapters" /\ \E n \in Adapters, w \in QueueWorkers : RegisterAdapter(n, w)
  /\ UNCHANGED <<startupVars, gateVars>>

BootNext ==
  /\ \/ subject = "env" /\ LoadSettings
     \/ subject = "yaml" /\ ReadLine
     \/ subject = "registry" /\ RegistryNext
     \/ subject = "key" /\ KeyNext
     \/ subject = "telemetry" /\ TelemetryNext
  /\ UNCHANGED <<queueVars, gateVars>>

RequestNext ==
  /\ \/ subject = "gate" /\ GateRequestNext
     \/ subject = "health" /\ HealthNext
     \/ subject = "shutdown" /\ ShutdownNext
  /\ UNCHANGED <<queueVars, startupVars>>

ShellNext ==
  /\ \/ subject = "tenants" /\ TenantNext
     \/ subject = "spaces" /\ SpaceNext
  /\ UNCHANGED <<queueVars, startupVars, gateVars>>

Next ==
  /\ UNCHANGED subject
  /\ \/ TablesNext /\ UNCHANGED commandVars
     \/ /\ \/ (ClaimsNext \/ BootNext \/ RequestNext) /\ UNCHANGED commandVars
           \/ ShellNext
        /\ UNCHANGED <<limitVars, accountVars, aclVars, recordVars>>

serverVars ==
  <<limitVars, accountVars, aclVars, recordVars, queueVars, startupVars, gateVars, commandVars,
    subject>>

Spec == Init /\ [][Next]_serverVars

TypeOK ==
  LimitTypeOK /\ AccountsTypeOK /\ AclTypeOK /\ RecordsTypeOK /\ QueuesTypeOK
  /\ StartupTypeOK /\ GateTypeOK /\ CommandTypeOK

\* What was configured, admitted, answered or reported stays so whoever runs beside it:
\* the settings, plugins and passphrase of a start, secrets that are not sent, the rules
\* of the gate and what the server says and does about its health and end, subscriptions
\* and ratings, and the files of the command line.
PromisesAreKept ==
  StartsAsConfigured /\ SecretsAreMasked /\ GateHolds /\ RecordsAreKept /\ CommandsKeepFiles

\* What is made of a config file, of an address, of the rows of the small tables and of the
\* list of tenants is what they say.
ReadingsAreTrue == ConfigNests /\ ForwardedIsTrusted /\ RecordsAreRead /\ TenantsAreDistinct
=============================================================================
