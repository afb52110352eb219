---------------------------- MODULE Boot_proofs -----------------------------
(***************************************************************************)
(* Proofs about what a process does when it starts.                        *)
(*                                                                         *)
(* Supervisor, for every set of replicas, roles, workspaces and bounds:    *)
(* one worker per workspace needs scans that do not overlap.               *)
(*                                                                         *)
(* Migrations, for every set of processes and jobs, every file left by an  *)
(* earlier version and every number of crashes: as long as opens have not  *)
(* overlapped, the rebuild of the job table loses nothing.                 *)
(***************************************************************************)
EXTENDS Supervisor, Migrations, TLAPS

\* A scan ends before the next tick of the interval.
OneScan == \A s, t \in Slots : s = t

\* The map knows the live workers; while stop() runs, the keys it has passed
\* are dead; what a scan awaits has no worker.
WorkersInv ==
  \A r \in Replicas :
    /\ \A ws \in Workspaces :
         live[r][ws] = IF phase[r] = "draining"
                       THEN IF ws \in toStop[r] THEN 1 ELSE 0
                       ELSE IF ws \in mapped[r] THEN 1 ELSE 0
    /\ \A s \in Slots : scan[r][s] # 0 => known[r][scan[r][s]] \notin mapped[r]
    /\ phase[r] # "serving" => ~polling[r]
    /\ phase[r] = "down" => mapped[r] = {} /\ \A s \in Slots : scan[r][s] = 0

-----------------------------------------------------------------------------
LEMMA SuspendsType ==
  ASSUME SupervisorTypeOK, NEW r \in Replicas, NEW s \in Slots, NEW seq \in Seq(Workspaces),
         NEW i \in Nat, NEW skip, Suspends(r, s, seq, i, skip)
  PROVE  /\ scan' \in [Replicas -> [Slots -> Nat]]
         /\ scan'[r][s] <= Len(seq)
         /\ \A q \in Replicas, t \in Slots :
              q # r \/ t # s => scan'[q][t] = scan[q][t]
  BY DEF Suspends, SupervisorTypeOK

LEMMA InitWorkers == SupervisorInit => SupervisorTypeOK
  BY RestartAssumption DEF SupervisorInit, SupervisorTypeOK, NoScan, NoWorker

LEMMA ForgetType ==
  ASSUME SupervisorTypeOK, WorkersInv, NEW r \in Replicas, Forget(r), UNCHANGED registered,
         restarts' \in 0 .. MaxRestarts, failures' \in 0 .. MaxFailures
  PROVE  SupervisorTypeOK' /\ WorkersInv'
<1>1. NoScan \in [Slots -> Nat] /\ NoWorker \in [Workspaces -> Nat]
  BY DEF NoScan, NoWorker
<1>2. \A q \in Replicas, t \in Slots :
        scan'[q][t] <= Len(known'[q]) /\ (q = r => scan'[q][t] = 0)
  BY DEF Forget, SupervisorTypeOK, NoScan
<1>3. SupervisorTypeOK'
  BY <1>1, <1>2 DEF Forget, SupervisorTypeOK
<1>4. WorkersInv'
  BY <1>2 DEF Forget, SupervisorTypeOK, WorkersInv, NoWorker
<1> QED BY <1>3, <1>4

LEMMA FirstType ==
  ASSUME SupervisorTypeOK
  PROVE  SubSeq(registered, 1, IF registered = <<>> THEN 0 ELSE 1) \in Seq(Workspaces)
  BY DEF SupervisorTypeOK

LEMMA SuspendsSkips ==
  ASSUME SupervisorTypeOK, NEW r \in Replicas, NEW s \in Slots, NEW seq, NEW i \in Nat,
         NEW skip, Suspends(r, s, seq, i, skip), scan'[r][s] # 0
  PROVE  seq[scan'[r][s]] \notin skip
  BY DEF Suspends, SupervisorTypeOK

\* What a scan step leaves alone and what it establishes.
LEMMA ScanStep ==
  ASSUME OneScan, SupervisorTypeOK, WorkersInv, NEW r \in Replicas, NEW s \in Slots, NEW i \in Nat,
         Suspends(r, s, known[r], i, mapped[r]), phase[r] # "down",
         failures' \in 0 .. MaxFailures,
         UNCHANGED <<registered, process, mapped, live, toStop, restarts>>
  PROVE  SupervisorTypeOK' /\ WorkersInv'
<1>1. known[r] \in Seq(Workspaces)
  BY DEF SupervisorTypeOK
<1>2. /\ scan' \in [Replicas -> [Slots -> Nat]]
      /\ scan'[r][s] <= Len(known[r])
      /\ \A q \in Replicas, t \in Slots :
           q # r \/ t # s => scan'[q][t] = scan[q][t]
  BY <1>1, SuspendsType
<1>3. scan'[r][s] # 0 => known[r][scan'[r][s]] \notin mapped[r]
  BY <1>1, SuspendsSkips
<1>4. \A q \in Replicas, t \in Slots : scan'[q][t] <= Len(known[q])
  BY <1>2 DEF SupervisorTypeOK
<1>5. SupervisorTypeOK'
  BY <1>2, <1>4 DEF SupervisorTypeOK, process
<1>6. \A q \in Replicas, t \in Slots :
        scan'[q][t] # 0 => known[q][scan'[q][t]] \notin mapped[q]
  BY <1>2, <1>3 DEF WorkersInv
<1>7. ASSUME NEW q \in Replicas, phase[q] = "down"
      PROVE  mapped[q] = {} /\ \A t \in Slots : scan'[q][t] = 0
  <2>1. mapped[q] = {} /\ \A t \in Slots : scan[q][t] = 0
    BY <1>7 DEF WorkersInv
  <2>2. q # r
    BY <1>7
  <2> QED BY <1>2, <2>1, <2>2
<1>8. UNCHANGED <<live, phase, toStop, mapped, known, polling>>
  BY DEF process
<1>9. WorkersInv'
  BY <1>6, <1>7, <1>8 DEF WorkersInv
<1> QED BY <1>5, <1>9

LEMMA NextInv ==
  ASSUME OneScan, SupervisorTypeOK, WorkersInv, [SupervisorNext]_supervisorVars
  PROVE  SupervisorTypeOK' /\ WorkersInv'
<1>1. ASSUME NEW r \in Replicas, Boot(r) PROVE SupervisorTypeOK' /\ WorkersInv'
  <2> DEFINE first == SubSeq(registered, 1, IF registered = <<>> THEN 0 ELSE 1)
  <2>1. first \in Seq(Workspaces)
    BY FirstType
  <2>2. PICK s \in Slots : Suspends(r, s, first, 0, {})
    BY <1>1 DEF Boot
  <2>3. known' = [known EXCEPT ![r] = first]
    BY <1>1 DEF Boot
  <2> HIDE DEF first
  <2>4. /\ scan' \in [Replicas -> [Slots -> Nat]]
        /\ scan'[r][s] <= Len(first)
        /\ \A q \in Replicas, t \in Slots :
             q # r \/ t # s => scan'[q][t] = scan[q][t]
    BY <2>1, <2>2, SuspendsType
  <2>5. \A q \in Replicas, t \in Slots : scan'[q][t] <= Len(known'[q])
    BY <2>1, <2>3, <2>4 DEF SupervisorTypeOK, OneScan
  <2>6. SupervisorTypeOK'
    <3>1. polling' \in [Replicas -> BOOLEAN]
      <4>1. polling' = [polling EXCEPT ![r] = r \in Leaders] /\ (r \in Leaders) \in BOOLEAN
        BY <1>1 DEF Boot
      <4> QED BY <4>1, Zenon DEF SupervisorTypeOK
    <3>2. phase' \in [Replicas -> {"down", "serving", "draining"}]
      BY <1>1 DEF Boot, SupervisorTypeOK
    <3>3. known' \in [Replicas -> Seq(Workspaces)]
      BY <2>1, <2>3 DEF SupervisorTypeOK
    <3> QED BY <1>1, <2>4, <2>5, <3>1, <3>2, <3>3 DEF Boot, SupervisorTypeOK
  <2>7. mapped[r] = {}
    BY <1>1 DEF Boot, WorkersInv, SupervisorTypeOK
  <2>8. /\ phase' = [phase EXCEPT ![r] = "serving"]
        /\ polling' = [polling EXCEPT ![r] = r \in Leaders]
        /\ phase[r] = "down"
        /\ UNCHANGED <<mapped, live, toStop>>
    BY <1>1 DEF Boot
  <2>9. WorkersInv'
    <3>1. phase'[r] = "serving" /\ \A q \in Replicas : q # r => phase'[q] = phase[q]
      BY <2>8 DEF SupervisorTypeOK
    <3>2. \A q \in Replicas : q # r => polling'[q] = polling[q] /\ known'[q] = known[q]
      BY <2>3, <2>8 DEF SupervisorTypeOK
    <3>3. \A q \in Replicas, ws \in Workspaces :
            live'[q][ws] = IF phase'[q] = "draining"
                           THEN IF ws \in toStop'[q] THEN 1 ELSE 0
                           ELSE IF ws \in mapped'[q] THEN 1 ELSE 0
      BY <2>8, <3>1 DEF WorkersInv
    <3>4. ASSUME NEW q \in Replicas, NEW t \in Slots, scan'[q][t] # 0
          PROVE  known'[q][scan'[q][t]] \notin mapped'[q]
      <4>1. CASE q = r BY <4>1, <2>7, <2>8
      <4>2. CASE q # r
        <5>1. scan'[q][t] = scan[q][t] /\ known'[q] = known[q] /\ mapped'[q] = mapped[q]
          BY <4>2, <3>2, <2>4, <2>8
        <5>2. scan[q][t] # 0 => known[q][scan[q][t]] \notin mapped[q]
          BY DEF WorkersInv
        <5> QED BY <5>1, <5>2, <3>4
      <4> QED BY <4>1, <4>2
    <3>5. \A q \in Replicas : phase'[q] # "serving" => ~polling'[q]
      BY <3>1, <3>2 DEF WorkersInv
    <3>6. ASSUME NEW q \in Replicas, phase'[q] = "down"
          PROVE  mapped'[q] = {} /\ \A t \in Slots : scan'[q][t] = 0
      <4>1. q # r /\ phase[q] = "down"
        BY <3>1, <3>6
      <4>2. mapped[q] = {} /\ \A t \in Slots : scan[q][t] = 0
        BY <4>1 DEF WorkersInv
      <4> QED BY <4>1, <4>2, <2>4, <2>8
    <3>7. \A q \in Replicas, t \in Slots :
            scan'[q][t] # 0 => known'[q][scan'[q][t]] \notin mapped'[q]
      BY <3>4, Zenon
    <3> QED BY <3>3, <3>5, <3>6, <3>7 DEF WorkersInv
  <2> QED BY <2>6, <2>9
<1>2. ASSUME NEW r \in Replicas, NEW ws \in Workspaces, Register(r, ws)
      PROVE  SupervisorTypeOK' /\ WorkersInv'
  BY <1>2 DEF Register, workers, SupervisorTypeOK, WorkersInv
<1>3. ASSUME NEW r \in Replicas, Sigterm(r) PROVE SupervisorTypeOK' /\ WorkersInv'
  BY <1>3, RestartAssumption DEF Sigterm, SupervisorTypeOK, WorkersInv
<1>4. ASSUME NEW r \in Replicas, NEW ws \in Workspaces, StopWorker(r, ws)
      PROVE  SupervisorTypeOK' /\ WorkersInv'
  BY <1>4 DEF StopWorker, process, SupervisorTypeOK, WorkersInv
<1>5. ASSUME NEW r \in Replicas, Exit(r) PROVE SupervisorTypeOK' /\ WorkersInv'
  BY <1>5, ForgetType DEF Exit, SupervisorTypeOK
<1>6. ASSUME NEW r \in Replicas, Crash(r) PROVE SupervisorTypeOK' /\ WorkersInv'
  <2>1. restarts' \in 0 .. MaxRestarts
    BY <1>6, RestartAssumption DEF Crash, SupervisorTypeOK
  <2> QED BY <1>6, <2>1, ForgetType DEF Crash, SupervisorTypeOK
<1>7. ASSUME NEW r \in Replicas, NEW s \in Slots, Tick(r, s)
      PROVE  SupervisorTypeOK' /\ WorkersInv'
  <2>1. phase[r] # "down" /\ Suspends(r, s, known[r], 0, mapped[r])
    BY <1>7 DEF Tick, WorkersInv, SupervisorTypeOK
  <2>2. failures' \in 0 .. MaxFailures
    BY <1>7 DEF Tick, SupervisorTypeOK
  <2> QED BY <1>7, <2>1, <2>2, ScanStep DEF Tick
<1>8. ASSUME NEW r \in Replicas, NEW s \in Slots, Resolve(r, s)
      PROVE  SupervisorTypeOK' /\ WorkersInv'
  <2> DEFINE ws == known[r][scan[r][s]]
             skip == mapped[r] \cup {ws}
  <2>1. known[r] \in Seq(Workspaces) /\ scan[r][s] \in 1 .. Len(known[r])
    BY <1>8 DEF Resolve, SupervisorTypeOK
  <2>2. ws \in Workspaces /\ ws \notin mapped[r]
    BY <1>8, <2>1 DEF Resolve, WorkersInv
  <2>3. Suspends(r, s, known[r], scan[r][s], skip)
    BY <1>8 DEF Resolve
  <2>4. /\ live' = [live EXCEPT ![r][ws] = @ + 1]
        /\ mapped' = [mapped EXCEPT ![r] = skip]
        /\ toStop' = [toStop EXCEPT ![r] =
                        IF phase[r] = "draining" THEN @ \cup {ws} ELSE @]
        /\ UNCHANGED <<registered, process, restarts, failures>>
    BY <1>8, <2>2 DEF Resolve
  <2>5. /\ scan' \in [Replicas -> [Slots -> Nat]]
        /\ scan'[r][s] <= Len(known[r])
        /\ \A q \in Replicas, t \in Slots :
             q # r \/ t # s => scan'[q][t] = scan[q][t]
        /\ scan'[r][s] # 0 => known[r][scan'[r][s]] \notin skip
    BY <2>1, <2>3, SuspendsType, SuspendsSkips
  <2> HIDE DEF ws, skip
  <2>6. SupervisorTypeOK'
    <3>1. \A q \in Replicas, t \in Slots : scan'[q][t] <= Len(known[q])
      BY <2>5 DEF SupervisorTypeOK
    <3>2. skip \in SUBSET Workspaces
      BY <2>2 DEF skip, SupervisorTypeOK
    <3>3. \A q \in Replicas : toStop'[q] \subseteq mapped'[q]
      BY <2>2, <2>4 DEF skip, SupervisorTypeOK
    <3>4. live' \in [Replicas -> [Workspaces -> Nat]]
      BY <2>2, <2>4 DEF SupervisorTypeOK
    <3>5. /\ mapped' \in [Replicas -> SUBSET Workspaces]
          /\ toStop' \in [Replicas -> SUBSET Workspaces]
      BY <2>2, <2>4, <3>2 DEF SupervisorTypeOK
    <3> QED BY <2>4, <2>5, <3>1, <3>3, <3>4, <3>5 DEF SupervisorTypeOK, process
  <2>7. WorkersInv'
    <3>1. ASSUME NEW q \in Replicas, NEW v \in Workspaces
          PROVE  live'[q][v] = IF phase[q] = "draining"
                               THEN IF v \in toStop'[q] THEN 1 ELSE 0
                               ELSE IF v \in mapped'[q] THEN 1 ELSE 0
      BY <2>2, <2>4 DEF SupervisorTypeOK, WorkersInv, skip
    <3>2. ASSUME NEW q \in Replicas, NEW t \in Slots, scan'[q][t] # 0
          PROVE  known[q][scan'[q][t]] \notin mapped'[q]
      BY SMTT(30), <2>4, <2>5, <3>2 DEF SupervisorTypeOK, WorkersInv, OneScan
    <3>3. phase[r] # "down"
      BY <1>8 DEF Resolve, WorkersInv
    <3>4. ASSUME NEW q \in Replicas, phase[q] = "down"
          PROVE  mapped'[q] = {} /\ \A t \in Slots : scan'[q][t] = 0
      BY <2>4, <2>5, <3>3, <3>4 DEF SupervisorTypeOK, WorkersInv
    <3> QED BY <2>4, <3>1, <3>2, <3>4 DEF WorkersInv, process
  <2> QED BY <2>6, <2>7
<1>9. ASSUME NEW r \in Replicas, NEW s \in Slots, ResolveFails(r, s)
      PROVE  SupervisorTypeOK' /\ WorkersInv'
  <2>1. scan[r][s] \in Nat /\ failures' \in 0 .. MaxFailures
    BY <1>9, RestartAssumption DEF ResolveFails, SupervisorTypeOK
  <2>2. Suspends(r, s, known[r], scan[r][s], mapped[r])
    BY <1>9 DEF ResolveFails
  <2>3. phase[r] # "down"
    BY <1>9 DEF ResolveFails, WorkersInv
  <2> QED BY <1>9, <2>1, <2>2, <2>3, ScanStep DEF ResolveFails
<1>10. CASE UNCHANGED supervisorVars
  BY <1>10 DEF supervisorVars, process, workers, SupervisorTypeOK, WorkersInv
<1> QED BY <1>1, <1>2, <1>3, <1>4, <1>5, <1>6, <1>7, <1>8, <1>9, <1>10
        DEF SupervisorNext, ReplicaStep

LEMMA InvCorrect ==
  ASSUME OneScan
  PROVE  SupervisorSpec => [](SupervisorTypeOK /\ WorkersInv)
<1>1. SupervisorInit => SupervisorTypeOK /\ WorkersInv
  BY InitWorkers DEF SupervisorInit, WorkersInv, NoScan, NoWorker
<1>2. (SupervisorTypeOK /\ WorkersInv) /\ [SupervisorNext]_supervisorVars => (SupervisorTypeOK /\ WorkersInv)'
  BY NextInv
<1> QED BY <1>1, <1>2, PTL DEF SupervisorSpec

-----------------------------------------------------------------------------
\* With scans that do not overlap, no process runs two workers of a workspace,
\* whatever boots, failures to open, shutdowns and crashes happen.
THEOREM OneWorkerCorrect ==
  ASSUME OneScan
  PROVE  SupervisorSpec => []OneWorkerPerWorkspace
<1>1. SupervisorTypeOK /\ WorkersInv => OneWorkerPerWorkspace
  BY DEF WorkersInv, OneWorkerPerWorkspace
<1> QED BY <1>1, InvCorrect, PTL

\* ... and stop() can reach every live worker.
THEOREM MapCorrect ==
  ASSUME OneScan
  PROVE  SupervisorSpec => []MapHoldsLiveWorkers
<1>1. SupervisorTypeOK /\ WorkersInv => MapHoldsLiveWorkers
  BY DEF WorkersInv, MapHoldsLiveWorkers
<1> QED BY <1>1, InvCorrect, PTL

\* Together: one worker for a workspace, and the map names it.
THEOREM WorkersCorrect ==
  ASSUME OneScan
  PROVE  SupervisorSpec => []WorkersAreMapped
<1> QED BY OneWorkerCorrect, MapCorrect, PTL DEF WorkersAreMapped

\* ... so that a process that exits on SIGTERM kills no worker, a worker that
\* a scan started while stop() was already running included.
THEOREM ExitCorrect ==
  ASSUME OneScan
  PROVE  SupervisorSpec => ExitKillsNoWorker
<1>1. SupervisorTypeOK /\ WorkersInv => [\A r \in Replicas : Exit(r) => live[r] = NoWorker]_supervisorVars
  BY DEF WorkersInv, SupervisorTypeOK, Exit, NoWorker
<1> QED BY <1>1, InvCorrect, PTL DEF SupervisorSpec, ExitKillsNoWorker

-----------------------------------------------------------------------------
(* Migrations.                                                             *)

Migrating(p) == stage[p] = "migrating"

\* Opens do not overlap; a process is open only when all is recorded, and
\* one that then starts opening finds all applied.
Alone ==
  /\ \A p, q \in Processes : Opening(p) /\ Opening(q) => p = q
  /\ \A p \in Processes : stage[p] = "open" =>
       /\ recorded = Ids
       /\ \A q \in Processes : Migrating(q) => applied[q] = Ids

\* What is recorded is what p found applied or has recorded itself.
Followed ==
  \A p \in Processes : Migrating(p) =>
    \A i \in DOMAIN Script : Script[i].sql = "record" =>
      (Script[i].id \in recorded <=> Script[i].id \in applied[p] \/ i < at[p])

\* A recorded migration has done its work.
Done ==
  /\ "0009" \in recorded => {"jobs", "kind"} \subseteq schema /\ "jobs_new" \notin schema
  /\ "0011" \in recorded => "display_name" \in schema

\* Where the jobs are between the statements of 0009, and the column of 0011.
Rebuilding ==
  \A p \in Processes : Migrating(p) =>
    /\ "0009" \notin applied[p] =>
         /\ at[p] \in 3 .. 5 => "jobs_new" \in schema
         /\ at[p] \in 4 .. 5 => accepted \subseteq new
         /\ at[p] \in 6 .. 7 => {"jobs", "kind"} \subseteq schema /\ "jobs_new" \notin schema
    /\ "0011" \notin applied[p] /\ at[p] = 11 => "display_name" \in schema

RebuildInv == Alone /\ Followed /\ Done /\ Rebuilding /\ JobsSurviveOverlap

\* It holds until two opens overlap.
InvUntil == ~overlapped => RebuildInv

-----------------------------------------------------------------------------
LEMMA ScriptEntries ==
  /\ DOMAIN Script = 1 .. 12 /\ Len(Script) = 12
  /\ \A i \in 1 .. 12 :
       /\ Script[i].id = "0008" <=> i = 1
       /\ Script[i].id = "0009" <=> i \in 2 .. 7
       /\ Script[i].id = "0010" <=> i \in 8 .. 9
       /\ Script[i].id = "0011" <=> i \in 10 .. 11
       /\ Script[i].id = "0012" <=> i = 12
       /\ Script[i].sql = "record" <=> i \in {1, 7, 9, 11, 12}
       /\ Script[i].sql = "create" <=> i = 2
       /\ Script[i].sql = "copy" <=> i = 3
       /\ Script[i].sql = "drop" <=> i = 4
       /\ Script[i].sql = "rename" <=> i = 5
       /\ Script[i].sql = "index" <=> i = 6
       /\ Script[i].sql = "vector" <=> i = 8
       /\ Script[i].sql = "column" <=> i = 10
       /\ Script[i].id \in Ids
<1>1. DOMAIN Script = 1 .. 12 /\ Len(Script) = 12 BY DEF Script
<1>2. ASSUME NEW i \in 1 .. 12
      PROVE \/ i = 1 \/ i = 2 \/ i = 3 \/ i = 4 \/ i = 5 \/ i = 6
            \/ i = 7 \/ i = 8 \/ i = 9 \/ i = 10 \/ i = 11 \/ i = 12
  OBVIOUS
<1>3. /\ Script[1] = [id |-> "0008", sql |-> "record"]
      /\ Script[2] = [id |-> "0009", sql |-> "create"]
      /\ Script[3] = [id |-> "0009", sql |-> "copy"]
      /\ Script[4] = [id |-> "0009", sql |-> "drop"]
      /\ Script[5] = [id |-> "0009", sql |-> "rename"]
      /\ Script[6] = [id |-> "0009", sql |-> "index"]
      /\ Script[7] = [id |-> "0009", sql |-> "record"]
      /\ Script[8] = [id |-> "0010", sql |-> "vector"]
      /\ Script[9] = [id |-> "0010", sql |-> "record"]
      /\ Script[10] = [id |-> "0011", sql |-> "column"]
      /\ Script[11] = [id |-> "0011", sql |-> "record"]
      /\ Script[12] = [id |-> "0012", sql |-> "record"]
  BY DEF Script
<1> QED BY <1>1, <1>2, <1>3 DEF Ids

LEMMA InitSchema == MigrationInit => MigrationTypeOK
<1> SUFFICES ASSUME MigrationInit PROVE MigrationTypeOK
  OBVIOUS
<1>1. at \in [Processes -> 1 .. Len(Script) + 1]
  BY ScriptEntries DEF MigrationInit
<1>2. stage \in [Processes -> {"closed", "loading", "migrating", "open"}] /\ overlapped \in BOOLEAN
  BY DEF MigrationInit
<1> QED
  BY <1>1, <1>2, JobAssumption, FlagAssumption DEF MigrationInit, MigrationTypeOK, JobAssumption, FlagAssumption

LEMMA AdvanceType ==
  ASSUME MigrationTypeOK, NEW p \in Processes, AtEntry(p), Advance(p)
  PROVE  /\ at' \in [Processes -> 1 .. Len(Script) + 1]
         /\ stage' \in [Processes -> {"closed", "loading", "migrating", "open"}]
         /\ applied' \in [Processes -> SUBSET Ids]
         /\ accepted' \in SUBSET Jobs /\ overlapped' \in BOOLEAN /\ crashes' \in 0 .. MaxCrashes
  BY ScriptEntries DEF MigrationTypeOK, AtEntry, Advance

LEMMA ThrowsType == ASSUME MigrationTypeOK, NEW p \in Processes, Throws(p) PROVE MigrationTypeOK'
  BY DEF MigrationTypeOK, Throws, file

LEMMA StepType == ASSUME MigrationTypeOK, [MigrationNext]_migrationVars PROVE MigrationTypeOK'
<1>1. ASSUME NEW p \in Processes, AtEntry(p), Advance(p),
             schema' \in SUBSET {"jobs", "kind", "jobs_new", "display_name", "vec_chunks"},
             old' \in SUBSET Jobs, new' \in SUBSET Jobs, recorded' \in SUBSET Ids,
             "jobs" \notin schema' => old' = {} /\ "kind" \notin schema',
             "jobs_new" \notin schema' => new' = {}
      PROVE  MigrationTypeOK'
  BY <1>1, AdvanceType DEF MigrationTypeOK
<1>2. ASSUME NEW p \in Processes, Statement(p) PROVE MigrationTypeOK'
  <2>0. AtEntry(p)
    BY <1>2 DEF Statement, Skip, CreateNew, Copy, DropOld, RenameNew, CreateIndex, CreateVector,
                AddColumn, Record, Runs
  <2>1. CASE Skip(p) BY <2>1, <2>0, <1>1 DEF Skip, file, MigrationTypeOK
  <2>2. CASE CreateNew(p) BY <2>2, <2>0, <1>1 DEF CreateNew, MigrationTypeOK
  <2>3. CASE Copy(p)
    <3>1. CASE Throws(p) BY <3>1, ThrowsType
    <3>2. CASE CanCopy /\ new' = new \cup old /\ Advance(p) /\ UNCHANGED <<schema, old, recorded>>
      BY <3>2, <2>0, <1>1 DEF CanCopy, MigrationTypeOK
    <3> QED BY <2>3, <3>1, <3>2 DEF Copy
  <2>4. CASE DropOld(p) BY <2>4, <2>0, <1>1 DEF DropOld, MigrationTypeOK
  <2>5. CASE RenameNew(p)
    <3>1. CASE Throws(p) BY <3>1, ThrowsType
    <3>2. CASE ~Throws(p) BY <2>5, <3>2, <2>0, <1>1 DEF RenameNew, CanRename, MigrationTypeOK
    <3> QED BY <3>1, <3>2
  <2>6. CASE CreateVector(p) BY <2>6, <2>0, <1>1 DEF CreateVector, MigrationTypeOK
  <2>7. CASE AddColumn(p)
    <3>1. CASE Throws(p) BY <3>1, ThrowsType
    <3>2. CASE ~Throws(p) BY <2>7, <3>2, <2>0, <1>1 DEF AddColumn, MigrationTypeOK
    <3> QED BY <3>1, <3>2
  <2>8. CASE Record(p)
    <3>1. CASE Throws(p) BY <3>1, ThrowsType
    <3>2. CASE ~Throws(p)
      <4>1. Script[at[p]].id \in Ids BY <2>0, ScriptEntries DEF AtEntry
      <4>2. recorded' \in SUBSET Ids /\ UNCHANGED <<schema, old, new>> /\ Advance(p)
        BY <2>8, <3>2, <4>1 DEF Record, MigrationTypeOK
      <4> QED BY <4>2, <2>0, <1>1 DEF MigrationTypeOK
    <3> QED BY <3>1, <3>2
  <2>9. CASE CreateIndex(p)
    <3>1. CASE Throws(p) BY <3>1, ThrowsType
    <3>2. CASE ~Throws(p) BY <2>9, <3>2, <2>0, <1>1 DEF CreateIndex, file, MigrationTypeOK
    <3> QED BY <3>1, <3>2
  <2> QED BY <1>2, <2>1, <2>2, <2>3, <2>4, <2>5, <2>6, <2>7, <2>8, <2>9 DEF Statement
<1>3. ASSUME NEW p \in Processes, Open(p) \/ ReadApplied(p) \/ Opened(p) PROVE MigrationTypeOK'
  <2>1. CASE Open(p) BY <2>1 DEF Open, CreateTables, MigrationTypeOK
  <2>2. CASE ReadApplied(p) BY <2>2, ScriptEntries DEF ReadApplied, MigrationTypeOK, file
  <2>3. CASE Opened(p) BY <2>3 DEF Opened, MigrationTypeOK, file
  <2> QED BY <1>3, <2>1, <2>2, <2>3
<1>4. ASSUME NEW p \in Processes, NEW j \in Jobs, Enqueue(p, j) PROVE MigrationTypeOK'
  BY <1>4 DEF Enqueue, MigrationTypeOK, opener
<1>5. ASSUME NEW p \in Processes, Close(p) \/ CrashOpening(p) PROVE MigrationTypeOK'
  <2>1. CASE Close(p) BY <2>1 DEF Close, MigrationTypeOK, file
  <2>2. CASE CrashOpening(p) BY <2>2, FlagAssumption DEF CrashOpening, MigrationTypeOK, file, FlagAssumption
  <2> QED BY <1>5, <2>1, <2>2
<1>6. CASE UNCHANGED migrationVars BY <1>6 DEF migrationVars, file, opener, MigrationTypeOK
<1> QED BY <1>2, <1>3, <1>4, <1>5, <1>6 DEF MigrationNext, OpenStep

-----------------------------------------------------------------------------
LEMMA InitInv == MigrationInit => RebuildInv
  BY JobAssumption DEF MigrationInit, RebuildInv, Alone, Opening, Migrating, Followed, Done, Rebuilding,
     JobsSurviveOverlap, Ids

\* A statement of p that does not throw moves p alone.
LEMMA AdvanceAlone ==
  ASSUME MigrationTypeOK, Alone, NEW p \in Processes, AtEntry(p), Advance(p),
         recorded \subseteq recorded', recorded' \subseteq Ids
  PROVE  /\ Alone'
         /\ at'[p] = at[p] + 1
         /\ applied' = applied /\ stage' = stage /\ accepted' = accepted
         /\ \A q \in Processes : Migrating(q) => q = p
         /\ (\E q \in Processes : stage[q] = "open") => applied[p] = Ids
  BY DEF MigrationTypeOK, Alone, Opening, Migrating, Advance, AtEntry

\* A process that stops, by an exception, a crash or a close.
LEMMA StopInv ==
  ASSUME MigrationTypeOK, RebuildInv, NEW p \in Processes, stage' = [stage EXCEPT ![p] = "closed"],
         UNCHANGED <<file, applied, at, accepted>>
  PROVE  RebuildInv'
  BY DEF MigrationTypeOK, RebuildInv, Alone, Opening, Migrating, Followed, Done, Rebuilding,
     JobsSurviveOverlap, file

LEMMA StatementInv ==
  ASSUME MigrationTypeOK, MigrationTypeOK', RebuildInv, NEW p \in Processes, Statement(p)
  PROVE  RebuildInv'
<1>0. AtEntry(p) /\ at[p] \in 1 .. 12 /\ Migrating(p)
  BY ScriptEntries
  DEF Statement, Skip, CreateNew, Copy, DropOld, RenameNew, CreateIndex, CreateVector, AddColumn,
      Record, Runs, AtEntry, Migrating
<1> USE DEF RebuildInv
<1>1. CASE Throws(p)
  BY <1>1, StopInv DEF Throws
<1>2. CASE ~Throws(p) /\ Advance(p) /\ recorded' = recorded /\ (Script[at[p]].sql = "record" => Skip(p))
  <2>1. Alone' /\ at'[p] = at[p] + 1 /\ applied' = applied /\ stage' = stage /\ accepted' = accepted
        /\ \A q \in Processes : Migrating(q) => q = p
    BY <1>0, <1>2, AdvanceAlone DEF MigrationTypeOK
  <2>2. Followed'
    <3>1. \A i \in DOMAIN Script : Script[i].sql = "record" =>
            (Script[i].id \in recorded <=> Script[i].id \in applied[p] \/ i < at[p])
      BY <1>0 DEF Followed
    <3>2. \A i \in DOMAIN Script : Script[i].sql = "record" =>
            (Script[i].id \in recorded <=> Script[i].id \in applied[p] \/ i < at[p] + 1)
      BY <3>1, <1>0, <1>2, ScriptEntries DEF Skip
    <3> QED BY <3>2, <2>1, <1>2 DEF Followed, Migrating
  <2>3. Done' /\ Rebuilding' /\ JobsSurviveOverlap'
    <3>1. "0009" \in recorded <=> "0009" \in applied[p] \/ 7 < at[p]
      BY <1>0, ScriptEntries DEF Followed
    <3>2. "0011" \in recorded <=> "0011" \in applied[p] \/ 11 < at[p]
      BY <1>0, ScriptEntries DEF Followed
    <3>3. SUFFICES /\ Done' /\ JobsSurviveOverlap'
                   /\ "0009" \notin applied[p] =>
                        /\ at[p] + 1 \in 3 .. 5 => "jobs_new" \in schema'
                        /\ at[p] + 1 \in 4 .. 5 => accepted \subseteq new'
                        /\ at[p] + 1 \in 6 .. 7 => {"jobs", "kind"} \subseteq schema' /\ "jobs_new" \notin schema'
                   /\ "0011" \notin applied[p] /\ at[p] + 1 = 11 => "display_name" \in schema'
      BY <2>1 DEF Rebuilding, Migrating
    <3> USE <1>0, <1>2, <2>1, <3>1, <3>2, ScriptEntries
    <3> USE DEF Done, Rebuilding, JobsSurviveOverlap
    <3>4. CASE Skip(p) BY <3>4 DEF Skip, file
    <3>5. CASE CreateNew(p) BY <3>5 DEF CreateNew, Runs
    <3>6. CASE Copy(p) BY <3>6 DEF Copy, CanCopy, Runs
    <3>7. CASE DropOld(p) BY <3>7 DEF DropOld, Runs
    <3>8. CASE RenameNew(p) BY <3>8 DEF RenameNew, CanRename, Runs
    <3>9. CASE CreateVector(p) BY <3>9 DEF CreateVector, Runs
    <3>10. CASE AddColumn(p) BY <3>10 DEF AddColumn, Runs
    <3>11. CASE Record(p) BY <3>11 DEF Record, Runs, Skip
    <3>12. CASE CreateIndex(p) BY <3>12 DEF CreateIndex, Runs, file
    <3> QED BY <3>4, <3>5, <3>6, <3>7, <3>8, <3>9, <3>10, <3>11, <3>12 DEF Statement
  <2> QED BY <2>1, <2>2, <2>3
<1>3. CASE Record(p) /\ ~Throws(p)
  <2> DEFINE id == Script[at[p]].id
  <2>1. /\ Script[at[p]].sql = "record" /\ id \notin applied[p] /\ id \in Ids
        /\ Advance(p) /\ recorded' = recorded \cup {id} /\ UNCHANGED <<schema, old, new>>
    BY <1>3, <1>0, ScriptEntries DEF Record, Runs
  <2>2. Alone' /\ at'[p] = at[p] + 1 /\ applied' = applied /\ stage' = stage /\ accepted' = accepted
        /\ \A q \in Processes : Migrating(q) => q = p
    BY <1>0, <2>1, AdvanceAlone DEF MigrationTypeOK
  <2>3. Followed'
    <3>1. \A i \in DOMAIN Script : Script[i].sql = "record" =>
            (Script[i].id \in recorded <=> Script[i].id \in applied[p] \/ i < at[p])
      BY <1>0 DEF Followed
    <3>2. \A i \in DOMAIN Script : Script[i].sql = "record" =>
            (Script[i].id \in recorded' <=> Script[i].id \in applied[p] \/ i < at[p] + 1)
      BY <3>1, <1>0, <2>1, ScriptEntries
    <3> QED BY <3>2, <2>2 DEF Followed, Migrating
  <2>4. Done' /\ Rebuilding' /\ JobsSurviveOverlap'
    BY <1>0, <2>1, <2>2, ScriptEntries DEF Done, Rebuilding, JobsSurviveOverlap, Migrating
  <2> QED BY <2>2, <2>3, <2>4
<1> QED
  BY <1>1, <1>2, <1>3
  DEF Statement, Skip, CreateNew, Copy, DropOld, RenameNew, CreateIndex, CreateVector, AddColumn,
      Record, Runs, file

\* An open that starts while another runs ends what is promised.
LEMMA StepInv ==
  ASSUME MigrationTypeOK, MigrationTypeOK', RebuildInv, ~overlapped', [MigrationNext]_migrationVars PROVE RebuildInv'
<1>1. ASSUME NEW p \in Processes, Statement(p) PROVE RebuildInv'
  BY <1>1, StatementInv
<1>2. ASSUME NEW p \in Processes, Open(p) PROVE RebuildInv'
  <2>1. \A q \in Processes : ~Opening(q)
    BY <1>2 DEF Open, CreateTables
  <2>2. \A q \in Processes : (Opening(q)' => q = p) /\ ~Migrating(q)'
    BY <1>2, <2>1 DEF Open, CreateTables, MigrationTypeOK, Opening, Migrating
  <2>3. \A q \in Processes : stage'[q] = "open" => stage[q] = "open"
    BY <1>2 DEF Open, CreateTables, MigrationTypeOK
  <2> QED
    BY <1>2, <2>2, <2>3 DEF Open, CreateTables, RebuildInv, Alone, Followed, Done, Rebuilding, JobsSurviveOverlap
<1>3. ASSUME NEW p \in Processes, ReadApplied(p) PROVE RebuildInv'
  <2>1. \A q \in Processes : ~Migrating(q)
    BY <1>3 DEF ReadApplied, RebuildInv, Alone, Opening, Migrating
  <2>2. \A q \in Processes : Migrating(q)' => q = p /\ at'[q] = 1 /\ applied'[q] = recorded
    BY <1>3, <2>1 DEF ReadApplied, MigrationTypeOK, Migrating
  <2>3. UNCHANGED <<schema, old, new, recorded, accepted>>
        /\ \A q \in Processes : /\ stage'[q] = "open" <=> stage[q] = "open"
                                /\ Opening(q)' <=> Opening(q)
    BY <1>3 DEF ReadApplied, MigrationTypeOK, Opening, file
  <2> QED BY <2>2, <2>3, ScriptEntries
          DEF RebuildInv, Alone, Followed, Done, Rebuilding, JobsSurviveOverlap
<1>4. ASSUME NEW p \in Processes, Opened(p) PROVE RebuildInv'
  <2>1. recorded = Ids
    <3>1. \A i \in {1, 7, 9, 11, 12} : Script[i].id \in recorded
      BY <1>4, ScriptEntries DEF Opened, RebuildInv, Followed, Migrating
    <3>2. {Script[1].id, Script[7].id, Script[9].id, Script[11].id, Script[12].id} = Ids
      BY DEF Script, Ids
    <3>3. Script[1].id \in recorded /\ Script[7].id \in recorded /\ Script[9].id \in recorded
          /\ Script[11].id \in recorded /\ Script[12].id \in recorded
      BY <3>1
    <3>4. recorded \subseteq Ids /\ Ids \subseteq recorded
      BY <3>2, <3>3 DEF MigrationTypeOK
    <3> QED BY <3>4
  <2>2. \A q \in Processes : ~Migrating(q)'
    BY <1>4 DEF Opened, MigrationTypeOK, RebuildInv, Alone, Opening, Migrating
  <2>3. UNCHANGED <<schema, old, new, recorded, accepted>>
        /\ \A q \in Processes : Opening(q)' => Opening(q)
    BY <1>4 DEF Opened, MigrationTypeOK, Opening, file
  <2> QED BY <2>1, <2>2, <2>3 DEF RebuildInv, Alone, Followed, Done, Rebuilding, JobsSurviveOverlap
<1>5. ASSUME NEW p \in Processes, NEW j \in Jobs, Enqueue(p, j) PROVE RebuildInv'
  <2>1. recorded = Ids /\ \A q \in Processes : Migrating(q) => applied[q] = Ids
    BY <1>5 DEF Enqueue, RebuildInv, Alone
  <2>2. \A q \in Processes : Migrating(q)' <=> Migrating(q)
    BY <1>5 DEF Enqueue, Migrating, opener
  <2> QED BY <1>5, <2>1, <2>2
          DEF Enqueue, opener, RebuildInv, Alone, Opening, Followed, Done, Rebuilding, JobsSurviveOverlap, Ids
<1>6. ASSUME NEW p \in Processes, Close(p) \/ CrashOpening(p) PROVE RebuildInv'
  BY <1>6, StopInv DEF Close, CrashOpening
<1>7. CASE UNCHANGED migrationVars
  BY <1>7 DEF migrationVars, file, opener, RebuildInv, Alone, Opening, Migrating, Followed, Done, Rebuilding,
     JobsSurviveOverlap
<1> QED BY <1>1, <1>2, <1>3, <1>4, <1>5, <1>6, <1>7 DEF MigrationNext, OpenStep

\* Once opens have overlapped, that stays so.
LEMMA OverlappedStays == ASSUME MigrationTypeOK, [MigrationNext]_migrationVars PROVE overlapped => overlapped'
  BY DEF MigrationNext, OpenStep, Open, CreateTables, ReadApplied, Statement, Opened, Enqueue, Close, CrashOpening, Skip,
     CreateNew, Copy, DropOld, RenameNew, CreateIndex, CreateVector, AddColumn, Record, Advance, Throws, migrationVars

\* Every reachable state is well typed, whether or not opens overlap.
THEOREM TypeCorrect == MigrationSpec => []MigrationTypeOK
  BY InitSchema, StepType, PTL DEF MigrationSpec

LEMMA Invariance == MigrationSpec => [](MigrationTypeOK /\ InvUntil)
<1>1. MigrationInit => MigrationTypeOK /\ InvUntil
  BY InitSchema, InitInv DEF InvUntil
<1>2. MigrationTypeOK /\ InvUntil /\ [MigrationNext]_migrationVars => (MigrationTypeOK /\ InvUntil)'
  BY StepType, StepInv, OverlappedStays DEF InvUntil
<1> QED BY <1>1, <1>2, PTL DEF MigrationSpec

\* A crash between any two statements of an open, and any number of retries,
\* loses no accepted job (migrations.ts 0009, the rebuild of the job table),
\* as long as no two opens have overlapped.
THEOREM AcceptedIsStoredCorrect == MigrationSpec => []AcceptedIsStored
<1>1. InvUntil => AcceptedIsStored
  BY DEF InvUntil, RebuildInv, JobsSurviveOverlap, AcceptedIsStored
<1> QED BY <1>1, Invariance, PTL

\* Whoever finishes opening sees the schema whole and every accepted job.
THEOREM OpenSeesAllCorrect == MigrationSpec => []OpenSeesAll
<1>1. MigrationTypeOK /\ InvUntil => OpenSeesAll
  BY DEF MigrationTypeOK, InvUntil, RebuildInv, Alone, Done, JobsSurviveOverlap, OpenSeesAll, Ids
<1> QED BY <1>1, Invariance, PTL

\* Together: no job is lost while a file is opened, and none is missing after.
THEOREM OpenIsWholeCorrect == MigrationSpec => []OpenIsWhole
  BY AcceptedIsStoredCorrect, OpenSeesAllCorrect, PTL DEF OpenIsWhole
=============================================================================
