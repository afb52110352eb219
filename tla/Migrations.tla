----------------------------- MODULE Migrations -----------------------------
(***************************************************************************)
(* Opening workspace.db: SCHEMA_SQL and the migration runner               *)
(* (core/src/workspace.ts openWorkspace, core/src/migrations.ts), by       *)
(* several processes and with crashes between any two statements.          *)
(*                                                                         *)
(* Every statement commits on its own: the runner opens no transaction.    *)
(* The table the migrations rebuild is the job queue, so its rows are      *)
(* followed; other tables are the presence of what a migration adds.       *)
(***************************************************************************)
EXTENDS Integers, Sequences, FiniteSets

CONSTANTS
  Processes,   \* the processes that open the file
  Jobs,        \* the jobs that may be enqueued
  OldJobs,     \* those in the file before anyone opens it
  Legacy,      \* the file's job table predates migration 0009 (no kind column)
  MaxCrashes   \* bound on crashes

ASSUME JobAssumption == OldJobs \subseteq Jobs
ASSUME FlagAssumption == Legacy \in BOOLEAN /\ MaxCrashes \in Nat

\* Mutant: a migration is recorded first and then run.
Script_RecordFirst ==
  << [id |-> "0008", sql |-> "record"],
     [id |-> "0009", sql |-> "record"],
     [id |-> "0009", sql |-> "create"],
     [id |-> "0009", sql |-> "copy"],
     [id |-> "0009", sql |-> "drop"],
     [id |-> "0009", sql |-> "rename"],
     [id |-> "0009", sql |-> "index"],
     [id |-> "0010", sql |-> "record"],
     [id |-> "0010", sql |-> "vector"],
     [id |-> "0011", sql |-> "record"],
     [id |-> "0011", sql |-> "column"],
     [id |-> "0012", sql |-> "record"] >>

\* MIGRATIONS, a statement at a time; each one ends with the row the runner
\* records.  "0008" stands for 0001..0008 and "0012" for itself: what they
\* create is IF NOT EXISTS and touches nothing followed here.
Script ==
  << [id |-> "0008", sql |-> "record"],
     [id |-> "0009", sql |-> "create"],
     [id |-> "0009", sql |-> "copy"],
     [id |-> "0009", sql |-> "drop"],
     [id |-> "0009", sql |-> "rename"],
     [id |-> "0009", sql |-> "index"],
     [id |-> "0009", sql |-> "record"],
     [id |-> "0010", sql |-> "vector"],
     [id |-> "0010", sql |-> "record"],
     [id |-> "0011", sql |-> "column"],
     [id |-> "0011", sql |-> "record"],
     [id |-> "0012", sql |-> "record"] >>

Ids == {"0008", "0009", "0010", "0011", "0012"}

VARIABLES
  schema,     \* what there is of "jobs" (the table ingestion_jobs), "kind" (its
              \* column), "jobs_new", "display_name" and "vec_chunks"
  old,        \* the rows of ingestion_jobs
  new,        \* the rows of ingestion_jobs_new
  recorded,   \* the ids in schema_migrations
  stage,      \* per process "closed", "loading", "migrating", "open"
  applied,    \* the ids runMigrations read when it started
  at,         \* the position in Script
  accepted,   \* the jobs enqueue() has returned for
  overlapped, \* history: two processes have been opening at the same time
  crashes

file == <<schema, old, new, recorded>>
opener == <<stage, applied, at>>
migrationVars == <<file, opener, accepted, overlapped, crashes>>

MigrationTypeOK ==
  /\ schema \in SUBSET {"jobs", "kind", "jobs_new", "display_name", "vec_chunks"}
  /\ old \in SUBSET Jobs /\ new \in SUBSET Jobs
  /\ "jobs" \notin schema => old = {} /\ "kind" \notin schema
  /\ "jobs_new" \notin schema => new = {}
  /\ recorded \in SUBSET Ids
  /\ stage \in [Processes -> {"closed", "loading", "migrating", "open"}]
  /\ applied \in [Processes -> SUBSET Ids]
  /\ at \in [Processes -> 1 .. Len(Script) + 1]
  /\ accepted \in SUBSET Jobs
  /\ overlapped \in BOOLEAN
  /\ crashes \in 0 .. MaxCrashes

\* No file, or one an earlier version left.
MigrationInit ==
  /\ schema = IF Legacy THEN {"jobs"} ELSE IF OldJobs # {} THEN {"jobs", "kind"} ELSE {}
  /\ old = OldJobs
  /\ new = {}
  /\ recorded = {}
  /\ stage = [p \in Processes |-> "closed"]
  /\ applied = [p \in Processes |-> {}]
  /\ at = [p \in Processes |-> 1]
  /\ accepted = OldJobs
  /\ overlapped = FALSE
  /\ crashes = 0

Opening(p) == stage[p] \in {"loading", "migrating"}

-----------------------------------------------------------------------------
(* openWorkspace                                                           *)

\* SCHEMA_SQL: CREATE TABLE IF NOT EXISTS for every table of a workspace; a table that
\* is there stays as it is, also one of an earlier version.
CreateTables(tables) == IF "jobs" \in tables THEN tables ELSE tables \cup {"jobs", "kind"}

\* After the tables import() is awaited.
Open(p) ==
  /\ stage[p] = "closed"
  /\ schema' = CreateTables(schema)
  /\ stage' = [stage EXCEPT ![p] = "loading"]
  /\ overlapped' = (overlapped \/ \E q \in Processes : Opening(q))
  /\ UNCHANGED <<old, new, recorded, applied, at, accepted, crashes>>

\* Mutant: the applied ids are never read: every open runs every migration.
ReadApplied_None(p) ==
  /\ stage[p] = "loading"
  /\ stage' = [stage EXCEPT ![p] = "migrating"]
  /\ applied' = [applied EXCEPT ![p] = {}]
  /\ at' = [at EXCEPT ![p] = 1]
  /\ UNCHANGED <<file, accepted, overlapped, crashes>>

\* runMigrations reads the applied ids once.
ReadApplied(p) ==
  /\ stage[p] = "loading"
  /\ stage' = [stage EXCEPT ![p] = "migrating"]
  /\ applied' = [applied EXCEPT ![p] = recorded]
  /\ at' = [at EXCEPT ![p] = 1]
  /\ UNCHANGED <<file, accepted, overlapped, crashes>>

AtEntry(p) == stage[p] = "migrating" /\ at[p] \in DOMAIN Script

\* The next statement of p, of a migration it has not found applied.
Runs(p, sql) ==
  /\ AtEntry(p)
  /\ Script[at[p]].sql = sql
  /\ Script[at[p]].id \notin applied[p]

Advance(p) ==
  at' = [at EXCEPT ![p] = @ + 1] /\ UNCHANGED <<stage, applied, accepted, overlapped, crashes>>

\* The statement throws: openWorkspace rejects and the next request retries.
Throws(p) ==
  stage' = [stage EXCEPT ![p] = "closed"] /\ UNCHANGED <<file, applied, at, accepted, overlapped, crashes>>

Skip(p) ==
  /\ AtEntry(p)
  /\ Script[at[p]].id \in applied[p]
  /\ Advance(p) /\ UNCHANGED file

\* Mutant: the rebuild starts from an empty table each time (DROP and CREATE).
CreateNew_Afresh(p) ==
  /\ Runs(p, "create")
  /\ schema' = schema \cup {"jobs_new"}
  /\ new' = {}
  /\ Advance(p) /\ UNCHANGED <<old, recorded>>

\* CREATE TABLE IF NOT EXISTS ingestion_jobs_new
CreateNew(p) ==
  /\ Runs(p, "create")
  /\ schema' = schema \cup {"jobs_new"}
  /\ Advance(p) /\ UNCHANGED <<old, new, recorded>>

\* INSERT OR IGNORE INTO ingestion_jobs_new SELECT ..., COALESCE(kind, ...)
\* FROM ingestion_jobs: both tables and the column must be there.
CanCopy == {"jobs", "jobs_new", "kind"} \subseteq schema

Copy(p) ==
  /\ Runs(p, "copy")
  /\ \/ /\ CanCopy
        /\ new' = new \cup old
        /\ Advance(p) /\ UNCHANGED <<schema, old, recorded>>
     \/ ~CanCopy /\ Throws(p)

\* DROP TABLE IF EXISTS ingestion_jobs
DropOld(p) ==
  /\ Runs(p, "drop")
  /\ schema' = schema \ {"jobs", "kind"}
  /\ old' = {}
  /\ Advance(p) /\ UNCHANGED <<new, recorded>>

\* ALTER TABLE ingestion_jobs_new RENAME TO ingestion_jobs
CanRename == "jobs_new" \in schema /\ "jobs" \notin schema

RenameNew(p) ==
  /\ Runs(p, "rename")
  /\ \/ /\ CanRename
        /\ schema' = (schema \ {"jobs_new"}) \cup {"jobs", "kind"}
        /\ old' = new /\ new' = {}
        /\ Advance(p) /\ UNCHANGED recorded
     \/ ~CanRename /\ Throws(p)

\* CREATE INDEX IF NOT EXISTS idx_ingestion_jobs_status ON ingestion_jobs: only
\* without the table it fails.
CreateIndex(p) ==
  /\ Runs(p, "index")
  /\ \/ "jobs" \in schema /\ Advance(p) /\ UNCHANGED file
     \/ "jobs" \notin schema /\ Throws(p)

\* CREATE VIRTUAL TABLE IF NOT EXISTS vec_chunks: when the extension did not
\* load, the error is swallowed.
CreateVector(p) ==
  /\ Runs(p, "vector")
  /\ schema' \in {schema, schema \cup {"vec_chunks"}}
  /\ Advance(p) /\ UNCHANGED <<old, new, recorded>>

\* ALTER TABLE workspace_member ADD COLUMN display_name
AddColumn(p) ==
  /\ Runs(p, "column")
  /\ \/ /\ "display_name" \notin schema
        /\ schema' = schema \cup {"display_name"}
        /\ Advance(p) /\ UNCHANGED <<old, new, recorded>>
     \/ "display_name" \in schema /\ Throws(p)

\* INSERT INTO schema_migrations, whose id is the primary key.
Record(p) ==
  /\ Runs(p, "record")
  /\ LET id == Script[at[p]].id IN
     \/ /\ id \notin recorded
        /\ recorded' = recorded \cup {id}
        /\ Advance(p) /\ UNCHANGED <<schema, old, new>>
     \/ id \in recorded /\ Throws(p)

Opened(p) ==
  /\ stage[p] = "migrating" /\ at[p] = Len(Script) + 1
  /\ stage' = [stage EXCEPT ![p] = "open"]
  /\ UNCHANGED <<file, applied, at, accepted, overlapped, crashes>>

-----------------------------------------------------------------------------
(* The process around it                                                   *)

\* SqliteJobQueue.enqueue on an open handle.
Enqueue(p, j) ==
  /\ stage[p] = "open" /\ j \notin accepted
  /\ "jobs" \in schema
  /\ old' = old \cup {j}
  /\ accepted' = accepted \cup {j}
  /\ UNCHANGED <<schema, new, recorded, opener, overlapped, crashes>>

\* handle.close(): an eviction or a shutdown.
Close(p) ==
  /\ stage[p] = "open"
  /\ stage' = [stage EXCEPT ![p] = "closed"]
  /\ UNCHANGED <<file, applied, at, accepted, overlapped, crashes>>

CrashOpening(p) ==
  /\ Opening(p) /\ crashes < MaxCrashes
  /\ stage' = [stage EXCEPT ![p] = "closed"]
  /\ crashes' = crashes + 1
  /\ UNCHANGED <<file, applied, at, accepted, overlapped>>

Statement(p) ==
  \/ Skip(p) \/ CreateNew(p) \/ Copy(p) \/ DropOld(p) \/ RenameNew(p)
  \/ CreateIndex(p) \/ CreateVector(p) \/ AddColumn(p) \/ Record(p)

OpenStep(p) == Open(p) \/ ReadApplied(p) \/ Statement(p) \/ Opened(p)

MigrationNext ==
  \E p \in Processes :
    \/ OpenStep(p)
    \/ \E j \in Jobs : Enqueue(p, j)
    \/ Close(p)
    \/ CrashOpening(p)

MigrationSpec == MigrationInit /\ [][MigrationNext]_migrationVars

\* A request that finds its workspace closed opens it, and a started open runs
\* to its end; several processes may be in each other's way, hence SF.
MigrationFairSpec ==
  /\ MigrationSpec
  /\ \A p \in Processes : /\ SF_migrationVars(Open(p))
                          /\ WF_migrationVars(ReadApplied(p) \/ Statement(p) \/ Opened(p))

-----------------------------------------------------------------------------
(* Properties                                                              *)

\* As long as no two processes have been opening at once, a job that enqueue()
\* accepted is in one of the two tables whatever happens between the
\* statements of the rebuild: a crash loses none.
AcceptedIsStored == ~overlapped => accepted \subseteq old \cup new

\* Then, too, a process that finished opening sees the whole schema and every
\* accepted job, however many opens were cut short before.
OpenSeesAll ==
  ~overlapped /\ (\E p \in Processes : stage[p] = "open") =>
    /\ {"jobs", "kind", "display_name"} \subseteq schema /\ "jobs_new" \notin schema
    /\ accepted \subseteq old

\* No job is lost on the way, and none is missing at the end.
OpenIsWhole == AcceptedIsStored /\ OpenSeesAll

\* Even while processes race through the migrations, one that finishes opening
\* has every migration recorded and the added column in place.
OpenIsRecorded ==
  (\E p \in Processes : stage[p] = "open") => recorded = Ids /\ "display_name" \in schema

\* Every process gets its workspace open, in a run in which no opens overlap
\* and no process dies while opening.
EveryProcessOpens ==
  [](~overlapped /\ crashes = 0) => \A p \in Processes : <>(stage[p] = "open")

\* What migration 0009 says of itself ("re-copy existing rows"): violated by
\* two overlapping opens.
JobsSurviveOverlap == accepted \subseteq old \cup new

=============================================================================
